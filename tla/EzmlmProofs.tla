----------------------------- MODULE EzmlmProofs ----------------------------
(***************************************************************************)
(* The safety of mailing lists: EzmlmSendSafe of EzmlmSend and TwentyDays of*)
(* EzmlmBounce, for any number of posts, subscribers, administrators and   *)
(* deaths; ModerateSafe of Moderate, for any posts, answers and failures;  *)
(* ManageSafe of Manage, for any lists, people, options, texts and editors.*)
(***************************************************************************)
EXTENDS EzmlmSend, EzmlmBounce, Moderate, Manage, TLAPS

PostSteps == {"start", "numbered", "copying", "synced", "archived", "reading", "done"}
AdminSteps == {"start", "locked", "copied", "done"}

ArchiveFile == [text : Post \union {"none"}, whole : BOOLEAN, exec : BOOLEAN]
Sent == [num : 1 .. MaxNum, msg : Post, rcpts : SUBSET Addr, subs : SUBSET Addr,
         killed : BOOLEAN]
Task == [addr : Addr \union {CHOOSE a \in Addr : TRUE}, add : BOOLEAN, new : SUBSET Addr]
Numbered == [num : Nat, next : Nat, rcpts : SUBSET Addr]

EzmlmSendTypeOK ==
  /\ num \in 0 .. MaxNum /\ archive \in [1 .. MaxNum -> ArchiveFile]
  /\ subs \in [File -> SUBSET Addr] /\ wanted \subseteq Addr
  /\ at \in [Process -> PostSteps \union AdminSteps]
  /\ mine \in [Post -> Numbered]
  /\ task \in [Admin -> Task]
  /\ queued \subseteq Sent

\* lock_ex(): who is in the middle of something holds dir/lock.
Working(p) == at[p] \notin {"start", "done"}
OneHolder == \A p \in Process : Working(p) => lockedBy = p

\* What a post has done under its number before it moves dir/num on, and then.
NumberingOf(p) ==
  /\ at[p] \in {"numbered", "copying", "synced", "archived"} =>
       mine[p].num = num + 1 /\ num < MaxNum /\ mine[p].next = 1 /\ mine[p].rcpts = {}
  /\ at[p] \in {"copying", "synced"} => archive[mine[p].num].text = p
  /\ at[p] = "synced" => archive[mine[p].num].whole = TRUE
  /\ at[p] \in {"archived", "reading"} =>
       archive[mine[p].num] = [text |-> p, whole |-> TRUE, exec |-> TRUE]
  /\ at[p] = "reading" =>
       /\ mine[p].num = num /\ num > 0
       /\ \A s \in queued : IF s.killed THEN s.num <= num ELSE s.num < num
       /\ mine[p].next \in 1 .. LastFile + 1
       /\ mine[p].rcpts = UNION {subs[f] : f \in 1 .. mine[p].next - 1}

\* subscribe(): the file as rewritten differs from the file by the request.
ChangingOf(q) ==
  /\ at[q] \in {"locked", "copied"} => task[q].addr \in Addr
  /\ at[q] = "copied" =>
       task[q].new = IF task[q].add THEN subs[FileOf[task[q].addr]] \union {task[q].addr}
                                    ELSE subs[FileOf[task[q].addr]] \ {task[q].addr}

\* An address is in the file it hashes to, and in no other.
Hashed == \A f \in File : \A a \in subs[f] : FileOf[a] = f

EzmlmSendInv ==
  /\ EzmlmSendTypeOK /\ OneHolder /\ Hashed
  /\ \A p \in Post : NumberingOf(p)
  /\ \A q \in Admin : ChangingOf(q)
  /\ NumberedOnce /\ Archived /\ OneMoment /\ NoChangeLost

-----------------------------------------------------------------------------
LEMMA EzmlmSendInitInv == ASSUME EzmlmSendInit PROVE EzmlmSendInv
<1>1. EzmlmSendTypeOK
  <2>1. 0 \in 0 .. MaxNum  BY EzmlmSendAssumption
  <2>2. [num |-> 0, next |-> 1, rcpts |-> {}] \in Numbered  BY DEF Numbered
  <2>3. task \in [Admin -> Task]
    <3>. DEFINE a == CHOOSE a \in Addr : TRUE
    <3>1. task = [q \in Admin |-> [addr |-> a, add |-> TRUE, new |-> {}]]
      BY DEF EzmlmSendInit
    <3>2. Task = [addr : Addr \union {a}, add : BOOLEAN, new : SUBSET Addr]
      BY DEF Task
    <3>. HIDE DEF a
    <3>. QED  BY <3>1, <3>2
  <2>4. archive \in [1 .. MaxNum -> ArchiveFile]  BY DEF EzmlmSendInit, ArchiveFile
  <2>5. at \in [Process -> PostSteps \union AdminSteps]  BY DEF EzmlmSendInit, PostSteps
  <2>6. mine \in [Post -> Numbered]  BY <2>2 DEF EzmlmSendInit
  <2>. QED  BY <2>1, <2>3, <2>4, <2>5, <2>6 DEF EzmlmSendInit, EzmlmSendTypeOK
<1>2. OneHolder /\ Hashed /\ (\A p \in Post : NumberingOf(p)) /\ (\A q \in Admin : ChangingOf(q))
  BY DEF EzmlmSendInit, OneHolder, Hashed, NumberingOf, ChangingOf, Working, Process
<1>3. NumberedOnce /\ Archived /\ OneMoment /\ NoChangeLost
  BY DEF EzmlmSendInit, NumberedOnce, Archived, OneMoment, NoChangeLost, Members
<1>. QED  BY <1>1, <1>2, <1>3 DEF EzmlmSendInv

\* The others rest while a process works: what a step of it has to keep.
LEMMA ByHolder ==
  ASSUME EzmlmSendInv, NEW p \in Process, Working(p) \/ lockedBy = "none",
         NEW x \in PostSteps \union AdminSteps, at' = [at EXCEPT ![p] = x],
         x \in {"start", "done"} \/ lockedBy' = p,
         p \in Post => NumberingOf(p)', p \in Admin => ChangingOf(p)'
  PROVE  /\ at' \in [Process -> PostSteps \union AdminSteps] /\ OneHolder'
         /\ (\A q \in Post : NumberingOf(q))' /\ (\A q \in Admin : ChangingOf(q))'
<1>1. at \in [Process -> PostSteps \union AdminSteps]
  BY DEF EzmlmSendInv, EzmlmSendTypeOK
<1>2. \A q \in Process : q # p => ~Working(q)
  BY EzmlmSendAssumption DEF EzmlmSendInv, OneHolder, Process
<1>3. \A q \in Process : at'[q] = IF q = p THEN x ELSE at[q]
  BY <1>1
<1>4. \A q \in Process : q # p => at'[q] \in {"start", "done"}
  BY <1>2, <1>3 DEF Working
<1>5. OneHolder'
  BY <1>3, <1>4 DEF OneHolder, Working
<1>6. ASSUME NEW q \in Post PROVE NumberingOf(q)'
  <2>1. CASE q = p  BY <2>1
  <2>2. CASE q # p  BY <2>2, <1>4 DEF NumberingOf, Process
  <2>. QED  BY <2>1, <2>2
<1>7. ASSUME NEW q \in Admin PROVE ChangingOf(q)'
  <2>1. CASE q = p  BY <2>1
  <2>2. CASE q # p  BY <2>2, <1>4 DEF ChangingOf, Process
  <2>. QED  BY <2>1, <2>2
<1>. QED  BY <1>1, <1>5, <1>6, <1>7

\* A post at some step, and its number.
LEMMA PostFacts ==
  ASSUME EzmlmSendInv, NEW p \in Post
  PROVE  /\ p \in Process /\ p \notin Admin /\ NumberingOf(p) /\ EzmlmSendTypeOK
         /\ num \in Nat /\ num <= MaxNum /\ MaxNum \in Nat
         /\ mine[p] \in Numbered /\ mine[p].num \in Nat /\ mine[p].next \in Nat
         /\ mine[p].rcpts \subseteq Addr
         /\ at[p] \in {"numbered", "copying", "synced", "archived", "reading"} =>
              Working(p) /\ mine[p].num \in 1 .. MaxNum
<1>1. EzmlmSendTypeOK /\ NumberingOf(p)  BY DEF EzmlmSendInv
<1>2. num \in Nat /\ num <= MaxNum /\ MaxNum \in Nat /\ mine[p] \in Numbered
  BY <1>1, EzmlmSendAssumption DEF EzmlmSendTypeOK
<1>3. mine[p].num \in Nat /\ mine[p].next \in Nat /\ mine[p].rcpts \subseteq Addr
  BY <1>2 DEF Numbered
<1>4. at[p] \in {"numbered", "copying", "synced", "archived", "reading"} =>
        Working(p) /\ mine[p].num \in 1 .. MaxNum
  BY <1>1, <1>2, <1>3 DEF NumberingOf, Working
<1>. QED  BY <1>1, <1>2, <1>3, <1>4, EzmlmSendAssumption DEF Process

LEMMA PostLockSafe ==
  ASSUME EzmlmSendInv, NEW p \in Post, PostLock(p)
  PROVE  EzmlmSendInv'
<1>. DEFINE m == [num |-> num + 1, next |-> 1, rcpts |-> {}]
<1>1. /\ lockedBy = "none" /\ lockedBy' = p /\ num < MaxNum
      /\ at' = [at EXCEPT ![p] = "numbered"] /\ mine' = [mine EXCEPT ![p] = m]
      /\ UNCHANGED <<num, archive, subs, task, queued, wanted, sendDeaths>>
  BY DEF PostLock, Lock, Step
<1>2. EzmlmSendTypeOK /\ p \in Process /\ p \notin Admin /\ num \in Nat
  BY PostFacts
<1>3. m \in Numbered /\ m.num = num + 1 /\ m.next = 1 /\ m.rcpts = {}
  BY <1>2 DEF Numbered
<1>. HIDE DEF m
<1>4. mine' \in [Post -> Numbered] /\ mine'[p] = m
  BY <1>1, <1>2, <1>3 DEF EzmlmSendTypeOK
<1>5. at'[p] = "numbered"
  BY <1>1, <1>2 DEF EzmlmSendTypeOK
<1>6. NumberingOf(p)'
  BY <1>1, <1>3, <1>4, <1>5 DEF NumberingOf
<1>7. "numbered" \in PostSteps \union AdminSteps  BY DEF PostSteps
<1>8. /\ at' \in [Process -> PostSteps \union AdminSteps] /\ OneHolder'
      /\ (\A q \in Post : NumberingOf(q))' /\ (\A q \in Admin : ChangingOf(q))'
  BY <1>1, <1>2, <1>6, <1>7, ByHolder
<1>9. EzmlmSendTypeOK' /\ Hashed'
  BY <1>1, <1>4, <1>8 DEF EzmlmSendInv, EzmlmSendTypeOK, Hashed
<1>10. NumberedOnce' /\ Archived' /\ OneMoment' /\ NoChangeLost'
  BY <1>1 DEF EzmlmSendInv, NumberedOnce, Archived, OneMoment, NoChangeLost
<1>. QED  BY <1>8, <1>9, <1>10 DEF EzmlmSendInv

\* The archive, step by step: only the file of the next number changes.
LEMMA ArchiveSafe ==
  ASSUME EzmlmSendInv, NEW p \in Post, ArchiveOpen(p) \/ ArchiveSync(p) \/ ArchiveChmod(p)
  PROVE  EzmlmSendInv'
<1>. DEFINE n == mine[p].num
            r == IF at[p] = "numbered" THEN [archive[n] EXCEPT !.text = p, !.whole = FALSE]
                 ELSE IF at[p] = "copying" THEN [archive[n] EXCEPT !.whole = TRUE]
                 ELSE [archive[n] EXCEPT !.exec = TRUE]
            x == IF at[p] = "numbered" THEN "copying"
                 ELSE IF at[p] = "copying" THEN "synced" ELSE "archived"
<1>1. /\ at[p] \in {"numbered", "copying", "synced"} /\ at' = [at EXCEPT ![p] = x]
      /\ archive' = [archive EXCEPT ![n] = r]
      /\ UNCHANGED <<lockedBy, num, subs, mine, task, queued, wanted, sendDeaths>>
  <2>1. CASE ArchiveOpen(p)  BY <2>1 DEF ArchiveOpen, Step
  <2>2. CASE ArchiveSync(p)  BY <2>2 DEF ArchiveSync, Step
  <2>3. CASE ArchiveChmod(p)  BY <2>3 DEF ArchiveChmod, Step
  <2>. QED  BY <2>1, <2>2, <2>3
<1>2. /\ EzmlmSendTypeOK /\ p \in Process /\ p \notin Admin /\ num \in Nat /\ NumberingOf(p)
      /\ Working(p) /\ n \in 1 .. MaxNum /\ n = num + 1
  BY <1>1, PostFacts DEF NumberingOf
<1>3. /\ archive[n] \in ArchiveFile /\ r \in ArchiveFile
      /\ at[p] = "numbered" => r.text = p
      /\ at[p] = "copying" => r.text = archive[n].text /\ r.whole = TRUE
      /\ at[p] = "synced" => r.text = archive[n].text /\ r.whole = archive[n].whole /\ r.exec = TRUE
  <2>1. archive[n] \in ArchiveFile  BY <1>2 DEF EzmlmSendTypeOK
  <2>. QED  BY <1>1, <2>1 DEF ArchiveFile
<1>4. at'[p] = x  BY <1>1, <1>2 DEF EzmlmSendTypeOK
<1>5. archive'[n] = r /\ archive' \in [1 .. MaxNum -> ArchiveFile]
      /\ \A k \in 1 .. MaxNum : k # n => archive'[k] = archive[k]
  BY <1>1, <1>2, <1>3 DEF EzmlmSendTypeOK
<1>6. /\ at[p] \in {"copying", "synced"} => archive[n].text = p
      /\ at[p] = "synced" => archive[n].whole = TRUE
      /\ num < MaxNum /\ mine[p].next = 1 /\ mine[p].rcpts = {}
  BY <1>1, <1>2 DEF NumberingOf
<1>7. at[p] = "synced" => r = [text |-> p, whole |-> TRUE, exec |-> TRUE]
  <2>. HIDE DEF r
  <2>. QED  BY <1>3, <1>6 DEF ArchiveFile
<1>8. NumberingOf(p)'
  <2>. HIDE DEF r
  <2>. QED  BY <1>1, <1>2, <1>3, <1>4, <1>5, <1>6, <1>7 DEF NumberingOf
<1>9. x \in PostSteps \union AdminSteps  BY DEF PostSteps
<1>10. lockedBy = p  BY <1>2 DEF EzmlmSendInv, OneHolder
<1>. HIDE DEF r, x
<1>11. /\ at' \in [Process -> PostSteps \union AdminSteps] /\ OneHolder'
       /\ (\A q \in Post : NumberingOf(q))' /\ (\A q \in Admin : ChangingOf(q))'
  BY <1>1, <1>2, <1>8, <1>9, <1>10, ByHolder
<1>12. EzmlmSendTypeOK' /\ Hashed'
  BY <1>1, <1>5, <1>11 DEF EzmlmSendInv, EzmlmSendTypeOK, Hashed
<1>13. Archived'
  <2>1. ASSUME NEW s \in queued, ~s.killed
        PROVE  archive'[s.num] = [text |-> s.msg, whole |-> TRUE, exec |-> TRUE]
    <3>1. s.num \in 1 .. MaxNum  BY <1>2 DEF EzmlmSendTypeOK, Sent
    <3>2. s.num <= num  BY <2>1 DEF EzmlmSendInv, NumberedOnce
    <3>3. s.num # n  BY <1>2, <3>1, <3>2
    <3>. QED  BY <1>5, <2>1, <3>1, <3>3 DEF EzmlmSendInv, Archived
  <2>. QED  BY <1>1, <2>1 DEF Archived
<1>14. NumberedOnce' /\ OneMoment' /\ NoChangeLost'
  BY <1>1 DEF EzmlmSendInv, NumberedOnce, OneMoment, NoChangeLost
<1>. QED  BY <1>11, <1>12, <1>13, <1>14 DEF EzmlmSendInv

LEMMA NumWriteSafe ==
  ASSUME EzmlmSendInv, NEW p \in Post, NumWrite(p)
  PROVE  EzmlmSendInv'
<1>1. /\ at[p] = "archived" /\ at' = [at EXCEPT ![p] = "reading"] /\ num' = mine[p].num
      /\ UNCHANGED <<lockedBy, archive, subs, mine, task, queued, wanted, sendDeaths>>
  BY DEF NumWrite, Step
<1>2. /\ EzmlmSendTypeOK /\ p \in Process /\ p \notin Admin /\ num \in Nat /\ NumberingOf(p)
      /\ Working(p) /\ mine[p].num \in 1 .. MaxNum /\ num' = num + 1
  BY <1>1, PostFacts DEF NumberingOf
<1>3. at'[p] = "reading"  BY <1>1, <1>2 DEF EzmlmSendTypeOK
<1>4. \A s \in queued : IF s.killed THEN s.num <= num' ELSE s.num < num'
  <2>1. ASSUME NEW s \in queued
        PROVE  s.num \in Nat /\ s.num <= IF s.killed THEN num + 1 ELSE num
    BY <1>2 DEF EzmlmSendInv, EzmlmSendTypeOK, Sent, NumberedOnce
  <2>. QED  BY <1>2, <2>1
<1>5. NumberingOf(p)'
  <2>1. /\ mine[p].next = 1 /\ mine[p].rcpts = {}
        /\ archive[mine[p].num] = [text |-> p, whole |-> TRUE, exec |-> TRUE]
    BY <1>1, <1>2 DEF NumberingOf
  <2>2. 1 \in 1 .. LastFile + 1  BY EzmlmSendAssumption
  <2>3. {} = UNION {subs[f] : f \in 1 .. 1 - 1}  OBVIOUS
  <2>. QED  BY <1>1, <1>2, <1>3, <1>4, <2>1, <2>2, <2>3 DEF NumberingOf
<1>6. "reading" \in PostSteps \union AdminSteps  BY DEF PostSteps
<1>7. lockedBy = p  BY <1>2 DEF EzmlmSendInv, OneHolder
<1>8. /\ at' \in [Process -> PostSteps \union AdminSteps] /\ OneHolder'
      /\ (\A q \in Post : NumberingOf(q))' /\ (\A q \in Admin : ChangingOf(q))'
  BY <1>1, <1>2, <1>5, <1>6, <1>7, ByHolder
<1>9. EzmlmSendTypeOK' /\ Hashed'
  <2>1. num' \in 0 .. MaxNum  BY <1>1, <1>2
  <2>. QED  BY <1>1, <1>8, <2>1 DEF EzmlmSendInv, EzmlmSendTypeOK, Hashed
<1>10. NumberedOnce'
  <2>1. ASSUME NEW s \in queued PROVE s.num <= IF s.killed THEN num' + 1 ELSE num'
    <3>1. s.num \in Nat  BY <1>2 DEF EzmlmSendTypeOK, Sent
    <3>. QED  BY <1>2, <1>4, <3>1
  <2>. QED  BY <1>1, <2>1 DEF EzmlmSendInv, NumberedOnce
<1>11. Archived' /\ OneMoment' /\ NoChangeLost'
  BY <1>1 DEF EzmlmSendInv, Archived, OneMoment, NoChangeLost
<1>. QED  BY <1>8, <1>9, <1>10, <1>11 DEF EzmlmSendInv

LEMMA OneMoreFile ==
  ASSUME NEW s, NEW B, NEW b
  PROVE  UNION {s[f] : f \in B \union {b}} = (UNION {s[f] : f \in B}) \union s[b]
<1>. DEFINE Some == {s[f] : f \in B}
            All  == {s[f] : f \in B \union {b}}
<1>1. \A x \in Some : x \in All  OBVIOUS
<1>2. s[b] \in All  OBVIOUS
<1>3. \A x \in All : x \in Some \/ x = s[b]  OBVIOUS
<1>. HIDE DEF Some, All
<1>4. UNION All = (UNION Some) \union s[b]
  BY <1>1, <1>2, <1>3
<1>. QED  BY <1>4 DEF Some, All

\* One more file has been read.
LEMMA ReadFileSafe ==
  ASSUME EzmlmSendInv, NEW p \in Post, ReadFile(p)
  PROVE  EzmlmSendInv'
<1>. DEFINE k == mine[p].next
            m == [mine[p] EXCEPT !.next = k + 1, !.rcpts = @ \union subs[k]]
<1>1. /\ at[p] = "reading" /\ k <= LastFile /\ mine' = [mine EXCEPT ![p] = m]
      /\ UNCHANGED <<lockedBy, num, archive, subs, at, task, queued, wanted, sendDeaths>>
  BY DEF ReadFile
<1>2. /\ EzmlmSendTypeOK /\ p \in Process /\ p \notin Admin /\ num \in Nat /\ NumberingOf(p)
      /\ Working(p) /\ mine[p] \in Numbered /\ k \in Nat /\ mine[p].rcpts \subseteq Addr
  BY <1>1, PostFacts
<1>3. /\ k \in 1 .. LastFile /\ LastFile \in Nat
      /\ mine[p].rcpts = UNION {subs[f] : f \in 1 .. k - 1} /\ mine[p].num = num
  BY <1>1, <1>2, EzmlmSendAssumption DEF NumberingOf
<1>4. subs[k] \subseteq Addr
  BY <1>2, <1>3, EzmlmSendAssumption DEF EzmlmSendTypeOK
<1>5. /\ m \in Numbered /\ m.num = mine[p].num /\ m.next = k + 1
      /\ m.rcpts = mine[p].rcpts \union subs[k]
  <2>. DEFINE m1 == [mine[p] EXCEPT !.next = k + 1]
  <2>1. /\ m1 \in Numbered /\ m1.num = mine[p].num /\ m1.next = k + 1
        /\ m1.rcpts = mine[p].rcpts
    BY <1>2 DEF Numbered
  <2>2. m = [m1 EXCEPT !.rcpts = @ \union subs[k]]
    BY <1>2 DEF Numbered
  <2>. HIDE DEF m1, m
  <2>. QED  BY <2>1, <2>2, <1>2, <1>4 DEF Numbered
<1>. HIDE DEF m
<1>6. mine' \in [Post -> Numbered] /\ mine'[p] = m
  BY <1>1, <1>2, <1>5 DEF EzmlmSendTypeOK
<1>7. m.rcpts = UNION {subs[f] : f \in 1 .. m.next - 1}
  <2>. HIDE DEF k
  <2>1. 1 .. (k + 1) - 1 = (1 .. k - 1) \union {k}  BY <1>3
  <2>2. UNION {subs[f] : f \in (1 .. k - 1) \union {k}} =
          (UNION {subs[f] : f \in 1 .. k - 1}) \union subs[k]
    BY OneMoreFile
  <2>. QED  BY <1>3, <1>5, <2>1, <2>2
<1>8. m.next \in 1 .. LastFile + 1  BY <1>3, <1>5
<1>9. NumberingOf(p)'
  BY <1>1, <1>2, <1>5, <1>6, <1>7, <1>8 DEF NumberingOf
<1>10. lockedBy = p  BY <1>2 DEF EzmlmSendInv, OneHolder
<1>11. at' = [at EXCEPT ![p] = "reading"] /\ "reading" \in PostSteps \union AdminSteps
  BY <1>1, <1>2 DEF EzmlmSendTypeOK, PostSteps
<1>12. /\ at' \in [Process -> PostSteps \union AdminSteps] /\ OneHolder'
       /\ (\A q \in Post : NumberingOf(q))' /\ (\A q \in Admin : ChangingOf(q))'
  BY <1>1, <1>2, <1>9, <1>10, <1>11, ByHolder
<1>13. EzmlmSendTypeOK' /\ Hashed'
  BY <1>1, <1>6, <1>12 DEF EzmlmSendInv, EzmlmSendTypeOK, Hashed
<1>14. NumberedOnce' /\ Archived' /\ OneMoment' /\ NoChangeLost'
  BY <1>1 DEF EzmlmSendInv, NumberedOnce, Archived, OneMoment, NoChangeLost
<1>. QED  BY <1>12, <1>13, <1>14 DEF EzmlmSendInv

\* A message that has just been queued: it has a number of its own, which is
\* taken back only from a killed one, is in the archive, and goes to the
\* subscribers of this moment.
LEMMA AcceptSafe ==
  ASSUME EzmlmSendInv, NEW p \in Post, NEW k \in BOOLEAN, Finished(p), Accept(p, k),
         num' = num \/ (k /\ num' = num - 1), UNCHANGED archive
  PROVE  /\ queued' \subseteq Sent /\ NumberedOnce' /\ Archived' /\ OneMoment'
<1>. DEFINE r == [num |-> mine[p].num, msg |-> p, rcpts |-> mine[p].rcpts,
                  subs |-> Members(subs), killed |-> k]
<1>1. /\ at[p] = "reading" /\ mine[p].next > LastFile /\ queued' = queued \union {r}
  BY DEF Finished, Accept
<1>2. /\ EzmlmSendTypeOK /\ num \in Nat /\ NumberingOf(p)
      /\ mine[p].num \in 1 .. MaxNum /\ mine[p].next \in Nat
  BY <1>1, PostFacts
<1>3. /\ mine[p].num = num /\ num > 0
      /\ \A s \in queued : IF s.killed THEN s.num <= num ELSE s.num < num
      /\ archive[num] = [text |-> p, whole |-> TRUE, exec |-> TRUE]
  BY <1>1, <1>2 DEF NumberingOf
<1>4. mine[p].rcpts = Members(subs)
  <2>1. mine[p].next \in 1 .. LastFile + 1 /\ LastFile \in Nat
        /\ mine[p].rcpts = UNION {subs[f] : f \in 1 .. mine[p].next - 1}
    BY <1>1, <1>2, EzmlmSendAssumption DEF NumberingOf
  <2>2. 1 .. mine[p].next - 1 = File  BY <1>1, <1>2, <2>1, EzmlmSendAssumption
  <2>. QED  BY <2>1, <2>2 DEF Members
<1>5. Members(subs) \subseteq Addr  BY <1>2 DEF Members, EzmlmSendTypeOK
<1>6. r \in Sent /\ r.num = num /\ r.msg = p /\ r.rcpts = r.subs /\ r.killed = k
  BY <1>2, <1>3, <1>4, <1>5 DEF Sent
<1>. HIDE DEF r
<1>7. queued' \subseteq Sent  BY <1>1, <1>2, <1>6 DEF EzmlmSendTypeOK
<1>8. NumberedOnce'
  <2>1. num' \in Int /\ num <= num' + 1 /\ (~k => num' = num)  BY <1>2
  <2>2. ASSUME NEW s \in queued PROVE s.num \in Nat
    BY <1>2 DEF EzmlmSendTypeOK, Sent
  <2>3. ASSUME NEW s \in queued' PROVE s.num <= IF s.killed THEN num' + 1 ELSE num'
    <3>1. CASE s \in queued
      <4>1. s.num \in Nat /\ (s.killed => s.num <= num) /\ (~s.killed => s.num < num)
        BY <1>3, <2>2, <3>1
      <4>2. CASE s.killed  BY <1>2, <2>1, <4>1, <4>2
      <4>3. CASE ~s.killed  BY <1>2, <2>1, <4>1, <4>3
      <4>. QED  BY <4>2, <4>3
    <3>2. CASE s = r  BY <1>2, <1>6, <2>1, <3>2
    <3>. QED  BY <1>1, <3>1, <3>2
  <2>4. ASSUME NEW s \in queued', NEW t \in queued', ~s.killed, ~t.killed, s.num = t.num
        PROVE  s.msg = t.msg
    <3>1. CASE s \in queued /\ t \in queued
      BY <2>4, <3>1 DEF EzmlmSendInv, NumberedOnce
    <3>2. CASE s = r \/ t = r
      <4>1. s.num = num /\ t.num = num  BY <1>6, <2>4, <3>2
      <4>2. s \notin queued /\ t \notin queued  BY <1>2, <1>3, <2>4, <4>1
      <4>. QED  BY <1>1, <4>2
    <3>. QED  BY <1>1, <3>1, <3>2
  <2>. QED  BY <2>3, <2>4 DEF NumberedOnce
<1>9. Archived' /\ OneMoment'
  BY <1>1, <1>3, <1>6 DEF EzmlmSendInv, Archived, OneMoment
<1>. QED  BY <1>7, <1>8, <1>9

LEMMA CloseSafe ==
  ASSUME EzmlmSendInv, NEW p \in Post, Close(p)
  PROVE  EzmlmSendInv'
<1>1. /\ Finished(p) /\ Accept(p, FALSE) /\ at' = [at EXCEPT ![p] = "done"] /\ lockedBy' = "none"
      /\ UNCHANGED <<num, archive, subs, mine, task, wanted, sendDeaths>>
  BY DEF Close
<1>2. queued' \subseteq Sent /\ NumberedOnce' /\ Archived' /\ OneMoment'
  BY <1>1, AcceptSafe
<1>3. EzmlmSendTypeOK /\ p \in Process /\ p \notin Admin /\ Working(p)
  BY <1>1, PostFacts DEF Finished
<1>4. at'[p] = "done"  BY <1>1, <1>3 DEF EzmlmSendTypeOK
<1>5. NumberingOf(p)'  BY <1>4 DEF NumberingOf
<1>6. "done" \in PostSteps \union AdminSteps  BY DEF PostSteps
<1>7. /\ at' \in [Process -> PostSteps \union AdminSteps] /\ OneHolder'
      /\ (\A q \in Post : NumberingOf(q))' /\ (\A q \in Admin : ChangingOf(q))'
  BY <1>1, <1>3, <1>5, <1>6, ByHolder
<1>8. EzmlmSendTypeOK' /\ Hashed' /\ NoChangeLost'
  BY <1>1, <1>2, <1>7 DEF EzmlmSendInv, EzmlmSendTypeOK, Hashed, NoChangeLost
<1>. QED  BY <1>2, <1>7, <1>8 DEF EzmlmSendInv

\* The number is taken back, and nothing went out under it but of a killed
\* qmail-queue.
LEMMA CloseFailsSafe ==
  ASSUME EzmlmSendInv, NEW p \in Post, CloseFails(p)
  PROVE  EzmlmSendInv'
<1>1. /\ at[p] = "reading" /\ at' = [at EXCEPT ![p] = "start"] /\ lockedBy' = "none"
      /\ num' = mine[p].num - 1 /\ Finished(p)
      /\ queued' = queued \/ Accept(p, TRUE)
      /\ UNCHANGED <<archive, subs, mine, task, wanted>>
  BY DEF CloseFails, Finished
<1>2. /\ EzmlmSendTypeOK /\ p \in Process /\ p \notin Admin /\ Working(p) /\ num \in Nat
      /\ num <= MaxNum /\ MaxNum \in Nat /\ NumberingOf(p)
  BY <1>1, PostFacts
<1>3. /\ mine[p].num = num /\ num > 0
      /\ \A s \in queued : IF s.killed THEN s.num <= num ELSE s.num < num
  BY <1>1, <1>2 DEF NumberingOf
<1>4. at'[p] = "start"  BY <1>1, <1>2 DEF EzmlmSendTypeOK
<1>5. NumberingOf(p)'  BY <1>4 DEF NumberingOf
<1>6. "start" \in PostSteps \union AdminSteps  BY DEF PostSteps
<1>7. /\ at' \in [Process -> PostSteps \union AdminSteps] /\ OneHolder'
      /\ (\A q \in Post : NumberingOf(q))' /\ (\A q \in Admin : ChangingOf(q))'
  BY <1>1, <1>2, <1>5, <1>6, ByHolder
<1>8. queued' \subseteq Sent /\ NumberedOnce' /\ Archived' /\ OneMoment'
  <2>1. CASE Accept(p, TRUE)
    <3>1. num' = num - 1  BY <1>1, <1>3
    <3>. QED  BY <1>1, <2>1, <3>1, AcceptSafe
  <2>2. CASE queued' = queued
    <3>1. \A s \in queued : s.num <= IF s.killed THEN num' + 1 ELSE num'
      <4>1. \A s \in queued : s.num \in Nat  BY <1>2 DEF EzmlmSendTypeOK, Sent
      <4>. QED  BY <1>1, <1>2, <1>3, <4>1
    <3>. QED  BY <1>1, <1>2, <2>2, <3>1
         DEF EzmlmSendInv, EzmlmSendTypeOK, NumberedOnce, Archived, OneMoment
  <2>. QED  BY <1>1, <2>1, <2>2
<1>9. EzmlmSendTypeOK' /\ Hashed' /\ NoChangeLost'
  <2>1. num' \in 0 .. MaxNum  BY <1>1, <1>2, <1>3
  <2>. QED  BY <1>1, <1>7, <1>8, <2>1
       DEF EzmlmSendInv, EzmlmSendTypeOK, Hashed, NoChangeLost
<1>. QED  BY <1>7, <1>8, <1>9 DEF EzmlmSendInv

LEMMA SendDiesSafe ==
  ASSUME EzmlmSendInv, NEW p \in Process, SendDies(p)
  PROVE  EzmlmSendInv'
<1>1. /\ lockedBy = p /\ lockedBy' = "none" /\ at' = [at EXCEPT ![p] = "start"]
      /\ queued' = queued \/ (p \in Post /\ Finished(p) /\ Accept(p, FALSE))
      /\ UNCHANGED <<num, archive, subs, mine, task, wanted>>
  BY DEF SendDies
<1>2. EzmlmSendTypeOK /\ at \in [Process -> PostSteps \union AdminSteps]
  BY DEF EzmlmSendInv, EzmlmSendTypeOK
<1>3. at'[p] = "start" /\ \A q \in Process : q # p => at'[q] = at[q] /\ ~Working(q)
  BY <1>1, <1>2 DEF EzmlmSendInv, OneHolder
<1>4. \A q \in Process : at'[q] \in {"start", "done"}
  BY <1>3 DEF Working
<1>5. /\ OneHolder' /\ (\A q \in Post : NumberingOf(q))' /\ (\A q \in Admin : ChangingOf(q))'
  BY <1>4 DEF OneHolder, NumberingOf, ChangingOf, Working, Process
<1>6. queued' \subseteq Sent /\ NumberedOnce' /\ Archived' /\ OneMoment'
  <2>1. CASE queued' = queued
    BY <1>1, <1>2, <2>1 DEF EzmlmSendTypeOK, EzmlmSendInv, NumberedOnce, Archived, OneMoment
  <2>2. CASE p \in Post /\ Finished(p) /\ Accept(p, FALSE)
    BY <1>1, <2>2, AcceptSafe
  <2>. QED  BY <1>1, <2>1, <2>2
<1>7. at' \in [Process -> PostSteps \union AdminSteps]
  BY <1>1, <1>2 DEF PostSteps
<1>8. EzmlmSendTypeOK' /\ Hashed' /\ NoChangeLost'
  BY <1>1, <1>2, <1>6, <1>7 DEF EzmlmSendInv, EzmlmSendTypeOK, Hashed, NoChangeLost
<1>. QED  BY <1>5, <1>6, <1>8 DEF EzmlmSendInv

-----------------------------------------------------------------------------
\* subscribe()
LEMMA AdminFacts ==
  ASSUME EzmlmSendInv, NEW q \in Admin
  PROVE  /\ q \in Process /\ q \notin Post /\ ChangingOf(q) /\ EzmlmSendTypeOK
         /\ task[q] \in Task
         /\ at[q] \in {"locked", "copied"} =>
              /\ Working(q) /\ lockedBy = q /\ task[q].addr \in Addr
              /\ FileOf[task[q].addr] \in File
<1>1. EzmlmSendTypeOK /\ ChangingOf(q) /\ q \in Process /\ q \notin Post
  BY EzmlmSendAssumption DEF EzmlmSendInv, Process
<1>2. task[q] \in Task  BY <1>1 DEF EzmlmSendTypeOK
<1>3. at[q] \in {"locked", "copied"} => Working(q) /\ task[q].addr \in Addr
  BY <1>1 DEF Working, ChangingOf
<1>4. Working(q) => lockedBy = q  BY <1>1 DEF EzmlmSendInv, OneHolder
<1>. QED  BY <1>1, <1>2, <1>3, <1>4, EzmlmSendAssumption

LEMMA SubscribeLockSafe ==
  ASSUME EzmlmSendInv, NEW q \in Admin, NEW a \in Addr, NEW add \in BOOLEAN,
         SubscribeLock(q, a, add)
  PROVE  EzmlmSendInv'
<1>. DEFINE r == [addr |-> a, add |-> add, new |-> {}]
<1>1. /\ lockedBy = "none" /\ lockedBy' = q /\ at' = [at EXCEPT ![q] = "locked"]
      /\ task' = [task EXCEPT ![q] = r]
      /\ UNCHANGED <<num, archive, subs, mine, queued, wanted, sendDeaths>>
  BY DEF SubscribeLock, Lock, Step
<1>2. q \in Process /\ q \notin Post /\ EzmlmSendTypeOK  BY AdminFacts
<1>3. r \in Task /\ r.addr = a  BY DEF Task
<1>. HIDE DEF r
<1>4. task' \in [Admin -> Task] /\ task'[q] = r  BY <1>1, <1>2, <1>3 DEF EzmlmSendTypeOK
<1>5. at'[q] = "locked"  BY <1>1, <1>2 DEF EzmlmSendTypeOK
<1>6. ChangingOf(q)'  BY <1>3, <1>4, <1>5 DEF ChangingOf
<1>7. "locked" \in PostSteps \union AdminSteps  BY DEF AdminSteps
<1>8. /\ at' \in [Process -> PostSteps \union AdminSteps] /\ OneHolder'
      /\ (\A p \in Post : NumberingOf(p))' /\ (\A p \in Admin : ChangingOf(p))'
  BY <1>1, <1>2, <1>6, <1>7, ByHolder
<1>9. EzmlmSendTypeOK' /\ Hashed'
  BY <1>1, <1>4, <1>8 DEF EzmlmSendInv, EzmlmSendTypeOK, Hashed
<1>10. NumberedOnce' /\ Archived' /\ OneMoment' /\ NoChangeLost'
  BY <1>1 DEF EzmlmSendInv, NumberedOnce, Archived, OneMoment, NoChangeLost
<1>. QED  BY <1>8, <1>9, <1>10 DEF EzmlmSendInv

LEMMA SubscribeCopySafe ==
  ASSUME EzmlmSendInv, NEW q \in Admin, SubscribeCopy(q)
  PROVE  EzmlmSendInv'
<1>. DEFINE a == task[q].addr
            after == IF task[q].add THEN subs[FileOf[a]] \union {a} ELSE subs[FileOf[a]] \ {a}
            r == [task[q] EXCEPT !.new = after]
<1>1. /\ at[q] = "locked" /\ at' = [at EXCEPT ![q] = "copied"]
      /\ task' = [task EXCEPT ![q] = r]
      /\ UNCHANGED <<lockedBy, num, archive, subs, mine, queued, wanted, sendDeaths>>
  BY DEF SubscribeCopy, Step
<1>2. /\ q \in Process /\ q \notin Post /\ EzmlmSendTypeOK /\ task[q] \in Task
      /\ Working(q) /\ lockedBy = q /\ a \in Addr /\ FileOf[a] \in File
  BY <1>1, AdminFacts
<1>3. after \subseteq Addr  BY <1>2 DEF EzmlmSendTypeOK
<1>4. r \in Task /\ r.addr = a /\ r.add = task[q].add /\ r.new = after
  <2>. HIDE DEF after
  <2>. QED  BY <1>2, <1>3 DEF Task
<1>5. task' \in [Admin -> Task] /\ task'[q] = r
  <2>. HIDE DEF r
  <2>. QED  BY <1>1, <1>2, <1>4 DEF EzmlmSendTypeOK
<1>6. at'[q] = "copied"  BY <1>1, <1>2 DEF EzmlmSendTypeOK
<1>7. ChangingOf(q)'
  <2>. HIDE DEF r
  <2>. QED  BY <1>1, <1>2, <1>4, <1>5, <1>6 DEF ChangingOf
<1>8. "copied" \in PostSteps \union AdminSteps  BY DEF AdminSteps
<1>. HIDE DEF r, after
<1>9. /\ at' \in [Process -> PostSteps \union AdminSteps] /\ OneHolder'
      /\ (\A p \in Post : NumberingOf(p))' /\ (\A p \in Admin : ChangingOf(p))'
  BY <1>1, <1>2, <1>7, <1>8, ByHolder
<1>10. EzmlmSendTypeOK' /\ Hashed'
  BY <1>1, <1>5, <1>9 DEF EzmlmSendInv, EzmlmSendTypeOK, Hashed
<1>11. NumberedOnce' /\ Archived' /\ OneMoment' /\ NoChangeLost'
  BY <1>1 DEF EzmlmSendInv, NumberedOnce, Archived, OneMoment, NoChangeLost
<1>. QED  BY <1>9, <1>10, <1>11 DEF EzmlmSendInv

\* The renamed file changes the subscribers by the request, and nothing else.
LEMMA SubscribeRenameSafe ==
  ASSUME EzmlmSendInv, NEW q \in Admin, SubscribeRename(q)
  PROVE  EzmlmSendInv'
<1>. DEFINE a == task[q].addr
            g == FileOf[a]
            after == task[q].new
<1>1. /\ at[q] = "copied" /\ at' = [at EXCEPT ![q] = "done"] /\ lockedBy' = "none"
      /\ subs' = [subs EXCEPT ![g] = after]
      /\ wanted' = IF task[q].add THEN wanted \union {a} ELSE wanted \ {a}
      /\ UNCHANGED <<num, archive, mine, task, queued, sendDeaths>>
  BY DEF SubscribeRename, Step
<1>2. /\ q \in Process /\ q \notin Post /\ EzmlmSendTypeOK /\ ChangingOf(q) /\ task[q] \in Task
      /\ Working(q) /\ lockedBy = q /\ a \in Addr /\ g \in File
  BY <1>1, AdminFacts
<1>3. after = IF task[q].add THEN subs[g] \union {a} ELSE subs[g] \ {a}
  BY <1>1, <1>2 DEF ChangingOf
<1>4. after \subseteq Addr /\ subs \in [File -> SUBSET Addr]  BY <1>2, <1>3 DEF EzmlmSendTypeOK
<1>. HIDE DEF after
<1>5. /\ subs' \in [File -> SUBSET Addr] /\ subs'[g] = after
      /\ \A f \in File : f # g => subs'[f] = subs[f]
  BY <1>1, <1>2, <1>4
<1>6. at'[q] = "done"  BY <1>1, <1>2 DEF EzmlmSendTypeOK
<1>7. ChangingOf(q)'  BY <1>6 DEF ChangingOf
<1>8. "done" \in PostSteps \union AdminSteps  BY DEF AdminSteps
<1>9. /\ at' \in [Process -> PostSteps \union AdminSteps] /\ OneHolder'
      /\ (\A p \in Post : NumberingOf(p))' /\ (\A p \in Admin : ChangingOf(p))'
  BY <1>1, <1>2, <1>7, <1>8, ByHolder
<1>10. EzmlmSendTypeOK'
  <2>1. wanted' \subseteq Addr  BY <1>1, <1>2 DEF EzmlmSendTypeOK
  <2>. QED  BY <1>1, <1>5, <1>9, <2>1 DEF EzmlmSendInv, EzmlmSendTypeOK
<1>11. Hashed'
  <2>1. ASSUME NEW f \in File, NEW b \in subs'[f] PROVE FileOf[b] = f
    <3>1. CASE f = g  BY <2>1, <3>1, <1>3, <1>5 DEF EzmlmSendInv, Hashed
    <3>2. CASE f # g  BY <2>1, <3>2, <1>5 DEF EzmlmSendInv, Hashed
    <3>. QED  BY <3>1, <3>2
  <2>. QED  BY <2>1 DEF Hashed
<1>12. NoChangeLost'
  <2>1. \A b : b \in Members(subs) <=> \E f \in File : b \in subs[f]
    BY DEF Members
  <2>2. \A b : b \in Members(subs') <=> \E f \in File : b \in subs'[f]
    BY DEF Members
  <2>3. Members(subs) = wanted  BY DEF EzmlmSendInv, NoChangeLost
  <2>4. ASSUME NEW b, b # a
        PROVE  (\E f \in File : b \in subs'[f]) <=> (\E f \in File : b \in subs[f])
    <3>1. \A f \in File : b \in subs'[f] <=> b \in subs[f]  BY <1>3, <1>5, <2>4
    <3>. QED  BY <3>1
  <2>5. (\E f \in File : a \in subs'[f]) <=> task[q].add
    <3>1. CASE task[q].add  BY <3>1, <1>2, <1>3, <1>5
    <3>2. CASE ~task[q].add
      <4>1. \A f \in File : a \in subs'[f] => f = g  BY <1>11 DEF Hashed
      <4>. QED  BY <4>1, <3>2, <1>3, <1>5
    <3>. QED  BY <3>1, <3>2
  <2>6. \A b : b \in Members(subs') <=> b \in wanted'
    BY <1>1, <2>1, <2>2, <2>3, <2>4, <2>5
  <2>7. Members(subs') = wanted'  BY <2>6
  <2>. QED  BY <2>7 DEF NoChangeLost, Members
<1>13. NumberedOnce' /\ Archived' /\ OneMoment'
  BY <1>1 DEF EzmlmSendInv, NumberedOnce, Archived, OneMoment
<1>. QED  BY <1>9, <1>10, <1>11, <1>12, <1>13 DEF EzmlmSendInv

LEMMA EzmlmSendStutter ==
  ASSUME EzmlmSendInv, UNCHANGED ezVars
  PROVE  EzmlmSendInv'
<1>1. UNCHANGED <<lockedBy, num, archive, subs, at, mine, task, queued, wanted>>
  BY DEF ezVars
<1>2. EzmlmSendTypeOK' /\ OneHolder' /\ Hashed'
  BY <1>1 DEF EzmlmSendInv, EzmlmSendTypeOK, OneHolder, Hashed, Working
<1>3. \A q \in Admin : ChangingOf(q)'  BY <1>1 DEF EzmlmSendInv, ChangingOf
<1>5. ASSUME NEW p \in Post PROVE NumberingOf(p)'
  <2>1. NumberingOf(p)  BY DEF EzmlmSendInv
  <2>. QED  BY <1>1, <2>1 DEF NumberingOf
<1>4. NumberedOnce' /\ Archived' /\ OneMoment' /\ NoChangeLost'
  BY <1>1 DEF EzmlmSendInv, NumberedOnce, Archived, OneMoment, NoChangeLost
<1>. QED  BY <1>2, <1>3, <1>4, <1>5 DEF EzmlmSendInv

\* ezmlm-send and subscribe(): but for the number taken back from a qmail-queue
\* that was killed when its message was already in todo/, a number names one
\* message and what went out is in the archive, whole, under its number; what
\* went out went to the subscribers of one moment; and no change of the
\* subscribers is lost.
THEOREM EzmlmSendHolds == EzmlmSendSpec => []EzmlmSendSafe
<1>1. EzmlmSendInit => EzmlmSendInv
  BY EzmlmSendInitInv
<1>2. EzmlmSendInv /\ [EzmlmSendNext]_ezVars => EzmlmSendInv'
  <2>. SUFFICES ASSUME EzmlmSendInv, [EzmlmSendNext]_ezVars PROVE EzmlmSendInv'
    OBVIOUS
  <2>1. CASE \E p \in Post : PostLock(p)  BY <2>1, PostLockSafe
  <2>2. CASE \E p \in Post : ArchiveOpen(p) \/ ArchiveSync(p) \/ ArchiveChmod(p)
    BY <2>2, ArchiveSafe
  <2>3. CASE \E p \in Post : NumWrite(p)  BY <2>3, NumWriteSafe
  <2>4. CASE \E p \in Post : ReadFile(p)  BY <2>4, ReadFileSafe
  <2>5. CASE \E p \in Post : Close(p)  BY <2>5, CloseSafe
  <2>6. CASE \E p \in Post : CloseFails(p)  BY <2>6, CloseFailsSafe
  <2>7. CASE \E q \in Admin : \E a \in Addr, add \in BOOLEAN : SubscribeLock(q, a, add)
    BY <2>7, SubscribeLockSafe
  <2>8. CASE \E q \in Admin : SubscribeCopy(q)  BY <2>8, SubscribeCopySafe
  <2>9. CASE \E q \in Admin : SubscribeRename(q)  BY <2>9, SubscribeRenameSafe
  <2>10. CASE \E p \in Process : SendDies(p)  BY <2>10, SendDiesSafe
  <2>11. CASE UNCHANGED ezVars  BY <2>11, EzmlmSendStutter
  <2>. QED  BY <2>1, <2>2, <2>3, <2>4, <2>5, <2>6, <2>7, <2>8, <2>9, <2>10, <2>11
         DEF EzmlmSendNext
<1>3. EzmlmSendInv => EzmlmSendSafe
  BY DEF EzmlmSendInv, EzmlmSendSafe
<1>. QED  BY <1>1, <1>2, <1>3, PTL DEF EzmlmSendSpec

-----------------------------------------------------------------------------
\* The first bounce is some whole units of time older than every thing in S.
Since(n, S) == \A age \in S : first = TooOld \/ first >= age + n

\* A d is no older than the first bounce; a warning was sent for a d of ten
\* days, a w came of a warning, and a probe was sent for a w of ten days.
BounceInv ==
  /\ EzmlmBounceTypeOK
  /\ Since(0, d) /\ Since(1, warnings) /\ Since(1, w) /\ Since(2, probes)

LEMMA BounceInitInv == ASSUME EzmlmBounceInit PROVE BounceInv
  BY EzmlmBounceAssumption
  DEF EzmlmBounceInit, BounceInv, EzmlmBounceTypeOK, Since, AgeOf, NoFile, TooOld

LEMMA ReturnSafe ==
  ASSUME BounceInv, Return
  PROVE  BounceInv'
<1>1. EzmlmBounceTypeOK /\ Since(0, d) /\ Since(1, warnings) /\ Since(1, w) /\ Since(2, probes)
  BY DEF BounceInv
<1>. USE DEF TooOld, NoFile, AgeOf
<1>2. CASE ReturnBounce
  <2>1. EzmlmBounceTypeOK'  BY <1>1, <1>2 DEF ReturnBounce, EzmlmBounceTypeOK
  <2>2. first' = first \/ (first = NoFile /\ first' = 0)  BY <1>2 DEF ReturnBounce
  <2>3. d' \subseteq d \union {0} /\ UNCHANGED <<warnings, w, probes>>
    BY <1>2 DEF ReturnBounce
  <2>4. /\ d \subseteq 0 .. 3 /\ w \subseteq 0 .. 3 /\ warnings \subseteq 0 .. 3
        /\ probes \subseteq 0 .. 3
    BY <1>1 DEF EzmlmBounceTypeOK
  <2>5. CASE first' = first /\ first # NoFile
    <3>1. first \in 0 .. 3  BY <1>1, <2>5 DEF EzmlmBounceTypeOK
    <3>2. Since(0, d)'  BY <1>1, <2>3, <2>4, <2>5, <3>1 DEF Since
    <3>3. Since(1, warnings)' /\ Since(1, w)' /\ Since(2, probes)'
      BY <1>1, <2>3, <2>5 DEF Since
    <3>. QED  BY <2>1, <3>2, <3>3 DEF BounceInv
  <2>6. CASE first = NoFile /\ first' = 0
    <3>1. d = {} /\ warnings = {} /\ w = {} /\ probes = {}
      BY <1>1, <2>4, <2>6 DEF Since
    <3>. QED  BY <2>1, <2>3, <2>6, <3>1 DEF BounceInv, Since
  <2>. QED  BY <2>2, <2>5, <2>6, <1>2 DEF ReturnBounce
<1>3. CASE ReturnNumber
  BY <1>1, <1>3 DEF ReturnNumber, BounceInv, EzmlmBounceTypeOK, Since
<1>4. CASE ReturnWarning
  <2>1. EzmlmBounceTypeOK'
    <3>1. w' = w \union {0} /\ UNCHANGED <<sub, d, h, warnings, probes, busy, bounceDeaths, first>>
      BY <1>4 DEF ReturnWarning
    <3>2. w' \subseteq AgeOf  BY <1>1, <3>1 DEF EzmlmBounceTypeOK
    <3>. QED  BY <1>1, <3>1, <3>2 DEF EzmlmBounceTypeOK
  <2>2. first = TooOld \/ first >= 1
    <3>1. PICK age \in warnings : age # TooOld  BY <1>4 DEF ReturnWarning
    <3>2. age \in 0 .. 3 /\ first \in -1 .. 3 /\ (first = 3 \/ first >= age + 1)
      BY <1>1, <3>1 DEF EzmlmBounceTypeOK, Since
    <3>. QED  BY <3>2
  <2>. QED  BY <1>1, <1>4, <2>1, <2>2 DEF ReturnWarning, BounceInv, Since
<1>5. CASE ReturnProbe
  BY <1>1, <1>5 DEF ReturnProbe, BounceInv, EzmlmBounceTypeOK, Since
<1>. QED  BY <1>2, <1>3, <1>4, <1>5 DEF Return

LEMMA WarnSafe ==
  ASSUME BounceInv, Warn
  PROVE  BounceInv'
<1>1. EzmlmBounceTypeOK /\ Since(0, d) /\ Since(1, warnings) /\ Since(1, w) /\ Since(2, probes)
  BY DEF BounceInv
<1>. USE DEF TooOld, NoFile, AgeOf
<1>2. CASE WarnRemove \/ WarnNot \/ WarnUnlinkNumbers \/ WarnUnlink
  <2>1. /\ d' \subseteq d /\ w' \subseteq w /\ (h' = h \/ h' = NoFile)
        /\ busy' = busy \/ busy' = <<"free">>
        /\ UNCHANGED <<sub, warnings, probes, bounceDeaths, first>>
    BY <1>2 DEF WarnRemove, WarnNot, WarnUnlinkNumbers, WarnUnlink
  <2>2. EzmlmBounceTypeOK'  BY <1>1, <2>1 DEF EzmlmBounceTypeOK
  <2>. QED  BY <1>1, <2>1, <2>2 DEF BounceInv, Since
<1>3. CASE WarnSend
  <2>1. CASE \E age \in d : /\ Due(age) /\ busy' = <<"d", age>>
                            /\ warnings' = warnings \union {0} /\ UNCHANGED probes
    <3>1. PICK age \in d : /\ Due(age) /\ busy' = <<"d", age>>
                           /\ warnings' = warnings \union {0} /\ UNCHANGED probes
      BY <2>1
    <3>2. age \in {1, 2}  BY <3>1 DEF Due
    <3>3. first = TooOld \/ first >= 1  BY <1>1, <3>2 DEF Since, EzmlmBounceTypeOK
    <3>4. EzmlmBounceTypeOK'
      BY <1>1, <1>3, <3>1, <3>2 DEF WarnSend, EzmlmBounceTypeOK
    <3>. QED  BY <1>1, <1>3, <3>1, <3>3, <3>4 DEF WarnSend, BounceInv, Since
  <2>2. CASE \E age \in w : /\ Due(age) /\ busy' = <<"w", age>>
                            /\ probes' = probes \union {0} /\ UNCHANGED warnings
    <3>1. PICK age \in w : /\ Due(age) /\ busy' = <<"w", age>>
                           /\ probes' = probes \union {0} /\ UNCHANGED warnings
      BY <2>2
    <3>2. age \in {1, 2}  BY <3>1 DEF Due
    <3>3. first = TooOld \/ first >= 2  BY <1>1, <3>2 DEF Since, EzmlmBounceTypeOK
    <3>4. EzmlmBounceTypeOK'
      BY <1>1, <1>3, <3>1, <3>2 DEF WarnSend, EzmlmBounceTypeOK
    <3>. QED  BY <1>1, <1>3, <3>1, <3>3, <3>4 DEF WarnSend, BounceInv, Since
  <2>. QED  BY <1>3, <2>1, <2>2 DEF WarnSend
<1>. QED  BY <1>2, <1>3 DEF Warn

\* All grows older together, up to what stands for three units and more.
LEMMA OlderTogether ==
  ASSUME NEW n \in 0 .. 2, NEW S \in SUBSET AgeOf, first \in AgeOf \union {NoFile},
         Since(n, S), first' = Older(first)
  PROVE  \A age \in {Older(a) : a \in S} : age \in AgeOf /\ (first' = TooOld \/ first' >= age + n)
<1>1. ASSUME NEW a \in S
      PROVE  Older(a) \in AgeOf /\ (first' = TooOld \/ first' >= Older(a) + n)
  <2>1. a \in 0 .. 3 /\ first \in -1 .. 3 /\ (first = 3 \/ first >= a + n)
    BY DEF Since, AgeOf, TooOld, NoFile
  <2>. QED  BY <2>1 DEF Older, AgeOf, TooOld, NoFile
<1>. QED  BY <1>1

LEMMA DayPassesSafe ==
  ASSUME BounceInv, DayPasses
  PROVE  BounceInv'
<1>1. EzmlmBounceTypeOK /\ Since(0, d) /\ Since(1, warnings) /\ Since(1, w) /\ Since(2, probes)
  BY DEF BounceInv
<1>2. /\ d' = {Older(age) : age \in d} /\ w' = {Older(age) : age \in w}
      /\ h' = Older(h) /\ first' = Older(first)
      /\ warnings' = {Older(age) : age \in warnings}
      /\ probes' = {Older(age) : age \in probes}
      /\ UNCHANGED <<sub, busy, bounceDeaths>>
  BY DEF DayPasses
<1>3. /\ d \subseteq AgeOf /\ w \subseteq AgeOf /\ warnings \subseteq AgeOf
      /\ probes \subseteq AgeOf /\ first \in AgeOf \union {NoFile} /\ h \in AgeOf \union {NoFile}
  BY <1>1 DEF EzmlmBounceTypeOK
<1>4. \A age \in d' : age \in AgeOf /\ (first' = TooOld \/ first' >= age + 0)
  BY <1>1, <1>2, <1>3, OlderTogether
<1>5. \A age \in warnings' : age \in AgeOf /\ (first' = TooOld \/ first' >= age + 1)
  BY <1>1, <1>2, <1>3, OlderTogether
<1>6. \A age \in w' : age \in AgeOf /\ (first' = TooOld \/ first' >= age + 1)
  BY <1>1, <1>2, <1>3, OlderTogether
<1>7. \A age \in probes' : age \in AgeOf /\ (first' = TooOld \/ first' >= age + 2)
  BY <1>1, <1>2, <1>3, OlderTogether
<1>8. h' \in AgeOf \union {NoFile} /\ first' \in AgeOf \union {NoFile}
  BY <1>2, <1>3 DEF Older, AgeOf, TooOld, NoFile
<1>9. EzmlmBounceTypeOK'
  BY <1>1, <1>2, <1>4, <1>5, <1>6, <1>7, <1>8 DEF EzmlmBounceTypeOK
<1>. QED  BY <1>4, <1>5, <1>6, <1>7, <1>9 DEF BounceInv, Since, TooOld

\* ezmlm-return and ezmlm-warn: a probe goes out twenty days after the first
\* bounce at the earliest.
THEOREM TwentyDaysHolds == EzmlmBounceSpec => []TwentyDays
<1>1. EzmlmBounceInit => BounceInv
  BY BounceInitInv
<1>2. BounceInv /\ [EzmlmBounceNext]_ebVars => BounceInv'
  <2>. SUFFICES ASSUME BounceInv, [EzmlmBounceNext]_ebVars PROVE BounceInv'
    OBVIOUS
  <2>1. CASE Return  BY <2>1, ReturnSafe
  <2>2. CASE Warn  BY <2>2, WarnSafe
  <2>3. CASE BounceDies \/ Subscribe
    <3>1. /\ UNCHANGED <<d, w, h, warnings, probes, first>> /\ sub' \in BOOLEAN
          /\ busy' = busy \/ busy' = <<"free">>
          /\ bounceDeaths' \in 0 .. MaxBounceDeath
      <4>1. /\ sub \in BOOLEAN /\ bounceDeaths \in 0 .. MaxBounceDeath
        BY DEF BounceInv, EzmlmBounceTypeOK
      <4>2. CASE BounceDies  BY <4>1, <4>2, EzmlmBounceAssumption DEF BounceDies
      <4>3. CASE Subscribe  BY <4>1, <4>3 DEF Subscribe
      <4>. QED  BY <2>3, <4>2, <4>3
    <3>. QED  BY <3>1 DEF BounceInv, EzmlmBounceTypeOK, Since
  <2>4. CASE DayPasses  BY <2>4, DayPassesSafe
  <2>5. CASE UNCHANGED ebVars
    BY <2>5 DEF ebVars, BounceInv, EzmlmBounceTypeOK, Since
  <2>. QED  BY <2>1, <2>2, <2>3, <2>4, <2>5 DEF EzmlmBounceNext
<1>3. BounceInv => TwentyDays
  BY DEF BounceInv, Since, TwentyDays
<1>. QED  BY <1>1, <1>2, <1>3, PTL DEF EzmlmBounceSpec

-----------------------------------------------------------------------------
Procs == Store \union Click \union {Cleaner}
Idle == {"start", "refused", "stored", "end"}
Steps == Idle \union {"copying", "synced", "mailing", "look", "accepting", "rejecting", "stub",
                      "unlink", "cleaning", "noticed"}
Told == Act \union {"none", "later", "failed", "timeout"}
Fates == Act \union {"timeout"}
Ask == [base : Base \union {CHOOSE b \in Base : TRUE}, act : Act]

ModerateTypeOK ==
  /\ pending \in [Base -> {"none", "partly", "synced", "exec"}]
  /\ stubs \in [Base -> SUBSET Act] /\ overdue \subseteq Base /\ returning \in BOOLEAN
  /\ doing \in [Procs -> Steps] /\ postOf \in [Base -> Store \union {Nobody}]
  /\ ask \in [Click -> Ask] /\ seen \subseteq Base /\ offered \subseteq Base
  /\ fate \in [Base -> [Fates -> Nat]] /\ told \in [Click -> Told]
  /\ orphan \subseteq offered /\ modFaults \in Nat

\* Who is in the middle of something holds mod/lock.
Busy(p) == doing[p] \notin Idle
OneBusy ==
  /\ \A p \in Procs : Busy(p) => modLock = p
  /\ orphan # {} => modLock = "ezmlm-send"

\* Names are given out in order; a name that is not yet given out has nothing.
Names == \A b \in Base :
  /\ postOf[b] = Nobody => /\ pending[b] = "none" /\ b \notin offered
                           /\ \A a \in Fates : fate[b][a] = 0
  /\ postOf[b] # Nobody => \A c \in Base : c < b => postOf[c] # Nobody

\* ezmlm-store: the file of this run is not offered before it is whole.
Own(s, b) == postOf[b] = s /\ \A c \in Base : postOf[c] = s => c <= b
StoreOK(s) == \A b \in Base : Own(s, b) =>
  /\ doing[s] \in {"copying", "synced"} => b \notin offered /\ pending[b] # "none"
  /\ doing[s] = "mailing" => pending[b] = "exec"

\* ezmlm-moderate: what it knows of the post it was asked about.
ClickOK(c) ==
  /\ Busy(c) => ask[c].base \in offered
  /\ doing[c] \in {"accepting", "rejecting"} => pending[ask[c].base] # "none"
  /\ doing[c] \in {"stub", "unlink"} => fate[ask[c].base][ask[c].act] > 0
  /\ doing[c] = "unlink" => ask[c].act \in stubs[ask[c].base] \/ modFaults > 0
  /\ told[c] \in Act => ask[c].base \in Base /\ fate[ask[c].base][told[c]] > 0
  /\ told[c] = "timeout" => ask[c].base \in overdue \/ modFaults > 0

\* ezmlm-clean: of the files it has passed, all are gone but the one whose
\* author has just been told.
CleanOK ==
  /\ doing[Cleaner] = "cleaning" => \A b \in seen : pending[b] = "none"
  /\ doing[Cleaner] = "noticed" => \A b \in seen : pending[b] # "none" =>
       /\ fate[b]["timeout"] > 0 /\ b \in overdue
       /\ \A c \in seen : pending[c] # "none" => c = b

\* A stub tells what was done, and what is neither pending nor has a stub timed
\* out.
StubsOK == \A b \in Base :
  /\ \A a \in stubs[b] : fate[b][a] > 0
  /\ b \in offered /\ pending[b] = "none" /\ stubs[b] = {} => b \in overdue \/ modFaults > 0

\* What a name may still get without a failure: an answer while its file is
\* there and nobody is about to remove it, and one from an orphan.
Claimed(b) ==
  \/ \E c \in Click : ask[c].base = b /\ doing[c] \in {"stub", "unlink"}
  \/ doing[Cleaner] = "noticed" /\ b \in seen
Left(b) == IF pending[b] # "none" /\ ~Claimed(b) THEN 1 ELSE 0
Orphaned(b) == IF b \in orphan THEN 1 ELSE 0
Weight(b) == Total(b) + Left(b) + Orphaned(b)

\* A post whose ezmlm-store is to be run again gets another name.
Again(s) == IF doing[s] = "start" THEN 1 ELSE 0
Bounded == \A b, c \in Base : postOf[b] = postOf[c] /\ postOf[b] # Nobody =>
  IF b = c THEN Weight(b) + Again(postOf[b]) <= 1 + modFaults
           ELSE Weight(b) + Weight(c) + Again(postOf[b]) <= 1 + modFaults

ModerateInv ==
  /\ ModerateTypeOK /\ OneBusy /\ Names /\ (\A s \in Store : StoreOK(s))
  /\ (\A c \in Click : ClickOK(c)) /\ CleanOK /\ StubsOK /\ PostKept /\ Bounded

LEMMA ModerateInitInv == ASSUME ModerateInit PROVE ModerateInv
<1>. USE ModerateAssumption DEF ModerateInit, Nobody
<1>1. ModerateTypeOK
  <2>1. fate \in [Base -> [Fates -> Nat]]  BY DEF Fates
  <2>2. ask \in [Click -> Ask]  BY DEF Ask, Act
  <2>. QED  BY <2>1, <2>2 DEF ModerateTypeOK, Procs, Steps, Idle, Told
<1>2. OneBusy  BY DEF OneBusy, Busy, Procs, Idle
<1>3. Names  BY DEF Names, Fates
<1>4. /\ \A s \in Store : StoreOK(s)
      /\ \A c \in Click : ClickOK(c)
  BY DEF StoreOK, ClickOK, Own, Busy, Idle, Act
<1>5. CleanOK /\ StubsOK /\ PostKept  BY DEF CleanOK, StubsOK, PostKept
<1>6. Bounded  BY DEF Bounded
<1>. QED  BY <1>1, <1>2, <1>3, <1>4, <1>5, <1>6 DEF ModerateInv

\* A step of one process: it may take or hold the lock, so that it is alone,
\* and has to keep it if it stays in the middle of something.
LEMMA Alone ==
  ASSUME ModerateTypeOK, OneBusy, NEW p \in Procs, NEW x \in Steps, modLock \in {"none", p},
         doing' = [doing EXCEPT ![p] = x], x \in Idle \/ modLock' = p, orphan' = orphan
  PROVE  /\ OneBusy' /\ orphan = {} /\ doing' \in [Procs -> Steps] /\ doing'[p] = x
         /\ \A q \in Procs : q # p => doing[q] \in Idle /\ doing'[q] = doing[q]
<1>1. "none" \notin Procs /\ "ezmlm-send" \notin Procs  BY ModerateAssumption DEF Procs
<1>2. doing \in [Procs -> Steps]  BY DEF ModerateTypeOK
<1>3. doing' \in [Procs -> Steps] /\ doing'[p] = x  BY <1>2
<1>4. \A q \in Procs : q # p => doing[q] \in Idle /\ doing'[q] = doing[q]
  BY <1>1, <1>2 DEF OneBusy, Busy
<1>5. orphan = {}  BY <1>1 DEF OneBusy
<1>6. OneBusy'  BY <1>3, <1>4, <1>5 DEF OneBusy, Busy
<1>. QED  BY <1>3, <1>4, <1>5, <1>6

\* What the idle ones know stays true while only counts grow.
LEMMA StillOK ==
  ASSUME ModerateTypeOK, ModerateTypeOK', overdue \subseteq overdue', modFaults <= modFaults',
         \A b \in Base : \A a \in Fates : fate[b][a] <= fate'[b][a]
  PROVE  /\ \A s \in Store : doing'[s] \in Idle => StoreOK(s)'
         /\ \A c \in Click : ClickOK(c) /\ doing'[c] \in Idle /\ ask'[c] = ask[c] /\ told'[c] = told[c]
              => ClickOK(c)'
         /\ doing'[Cleaner] \in Idle => CleanOK'
<1>1. \A s \in Store : doing'[s] \in Idle => StoreOK(s)'  BY DEF StoreOK, Idle
<1>2. doing'[Cleaner] \in Idle => CleanOK'  BY DEF CleanOK, Idle
<1>3. ASSUME NEW c \in Click, ClickOK(c), doing'[c] \in Idle, ask'[c] = ask[c], told'[c] = told[c]
      PROVE  ClickOK(c)'
  <2>1. modFaults \in Nat /\ modFaults' \in Nat  BY DEF ModerateTypeOK
  <2>2. told'[c] \in Act => ask'[c].base \in Base /\ fate'[ask'[c].base][told'[c]] > 0
    <3>1. SUFFICES ASSUME told[c] \in Act
                   PROVE  ask[c].base \in Base /\ fate'[ask[c].base][told[c]] > 0
      BY <1>3
    <3>2. ask[c].base \in Base /\ fate[ask[c].base][told[c]] > 0  BY <1>3, <3>1 DEF ClickOK
    <3>3. told[c] \in Fates  BY <3>1 DEF Fates
    <3>4. fate[ask[c].base][told[c]] \in Nat /\ fate'[ask[c].base][told[c]] \in Nat
      BY <3>2, <3>3 DEF ModerateTypeOK
    <3>. QED  BY <3>2, <3>3, <3>4
  <2>3. told'[c] = "timeout" => ask'[c].base \in overdue' \/ modFaults' > 0
    BY <1>3, <2>1 DEF ClickOK
  <2>. QED  BY <1>3, <2>2, <2>3 DEF ClickOK, Idle, Busy
<1>. QED  BY <1>1, <1>2, <1>3

LEMMA WeightNat ==
  ASSUME ModerateTypeOK, NEW b \in Base
  PROVE  /\ Total(b) \in Nat /\ Left(b) \in {0, 1} /\ Orphaned(b) \in {0, 1}
         /\ Weight(b) = Total(b) + Left(b) + Orphaned(b)
         /\ \A a \in Fates : fate[b][a] \in Nat /\ fate[b][a] <= Total(b)
<1>1. /\ fate[b]["accept"] \in Nat /\ fate[b]["reject"] \in Nat /\ fate[b]["timeout"] \in Nat
  BY DEF ModerateTypeOK, Fates, Act
<1>. QED  BY <1>1 DEF Total, Left, Orphaned, Weight, Fates, Act

LEMMA BoundedStays ==
  ASSUME ModerateTypeOK, ModerateTypeOK', Bounded, postOf' = postOf, modFaults <= modFaults', NEW z,
         \A b \in Base : Weight(b)' <= Weight(b) + (IF b = z THEN modFaults' - modFaults ELSE 0),
         \A s \in Store : doing'[s] = "start" => doing[s] = "start"
  PROVE  Bounded'
<1>1. modFaults \in Nat /\ modFaults' \in Nat  BY DEF ModerateTypeOK
<1>2. \A b \in Base : Weight(b) \in Nat /\ Weight(b)' \in Nat
  <2>1. \A b \in Base : Weight(b) \in Nat  BY WeightNat
  <2>2. \A b \in Base : Weight(b)' \in Nat
    <3>1. TAKE b \in Base
    <3>2. /\ fate'[b]["accept"] \in Nat /\ fate'[b]["reject"] \in Nat
          /\ fate'[b]["timeout"] \in Nat
      BY DEF ModerateTypeOK, Fates, Act
    <3>. QED  BY <3>2 DEF Total, Left, Orphaned, Weight
  <2>. QED  BY <2>1, <2>2
<1>3. \A s \in Store : Again(s) \in {0, 1} /\ Again(s)' \in {0, 1} /\ Again(s)' <= Again(s)
  BY DEF Again
<1>. DEFINE W(b) == Weight(b)   V(b) == Weight(b)'   A(s) == Again(s)   B(s) == Again(s)'
<1>4. ASSUME NEW b \in Base, NEW c \in Base, postOf[b] = postOf[c], postOf[b] # Nobody
      PROVE  IF b = c THEN V(b) + B(postOf[b]) <= 1 + modFaults'
                      ELSE V(b) + V(c) + B(postOf[b]) <= 1 + modFaults'
  <2>1. postOf[b] \in Store  BY <1>4 DEF ModerateTypeOK
  <2>2. IF b = c THEN W(b) + A(postOf[b]) <= 1 + modFaults
                 ELSE W(b) + W(c) + A(postOf[b]) <= 1 + modFaults
    BY <1>4 DEF Bounded
  <2>3. /\ W(b) \in Nat /\ W(c) \in Nat /\ V(b) \in Nat /\ V(c) \in Nat
        /\ V(b) <= W(b) + (IF b = z THEN modFaults' - modFaults ELSE 0)
        /\ V(c) <= W(c) + (IF c = z THEN modFaults' - modFaults ELSE 0)
        /\ A(postOf[b]) \in {0, 1} /\ B(postOf[b]) \in {0, 1} /\ B(postOf[b]) <= A(postOf[b])
    BY <1>2, <1>3, <2>1
  <2>. HIDE DEF W, V, A, B
  <2>. QED  BY <1>1, <2>2, <2>3
<1>. QED  BY <1>4 DEF Bounded

LEMMA BoundedLess ==
  ASSUME ModerateTypeOK, ModerateTypeOK', Bounded, postOf' = postOf, modFaults <= modFaults',
         \A b \in Base : Weight(b)' <= Weight(b),
         \A s \in Store : doing'[s] = "start" => doing[s] = "start"
  PROVE  Bounded'
<1>1. modFaults \in Nat /\ modFaults' \in Nat  BY DEF ModerateTypeOK
<1>2. ASSUME NEW b \in Base PROVE Weight(b)' <= Weight(b) + (IF b = 0 THEN modFaults' - modFaults ELSE 0)
  <2>1. Weight(b) \in Nat  BY WeightNat DEF Weight
  <2>2. Weight(b)' \in Nat
    <3>1. /\ fate'[b]["accept"] \in Nat /\ fate'[b]["reject"] \in Nat
          /\ fate'[b]["timeout"] \in Nat
      BY DEF ModerateTypeOK, Fates, Act
    <3>. QED  BY <3>1 DEF Total, Left, Orphaned, Weight
  <2>3. Weight(b)' <= Weight(b)  OBVIOUS
  <2>. QED  BY <1>1, <2>1, <2>2, <2>3
<1>. QED  BY <1>2, BoundedStays

\* A step of an ezmlm-store disturbs nothing of the other programs.
LEMMA StoreStep ==
  ASSUME ModerateInv, ModerateTypeOK', NEW s \in Store, NEW x \in Steps, modLock \in {"none", s},
         doing' = [doing EXCEPT ![s] = x], x \in Idle \/ modLock' = s,
         UNCHANGED <<orphan, stubs, answers, fixed, fate>>, modFaults <= modFaults'
  PROVE  /\ OneBusy' /\ doing'[s] = x
         /\ \A q \in Store : q # s => StoreOK(q)' /\ doing'[q] = doing[q]
         /\ \A c \in Click : ClickOK(c)'
         /\ CleanOK'
         /\ \A b \in Base : ~Claimed(b) /\ ~Claimed(b)' /\ b \notin orphan /\ b \notin orphan'
         /\ \A b \in Base : Total(b)' = Total(b)
<1>1. /\ s \in Procs /\ Cleaner \in Procs /\ Store \subseteq Procs /\ Click \subseteq Procs
      /\ Cleaner # s /\ s \notin Click
  BY ModerateAssumption DEF Procs
<1>2. ModerateTypeOK /\ OneBusy  BY DEF ModerateInv
<1>3. /\ OneBusy' /\ orphan = {} /\ doing'[s] = x
      /\ \A q \in Procs : q # s => doing[q] \in Idle /\ doing'[q] = doing[q]
  BY <1>1, <1>2, Alone
<1>4. /\ \A q \in Store : doing'[q] \in Idle => StoreOK(q)'
      /\ \A c \in Click : ClickOK(c) /\ doing'[c] \in Idle /\ ask'[c] = ask[c] /\ told'[c] = told[c]
           => ClickOK(c)'
      /\ doing'[Cleaner] \in Idle => CleanOK'
  <2>1. overdue \subseteq overdue'  BY DEF fixed
  <2>2. \A b \in Base : \A a \in Fates : fate[b][a] <= fate'[b][a]
    BY <1>2, WeightNat
  <2>. QED  BY <1>2, <2>1, <2>2, StillOK
<1>5. \A c \in Click : ClickOK(c)'
  BY <1>1, <1>3, <1>4 DEF ModerateInv, answers
<1>6. \A b \in Base : ~Claimed(b) /\ ~Claimed(b)' /\ b \notin orphan /\ b \notin orphan'
  BY <1>1, <1>3 DEF Claimed, Idle
<1>7. \A b \in Base : Total(b)' = Total(b)  BY DEF Total
<1>. QED  BY <1>1, <1>3, <1>4, <1>5, <1>6, <1>7

\* Without an open answer, what a name may still get is there if its file is.
LEMMA Unclaimed ==
  ASSUME ModerateTypeOK, ModerateTypeOK', NEW b \in Base, ~Claimed(b), ~Claimed(b)', b \notin orphan,
         b \notin orphan', Total(b)' = Total(b), pending'[b] # "none" => pending[b] # "none"
  PROVE  Weight(b)' <= Weight(b)
<1>1. Total(b) \in Nat  BY WeightNat
<1>. QED  BY <1>1 DEF Weight, Left, Orphaned

LEMMA StoreOpenSafe ==
  ASSUME ModerateInv, NEW s \in Store, NEW b \in Base, StoreOpen(s, b)
  PROVE  ModerateInv'
<1>1. /\ ModerateTypeOK /\ OneBusy /\ Names /\ StubsOK /\ PostKept /\ Bounded
      /\ \A c \in Click : ClickOK(c)
  BY DEF ModerateInv
<1>2. /\ doing[s] = "start" /\ doing' = [doing EXCEPT ![s] = "copying"]
      /\ modLock = "none" /\ modLock' = s /\ postOf[b] = Nobody
      /\ \A c \in Base : c < b => postOf[c] # Nobody
      /\ postOf' = [postOf EXCEPT ![b] = s] /\ pending' = [pending EXCEPT ![b] = "partly"]
      /\ UNCHANGED <<orphan, stubs, seen, modFaults, ask, told, overdue, returning, offered, fate>>
  BY DEF StoreOpen, Goes, TakeLock, answers, fixed, past
<1>3. s \in Procs /\ s # Nobody /\ "copying" \in Steps
  BY ModerateAssumption DEF Procs, Nobody, Steps
<1>4. ModerateTypeOK'  BY <1>1, <1>2, <1>3 DEF ModerateTypeOK
<1>5. /\ OneBusy' /\ doing'[s] = "copying" /\ \A c \in Click : ClickOK(c)'
      /\ \A q \in Store : q # s => StoreOK(q)' /\ doing'[q] = doing[q]
      /\ CleanOK'
      /\ \A e \in Base : ~Claimed(e) /\ ~Claimed(e)' /\ e \notin orphan /\ e \notin orphan'
      /\ \A e \in Base : Total(e)' = Total(e)
  <2>1. UNCHANGED <<orphan, stubs, answers, fixed, fate>> /\ modFaults <= modFaults'
    BY <1>1, <1>2 DEF answers, fixed, ModerateTypeOK
  <2>. QED  BY <1>2, <1>3, <1>4, <2>1, StoreStep
<1>6. /\ \A e \in Base : postOf'[e] = IF e = b THEN s ELSE postOf[e]
      /\ \A e \in Base : pending'[e] = IF e = b THEN "partly" ELSE pending[e]
  BY <1>1, <1>2 DEF ModerateTypeOK
<1>7. pending[b] = "none" /\ b \notin offered /\ \A a \in Fates : fate[b][a] = 0
  BY <1>1, <1>2 DEF Names
<1>8. Names'  BY <1>1, <1>2, <1>3, <1>6, <1>7 DEF Names
<1>9. StoreOK(s)'
  <2>1. \A e \in Base : postOf[e] # Nobody \/ e >= b
    BY <1>1, <1>2, ModerateAssumption
  <2>2. ASSUME NEW e \in Base, Own(s, e)' PROVE e = b
    <3>1. postOf'[e] = s /\ b <= e  BY <1>6, <2>2 DEF Own
    <3>2. CASE b < e  BY <1>1, <1>2, <1>3, <1>6, <3>1, <3>2 DEF Names
    <3>. QED  BY <3>1, <3>2, ModerateAssumption
  <2>. QED  BY <1>2, <1>5, <1>6, <1>7, <2>2 DEF StoreOK
<1>10. StubsOK'  BY <1>1, <1>2, <1>6, <1>7 DEF StubsOK
<1>11. PostKept'
  BY <1>1, <1>2, <1>5, <1>6, <1>7 DEF PostKept, ModerateTypeOK
<1>12. Bounded'
  <2>1. Total(b) = 0  BY <1>7 DEF Total, Fates, Act
  <2>2. Weight(b)' = 1  BY <1>5, <1>6, <2>1 DEF Weight, Left, Orphaned
  <2>3. \A e \in Base : e # b => Weight(e)' = Weight(e)
    BY <1>5, <1>6 DEF Weight, Left, Orphaned
  <2>4. \A e \in Base : Weight(e) \in Nat  BY <1>1, WeightNat
  <2>5. \A q \in Store : Again(q) \in {0, 1} /\ Again(q)' = IF q = s THEN 0 ELSE Again(q)
    BY <1>5 DEF Again
  <2>6. Again(s) = 1  BY <1>2 DEF Again
  <2>7. modFaults \in Nat /\ modFaults' = modFaults  BY <1>1, <1>2 DEF ModerateTypeOK
  <2>8. ASSUME NEW e \in Base, NEW f \in Base, postOf'[e] = postOf'[f], postOf'[e] # Nobody
        PROVE  IF e = f THEN Weight(e)' + Again(postOf[e])' <= 1 + modFaults'
                        ELSE Weight(e)' + Weight(f)' + Again(postOf[e])' <= 1 + modFaults'
    <3>. DEFINE W(g) == Weight(g)   V(g) == Weight(g)'   A(q) == Again(q)
                B(q) == IF doing'[q] = "start" THEN 1 ELSE 0
    <3>1. Again(postOf[e])' = B(postOf'[e])  BY DEF Again
    <3>2. CASE e # b /\ f # b
      <4>1. /\ postOf[e] = postOf[f] /\ postOf[e] # Nobody /\ postOf[e] \in Store
            /\ postOf'[e] = postOf[e]
        BY <1>1, <1>6, <2>8, <3>2 DEF ModerateTypeOK
      <4>2. IF e = f THEN W(e) + A(postOf[e]) <= 1 + modFaults
                     ELSE W(e) + W(f) + A(postOf[e]) <= 1 + modFaults
        BY <1>1, <4>1 DEF Bounded
      <4>3. W(e) \in Nat /\ W(f) \in Nat /\ V(e) = W(e) /\ V(f) = W(f)  BY <2>3, <2>4, <3>2
      <4>4. A(postOf[e]) \in {0, 1} /\ B(postOf[e]) \in {0, 1} /\ B(postOf[e]) <= A(postOf[e])
        BY <2>5, <4>1 DEF Again
      <4>. HIDE DEF W, V, A, B
      <4>5. IF e = f THEN V(e) + B(postOf'[e]) <= 1 + modFaults'
                     ELSE V(e) + V(f) + B(postOf'[e]) <= 1 + modFaults'
        BY <2>7, <4>1, <4>2, <4>3, <4>4
      <4>. QED  BY <3>1, <4>5 DEF W, V, A, B
    <3>3. ASSUME NEW g \in Base, g # b, postOf'[g] = s PROVE W(g) + 1 <= 1 + modFaults
      <4>1. postOf[g] = s  BY <1>6, <3>3
      <4>. QED  BY <1>1, <1>3, <2>6, <4>1 DEF Bounded
    <3>4. postOf'[b] = s /\ B(s) = 0 /\ V(b) = 1  BY <1>5, <1>6, <2>2
    <3>5. /\ W(e) \in Nat /\ W(f) \in Nat /\ (e # b => V(e) = W(e)) /\ (f # b => V(f) = W(f))
      BY <2>3, <2>4
    <3>6. CASE e = b \/ f = b
      <4>1. postOf'[e] = s /\ (e # b => W(e) + 1 <= 1 + modFaults) /\ (f # b => W(f) + 1 <= 1 + modFaults)
        BY <2>8, <3>3, <3>4, <3>6
      <4>. HIDE DEF W, V, A, B
      <4>2. IF e = f THEN V(e) + B(postOf'[e]) <= 1 + modFaults'
                     ELSE V(e) + V(f) + B(postOf'[e]) <= 1 + modFaults'
        BY <2>7, <3>4, <3>5, <3>6, <4>1
      <4>. QED  BY <3>1, <4>2 DEF W, V, A, B
    <3>. QED  BY <3>2, <3>6
  <2>. QED  BY <2>8 DEF Bounded
<1>. QED  BY <1>4, <1>5, <1>8, <1>9, <1>10, <1>11, <1>12 DEF ModerateInv

\* The other steps of ezmlm-store: its file becomes whole, or goes.
LEMMA StoreMoves ==
  ASSUME ModerateInv, NEW s \in Store, NEW b \in Base,
         StoreSync(s, b) \/ StoreRefuse(s, b) \/ StoreChmod(s, b) \/ StoreMail(s, b)
  PROVE  ModerateInv'
<1>1. /\ ModerateTypeOK /\ OneBusy /\ Names /\ StubsOK /\ PostKept /\ Bounded /\ StoreOK(s)
      /\ \A c \in Click : ClickOK(c)
  BY DEF ModerateInv
<1>. DEFINE x == doing'[s]
<1>2. /\ Mine(s, b) /\ Own(s, b)
      /\ UNCHANGED <<orphan, stubs, postOf, seen, modFaults, ask, told, overdue, returning, fate>>
  BY DEF StoreSync, StoreRefuse, StoreChmod, StoreMail, Mine, Own, answers, fixed, past, files
<1>3. s \in Procs /\ s # Nobody /\ s # "none" /\ doing[s] \in Steps
  BY <1>1, ModerateAssumption DEF Procs, Nobody, ModerateTypeOK
<1>4. /\ x \in Steps /\ x # "start" /\ doing' = [doing EXCEPT ![s] = x]
      /\ modLock = s /\ (x \in Idle \/ modLock' = s)
      /\ doing[s] \in {"copying", "synced", "mailing"}
  BY <1>1, <1>2, <1>3
  DEF StoreSync, StoreRefuse, StoreChmod, StoreMail, Goes, Mine, ModerateTypeOK, Steps, Idle
<1>5. /\ pending'[b] \in {"none", "synced", "exec"} \/ pending' = pending
      /\ \A e \in Base : e # b => pending'[e] = pending[e]
      /\ pending' \in [Base -> {"none", "partly", "synced", "exec"}]
      /\ offered' = offered \/ offered' = offered \union {b}
  BY <1>1 DEF StoreSync, StoreRefuse, StoreChmod, StoreMail, past, files, ModerateTypeOK
<1>6. ModerateTypeOK'
  <2>1. doing' \in [Procs -> Steps]  BY <1>1, <1>3, <1>4 DEF ModerateTypeOK
  <2>. QED  BY <1>1, <1>2, <1>5, <2>1 DEF ModerateTypeOK
<1>7. /\ OneBusy' /\ \A c \in Click : ClickOK(c)'
      /\ \A q \in Store : q # s => StoreOK(q)' /\ doing'[q] = doing[q]
      /\ CleanOK'
      /\ \A e \in Base : ~Claimed(e) /\ ~Claimed(e)' /\ e \notin orphan /\ e \notin orphan'
      /\ \A e \in Base : Total(e)' = Total(e)
  <2>1. UNCHANGED <<orphan, stubs, answers, fixed, fate>> /\ modFaults <= modFaults'
    BY <1>1, <1>2 DEF answers, fixed, ModerateTypeOK
  <2>. HIDE DEF x
  <2>. QED  BY <1>3, <1>4, <1>6, <2>1, StoreStep
<1>8. postOf[b] = s /\ \A e \in Base : Own(s, e) => e = b
  BY <1>2, ModerateAssumption DEF Own
<1>9. Names'  BY <1>1, <1>2, <1>3, <1>5, <1>8 DEF Names
\* What is offered is whole; what goes was not offered.
<1>10. \/ b \notin offered /\ offered' = offered
       \/ pending' = pending /\ offered' = offered \union {b} /\ pending[b] = "exec"
  <2>1. /\ doing[s] \in {"copying", "synced"} => b \notin offered /\ pending[b] # "none"
        /\ doing[s] = "mailing" => pending[b] = "exec"
    BY <1>1, <1>2 DEF StoreOK
  <2>. HIDE DEF x
  <2>. QED  BY <2>1 DEF StoreSync, StoreRefuse, StoreChmod, StoreMail, Goes, past, files
<1>11. StoreOK(s)'
  <2>1. \A e \in Base : Own(s, e)' => e = b  BY <1>2, <1>8 DEF Own
  <2>2. CASE doing'[s] \in {"copying", "synced"}
    <3>1. offered' = offered /\ b \notin offered /\ pending'[b] # "none"
      BY <1>1, <1>2, <2>2 DEF StoreSync, StoreRefuse, StoreChmod, StoreMail, Goes, past, StoreOK,
         ModerateTypeOK, Procs
    <3>. QED  BY <2>1, <2>2, <3>1 DEF StoreOK
  <2>3. CASE doing'[s] = "mailing"
    <3>1. pending'[b] = "exec"
      BY <1>1, <1>2, <2>3 DEF StoreSync, StoreRefuse, StoreChmod, StoreMail, Goes, 
         ModerateTypeOK, Procs
    <3>. QED  BY <2>1, <2>3, <3>1 DEF StoreOK
  <2>4. CASE doing'[s] \notin {"copying", "synced", "mailing"}  BY <2>4 DEF StoreOK
  <2>. QED  BY <2>2, <2>3, <2>4
<1>12. StubsOK'
  BY <1>1, <1>2, <1>5, <1>8, <1>10 DEF StubsOK
<1>13. PostKept'
  BY <1>1, <1>2, <1>5, <1>7, <1>10 DEF PostKept, ModerateTypeOK
<1>14. Bounded'
  <2>1. pending[b] # "none"  BY <1>1, <1>2, <1>4 DEF StoreOK
  <2>2. \A e \in Base : Weight(e)' <= Weight(e)
    BY <1>1, <1>5, <1>6, <1>7, <2>1, Unclaimed
  <2>3. \A q \in Store : doing'[q] = "start" => doing[q] = "start"
    BY <1>4, <1>7
  <2>4. modFaults <= modFaults'  BY <1>1, <1>2 DEF ModerateTypeOK
  <2>. HIDE DEF x
  <2>. QED  BY <1>1, <1>2, <1>6, <2>2, <2>3, <2>4, BoundedLess
<1>. QED  BY <1>6, <1>7, <1>9, <1>11, <1>12, <1>13, <1>14 DEF ModerateInv

\* A step of an ezmlm-moderate, or of ezmlm-clean, disturbs nothing of the
\* others, who are idle.
LEMMA ClickStep ==
  ASSUME ModerateInv, ModerateTypeOK', NEW p \in Click \union {Cleaner}, NEW x \in Steps,
         modLock \in {"none", p}, doing' = [doing EXCEPT ![p] = x], x \in Idle \/ modLock' = p,
         orphan' = orphan, overdue' = overdue, modFaults <= modFaults',
         \A c \in Click : c # p => ask'[c] = ask[c] /\ told'[c] = told[c],
         \A b \in Base : \A a \in Fates : fate[b][a] <= fate'[b][a]
  PROVE  /\ OneBusy' /\ orphan = {} /\ doing'[p] = x
         /\ \A s \in Store : StoreOK(s)' /\ doing'[s] = doing[s]
         /\ \A c \in Click : c # p => ClickOK(c)'
         /\ p # Cleaner => CleanOK'
         /\ \A q \in Procs : q # p => doing[q] \in Idle /\ doing'[q] \in Idle
<1>1. /\ p \in Procs /\ Cleaner \in Procs /\ Store \subseteq Procs /\ Click \subseteq Procs
      /\ p \notin Store
  BY ModerateAssumption DEF Procs
<1>2. ModerateTypeOK /\ OneBusy /\ \A c \in Click : ClickOK(c)  BY DEF ModerateInv
<1>3. /\ OneBusy' /\ orphan = {} /\ doing'[p] = x
      /\ \A q \in Procs : q # p => doing[q] \in Idle /\ doing'[q] = doing[q]
  BY <1>1, <1>2, Alone
<1>4. /\ \A q \in Store : doing'[q] \in Idle => StoreOK(q)'
      /\ \A c \in Click : ClickOK(c) /\ doing'[c] \in Idle /\ ask'[c] = ask[c] /\ told'[c] = told[c]
           => ClickOK(c)'
      /\ doing'[Cleaner] \in Idle => CleanOK'
  BY <1>2, StillOK
<1>5. \A s \in Store : StoreOK(s)' /\ doing'[s] = doing[s]  BY <1>1, <1>3, <1>4
<1>6. \A c \in Click : c # p => ClickOK(c)'  BY <1>1, <1>2, <1>3, <1>4
<1>7. p # Cleaner => CleanOK'  BY <1>1, <1>3, <1>4
<1>. QED  BY <1>3, <1>5, <1>6, <1>7

\* The same fates: only who claims the file and whether it is there matter.
LEMMA WeightOf ==
  ASSUME ModerateTypeOK, NEW b \in Base, fate'[b] = fate[b], orphan = {}, orphan' = {}
  PROVE  /\ Total(b)' = Total(b) /\ Total(b) \in Nat
         /\ Weight(b) = Total(b) + Left(b) /\ Weight(b)' = Total(b) + Left(b)'
         /\ Left(b) \in {0, 1} /\ Left(b)' \in {0, 1}
<1>1. Total(b) \in Nat  BY WeightNat
<1>2. Left(b) \in {0, 1} /\ Left(b)' \in {0, 1}  BY DEF Left
<1>3. Total(b)' = Total(b)  BY DEF Total
<1>4. Orphaned(b) = 0 /\ Orphaned(b)' = 0  BY DEF Orphaned
<1>. QED  BY <1>1, <1>2, <1>3, <1>4 DEF Weight

LEMMA ClickLockSafe ==
  ASSUME ModerateInv, NEW c \in Click, NEW b \in Base, NEW a \in Act, ClickLock(c, b, a)
  PROVE  ModerateInv'
<1>1. /\ ModerateTypeOK /\ OneBusy /\ Names /\ StubsOK /\ PostKept /\ Bounded
  BY DEF ModerateInv
<1>2. /\ doing[c] = "start" /\ doing' = [doing EXCEPT ![c] = "look"]
      /\ modLock = "none" /\ modLock' = c /\ b \in offered
      /\ ask' = [ask EXCEPT ![c] = [base |-> b, act |-> a]]
      /\ told' = [told EXCEPT ![c] = "later"]
      /\ UNCHANGED <<orphan, seen, modFaults, pending, stubs, postOf, overdue, returning, offered, fate>>
  BY DEF ClickLock, Goes, TakeLock, files, fixed, past
<1>3. c \in Procs /\ Cleaner \in Procs /\ "look" \in Steps /\ c # Cleaner
  BY ModerateAssumption DEF Procs, Steps
<1>4. ModerateTypeOK'
  <2>1. [base |-> b, act |-> a] \in Ask  BY DEF Ask
  <2>2. ask' \in [Click -> Ask]  BY <1>1, <1>2, <2>1 DEF ModerateTypeOK
  <2>3. told' \in [Click -> Told]  BY <1>1, <1>2 DEF ModerateTypeOK, Told
  <2>4. doing' \in [Procs -> Steps]  BY <1>1, <1>2, <1>3 DEF ModerateTypeOK
  <2>. QED  BY <1>1, <1>2, <2>2, <2>3, <2>4 DEF ModerateTypeOK
<1>5. /\ OneBusy' /\ orphan = {} /\ doing'[c] = "look"
      /\ \A s \in Store : StoreOK(s)' /\ doing'[s] = doing[s]
      /\ \A q \in Click : q # c => ClickOK(q)'
      /\ CleanOK'
      /\ \A q \in Procs : q # c => doing[q] \in Idle /\ doing'[q] \in Idle
  <2>1. \A q \in Click : q # c => ask'[q] = ask[q] /\ told'[q] = told[q]
    BY <1>1, <1>2 DEF ModerateTypeOK
  <2>2. modFaults <= modFaults' /\ \A e \in Base : \A f \in Fates : fate[e][f] <= fate'[e][f]
    BY <1>1, <1>2, WeightNat DEF ModerateTypeOK
  <2>. QED  BY <1>2, <1>3, <1>4, <2>1, <2>2, ClickStep
<1>6. ClickOK(c)'
  <2>1. ask'[c].base = b /\ told'[c] = "later"  BY <1>1, <1>2 DEF ModerateTypeOK
  <2>. QED  BY <1>2, <1>5, <2>1 DEF ClickOK, Act
<1>7. Names' /\ StubsOK' /\ PostKept'  BY <1>1, <1>2 DEF Names, StubsOK, PostKept, Total
<1>8. Bounded'
  <2>1. \A e \in Base : ~Claimed(e) /\ ~Claimed(e)'
    BY <1>2, <1>3, <1>5 DEF Claimed, Idle, Procs
  <2>2. \A e \in Base : Weight(e)' <= Weight(e)
    BY <1>1, <1>2, <1>4, <1>5, <2>1, Unclaimed DEF Total
  <2>3. modFaults <= modFaults'  BY <1>1, <1>2 DEF ModerateTypeOK
  <2>. QED  BY <1>1, <1>2, <1>4, <1>5, <2>2, <2>3, BoundedLess
<1>. QED  BY <1>4, <1>5, <1>6, <1>7, <1>8 DEF ModerateInv

LEMMA ClickLookSafe ==
  ASSUME ModerateInv, NEW c \in Click, ClickLook(c)
  PROVE  ModerateInv'
<1>. DEFINE b == ask[c].base   x == doing'[c]
<1>1. /\ ModerateTypeOK /\ OneBusy /\ Names /\ StubsOK /\ PostKept /\ Bounded /\ ClickOK(c)
  BY DEF ModerateInv
<1>2. /\ modLock = c /\ doing[c] = "look"
      /\ UNCHANGED <<orphan, ask, seen, modFaults, pending, stubs, postOf, overdue, returning, offered,
                     fate>>
  BY DEF ClickLook, files, fixed, past
<1>3. c \in Procs /\ Cleaner \in Procs /\ c # Cleaner
  BY ModerateAssumption DEF Procs
<1>4. b \in offered /\ b \in Base  BY <1>1, <1>2 DEF ClickOK, Busy, Idle, ModerateTypeOK
<1>5. \/ /\ pending[b] # "none" /\ modLock' = c /\ told' = told
         /\ x \in {"accepting", "rejecting"} /\ doing' = [doing EXCEPT ![c] = x]
      \/ /\ pending[b] = "none" /\ x = "end" /\ doing' = [doing EXCEPT ![c] = x]
         /\ modLock' = "none" /\ told' = [told EXCEPT ![c] = Outcome(b)]
         /\ Outcome(b) \in {"accept", "reject", "timeout"}
  <2>1. CASE pending[b] # "none"
    <3>1. Outcome(b) = "pending"  BY <2>1 DEF Outcome
    <3>. QED  BY <1>1, <1>3, <2>1, <3>1 DEF ClickLook, ModerateTypeOK
  <2>2. CASE pending[b] = "none"
    <3>1. Outcome(b) \in {"accept", "reject", "timeout"}  BY <2>2 DEF Outcome
    <3>. QED  BY <1>1, <1>3, <2>2, <3>1 DEF ClickLook, ModerateTypeOK, Unlock
  <2>. QED  BY <2>1, <2>2
<1>6. x \in Steps /\ doing' = [doing EXCEPT ![c] = x] /\ (x \in Idle \/ modLock' = c)
      /\ x \notin {"stub", "unlink", "look"}
  BY <1>5 DEF Steps, Idle
<1>7. told' \in [Click -> Told] /\ \A q \in Click : q # c => told'[q] = told[q]
  BY <1>1, <1>5 DEF ModerateTypeOK, Told, Act
<1>8. ModerateTypeOK'
  <2>1. doing' \in [Procs -> Steps]  BY <1>1, <1>3, <1>6 DEF ModerateTypeOK
  <2>. QED  BY <1>1, <1>2, <1>7, <2>1 DEF ModerateTypeOK
<1>9. /\ OneBusy' /\ orphan = {} /\ doing'[c] = x
      /\ \A s \in Store : StoreOK(s)' /\ doing'[s] = doing[s]
      /\ \A q \in Click : q # c => ClickOK(q)'
      /\ CleanOK'
      /\ \A q \in Procs : q # c => doing[q] \in Idle /\ doing'[q] \in Idle
  <2>1. modFaults <= modFaults' /\ \A e \in Base : \A f \in Fates : fate[e][f] <= fate'[e][f]
    BY <1>1, <1>2, WeightNat DEF ModerateTypeOK
  <2>. HIDE DEF x
  <2>. QED  BY <1>2, <1>3, <1>6, <1>7, <1>8, <2>1, ClickStep
<1>10. ClickOK(c)'
  <2>1. CASE pending[b] # "none"
    BY <1>1, <1>2, <1>4, <1>5, <2>1 DEF ClickOK, Act
  <2>2. CASE pending[b] = "none"
    <3>1. x = "end" /\ told'[c] = Outcome(b)  BY <1>1, <1>5, <2>2 DEF ModerateTypeOK
    <3>2. Outcome(b) \in Act => fate[b][Outcome(b)] > 0
      BY <1>1, <1>4, <2>2 DEF Outcome, StubsOK, Act
    <3>3. Outcome(b) = "timeout" => b \in overdue \/ modFaults > 0
      <4>1. Outcome(b) = "timeout" => stubs[b] = {}
        BY <1>1, <1>4, <2>2 DEF Outcome, Act, ModerateTypeOK
      <4>. QED  BY <1>1, <1>4, <2>2, <4>1 DEF StubsOK
    <3>. HIDE DEF b, x
    <3>4. ask'[c].base = b /\ fate' = fate  BY <1>2 DEF b
    <3>5. doing'[c] = "end"  BY <3>1 DEF x
    <3>. QED  BY <1>2, <1>4, <3>1, <3>2, <3>3, <3>4, <3>5 DEF ClickOK, Busy, Idle
  <2>. QED  BY <2>1, <2>2
<1>11. Names' /\ StubsOK' /\ PostKept'  BY <1>1, <1>2 DEF Names, StubsOK, PostKept, Total
<1>12. Bounded'
  <2>1. \A e \in Base : ~Claimed(e) /\ ~Claimed(e)'
    <3>1. \A q \in Click : doing[q] \notin {"stub", "unlink"} /\ doing'[q] \notin {"stub", "unlink"}
      BY <1>2, <1>6, <1>9 DEF Idle, Procs
    <3>2. doing[Cleaner] # "noticed" /\ doing'[Cleaner] # "noticed"
      BY <1>3, <1>9 DEF Idle
    <3>. QED  BY <3>1, <3>2 DEF Claimed
  <2>2. \A e \in Base : Weight(e)' <= Weight(e)
    BY <1>1, <1>2, <1>8, <1>9, <2>1, Unclaimed DEF Total
  <2>3. modFaults <= modFaults'  BY <1>1, <1>2 DEF ModerateTypeOK
  <2>. QED  BY <1>1, <1>2, <1>8, <1>9, <2>2, <2>3, BoundedLess
<1>. QED  BY <1>8, <1>9, <1>10, <1>11, <1>12 DEF ModerateInv

\* Where only counts and time grow, stubs and posts tell the same.
LEMMA Grown ==
  ASSUME ModerateTypeOK, ModerateTypeOK', StubsOK, PostKept, overdue \subseteq overdue',
         modFaults <= modFaults', UNCHANGED <<pending, stubs, offered, returning>>,
         \A b \in Base : \A a \in Fates : fate[b][a] <= fate'[b][a]
  PROVE  StubsOK' /\ PostKept'
<1>1. \A b \in Base : \A a \in Fates : fate[b][a] \in Nat /\ fate'[b][a] \in Nat
  BY DEF ModerateTypeOK
<1>2. \A b \in Base : \A a \in stubs[b] : fate'[b][a] > 0
  <2>1. TAKE b \in Base
  <2>2. TAKE a \in stubs[b]
  <2>3. a \in Fates /\ fate[b][a] > 0  BY DEF StubsOK, ModerateTypeOK, Fates
  <2>. QED  BY <1>1, <2>3
<1>3. modFaults \in Nat /\ modFaults' \in Nat  BY DEF ModerateTypeOK
<1>4. StubsOK'  BY <1>2, <1>3 DEF StubsOK
<1>5. \A b \in Base : Total(b) \in Nat /\ Total(b) <= Total(b)'
  <2>1. TAKE b \in Base
  <2>2. /\ fate[b]["accept"] \in Nat /\ fate[b]["accept"] <= fate'[b]["accept"]
        /\ fate[b]["reject"] \in Nat /\ fate[b]["reject"] <= fate'[b]["reject"]
        /\ fate[b]["timeout"] \in Nat /\ fate[b]["timeout"] <= fate'[b]["timeout"]
        /\ fate'[b]["accept"] \in Nat /\ fate'[b]["reject"] \in Nat /\ fate'[b]["timeout"] \in Nat
    BY <1>1 DEF Fates, Act
  <2>. QED  BY <2>2 DEF Total
<1>6. \A b \in offered : Total(b) > 0 => Total(b)' > 0
  <2>1. TAKE b \in offered
  <2>2. b \in Base  BY DEF ModerateTypeOK
  <2>3. Total(b) \in Nat /\ Total(b)' \in Nat /\ Total(b) <= Total(b)'
    <3>1. /\ fate'[b]["accept"] \in Nat /\ fate'[b]["reject"] \in Nat /\ fate'[b]["timeout"] \in Nat
      BY <1>1, <2>2 DEF Fates, Act
    <3>2. Total(b)' \in Nat  BY <3>1 DEF Total
    <3>. QED  BY <1>5, <2>2, <3>2
  <2>. QED  BY <2>3
<1>7. PostKept'  BY <1>6 DEF PostKept
<1>. QED  BY <1>4, <1>7

LEMMA FateUp ==
  ASSUME ModerateTypeOK, NEW b \in Base, NEW a \in Fates, fate' = [fate EXCEPT ![b][a] = @ + 1]
  PROVE  /\ fate' \in [Base -> [Fates -> Nat]]
         /\ \A e \in Base : \A f \in Fates :
              fate'[e][f] = fate[e][f] + (IF e = b /\ f = a THEN 1 ELSE 0)
         /\ \A e \in Base : \A f \in Fates : fate[e][f] <= fate'[e][f]
         /\ \A e \in Base : Total(e) \in Nat /\ Total(e)' = Total(e) + (IF e = b THEN 1 ELSE 0)
<1>1. \A e \in Base : \A f \in Fates : fate[e][f] \in Nat  BY DEF ModerateTypeOK
<1>2. /\ fate' \in [Base -> [Fates -> Nat]]
      /\ \A e \in Base : \A f \in Fates :
           fate'[e][f] = IF e = b /\ f = a THEN fate[e][f] + 1 ELSE fate[e][f]
  BY <1>1 DEF ModerateTypeOK
<1>3. \A e \in Base : Total(e) \in Nat /\ Total(e)' = Total(e) + (IF e = b THEN 1 ELSE 0)
  <2>1. TAKE e \in Base
  <2>2. \A f \in Fates : fate'[e][f] = IF e = b /\ f = a THEN fate[e][f] + 1 ELSE fate[e][f]
    BY <1>2
  <2>3. /\ fate[e]["accept"] \in Nat /\ fate[e]["reject"] \in Nat /\ fate[e]["timeout"] \in Nat
    BY <1>1 DEF Fates, Act
  <2>. HIDE DEF Fates
  <2>4. a = "accept" \/ a = "reject" \/ a = "timeout"  BY DEF Fates, Act
  <2>5. "accept" \in Fates /\ "reject" \in Fates /\ "timeout" \in Fates  BY DEF Fates, Act
  <2>. QED  BY <2>2, <2>3, <2>4, <2>5 DEF Total
<1>. QED  BY <1>1, <1>2, <1>3

\* An ezmlm-moderate at work is the only one, and knows which post it is about.
LEMMA ClickWorks ==
  ASSUME ModerateInv, NEW c \in Click, modLock = c, Busy(c)
  PROVE  /\ ask[c].base \in Base /\ ask[c].base \in offered /\ ask[c].act \in Act
         /\ c \in Procs /\ c # Cleaner /\ c # "none" /\ c # "ezmlm-send" /\ orphan = {}
         /\ postOf[ask[c].base] # Nobody
         /\ \A q \in Procs : q # c => doing[q] \in Idle
         /\ \A b \in Base : Claimed(b) <=> b = ask[c].base /\ doing[c] \in {"stub", "unlink"}
<1>1. ModerateTypeOK /\ OneBusy /\ ClickOK(c) /\ Names  BY DEF ModerateInv
<1>2. /\ c \in Procs /\ c # Cleaner /\ c # "none" /\ c # "ezmlm-send" /\ Cleaner \in Procs
      /\ Click \subseteq Procs
  BY ModerateAssumption DEF Procs
<1>3. /\ ask[c].base \in offered /\ ask[c].base \in Base
  BY <1>1 DEF ClickOK, ModerateTypeOK
<1>4. ask[c].act \in Act  BY <1>1 DEF ModerateTypeOK, Ask
<1>5. orphan = {} /\ \A q \in Procs : q # c => doing[q] \in Idle
  BY <1>1, <1>2 DEF OneBusy, Busy
<1>6. \A b \in Base : Claimed(b) <=> b = ask[c].base /\ doing[c] \in {"stub", "unlink"}
  BY <1>2, <1>5 DEF Claimed, Idle
<1>. QED  BY <1>1, <1>2, <1>3, <1>4, <1>5, <1>6 DEF Names

LEMMA ClickDoSafe ==
  ASSUME ModerateInv, NEW c \in Click, ClickDo(c)
  PROVE  ModerateInv'
<1>. DEFINE b == ask[c].base   a == ask[c].act
<1>1. /\ ModerateTypeOK /\ OneBusy /\ Names /\ StubsOK /\ PostKept /\ Bounded /\ ClickOK(c)
  BY DEF ModerateInv
<1>2. /\ modLock = c /\ modLock' = c /\ doing[c] \in {"accepting", "rejecting"}
      /\ doing' = [doing EXCEPT ![c] = "stub"] /\ fate' = [fate EXCEPT ![b][a] = @ + 1]
      /\ UNCHANGED <<orphan, ask, told, seen, modFaults, pending, stubs, postOf, overdue, returning,
                     offered>>
  BY DEF ClickDo, files, fixed, answers
<1>3. /\ b \in Base /\ b \in offered /\ a \in Act /\ c \in Procs /\ c # Cleaner /\ orphan = {}
      /\ postOf[b] # Nobody
      /\ \A e \in Base : Claimed(e) <=> e = b /\ doing[c] \in {"stub", "unlink"}
  BY <1>2, ClickWorks DEF Busy, Idle
<1>4. a \in Fates /\ "stub" \in Steps  BY <1>3 DEF Fates, Steps
<1>. HIDE DEF a, b
<1>5. /\ fate' \in [Base -> [Fates -> Nat]]
      /\ \A e \in Base : \A f \in Fates :
           fate'[e][f] = fate[e][f] + (IF e = b /\ f = a THEN 1 ELSE 0)
      /\ \A e \in Base : \A f \in Fates : fate[e][f] <= fate'[e][f]
      /\ \A e \in Base : Total(e) \in Nat /\ Total(e)' = Total(e) + (IF e = b THEN 1 ELSE 0)
  BY <1>1, <1>2, <1>3, <1>4, FateUp
<1>6. ModerateTypeOK'
  <2>1. doing' \in [Procs -> Steps]  BY <1>1, <1>2, <1>3, <1>4 DEF ModerateTypeOK
  <2>. QED  BY <1>1, <1>2, <1>5, <2>1 DEF ModerateTypeOK
<1>7. \A e \in Base : \A f \in Fates : fate[e][f] \in Nat /\ fate'[e][f] \in Nat
  BY <1>1, <1>6 DEF ModerateTypeOK
<1>8. /\ OneBusy' /\ doing'[c] = "stub"
      /\ \A s \in Store : StoreOK(s)' /\ doing'[s] = doing[s]
      /\ \A q \in Click : q # c => ClickOK(q)'
      /\ CleanOK'
      /\ \A q \in Procs : q # c => doing[q] \in Idle /\ doing'[q] \in Idle
  <2>1. modFaults <= modFaults'  BY <1>1, <1>2 DEF ModerateTypeOK
  <2>. QED  BY <1>2, <1>3, <1>4, <1>5, <1>6, <2>1, ClickStep
<1>9. fate'[b][a] > 0  BY <1>3, <1>4, <1>5, <1>7
<1>10. ClickOK(c)'
  <2>1. told'[c] \in Act => ask'[c].base \in Base /\ fate'[ask'[c].base][told'[c]] > 0
    <3>1. SUFFICES ASSUME told[c] \in Act PROVE fate'[b][told[c]] > 0  BY <1>2, <1>3 DEF b
    <3>2. fate[b][told[c]] > 0 /\ told[c] \in Fates  BY <1>1, <3>1 DEF ClickOK, b, Fates
    <3>. QED  BY <1>3, <1>5, <1>7, <3>2
  <2>2. told'[c] = "timeout" => ask'[c].base \in overdue' \/ modFaults' > 0
    BY <1>1, <1>2 DEF ClickOK
  <2>3. ask'[c].base = b /\ ask'[c].act = a  BY <1>2 DEF a, b
  <2>. QED  BY <1>2, <1>3, <1>8, <1>9, <2>1, <2>2, <2>3 DEF ClickOK
<1>11. Names'
  BY <1>1, <1>2, <1>3, <1>5 DEF Names
<1>12. StubsOK' /\ PostKept'
  <2>1. modFaults <= modFaults' /\ overdue \subseteq overdue'  BY <1>1, <1>2 DEF ModerateTypeOK
  <2>. QED  BY <1>1, <1>2, <1>5, <1>6, <2>1, Grown
<1>13. Bounded'
  <2>1. \A e \in Base : ~Claimed(e)  BY <1>2, <1>3
  <2>2. \A e \in Base : Claimed(e)' <=> e = b
    BY <1>2, <1>3, <1>8 DEF Claimed, b, Idle, Procs
  <2>4. pending[b] # "none"  BY <1>1, <1>2 DEF ClickOK, b
  <2>5. \A e \in Base : Left(e)' = IF e = b THEN 0 ELSE Left(e)
    BY <1>2, <2>1, <2>2 DEF Left
  <2>6. Left(b) = 1  BY <1>3, <2>1, <2>4 DEF Left
  <2>7. \A e \in Base : Left(e) \in {0, 1} /\ Orphaned(e)' = 0 /\ Orphaned(e) = 0
    BY <1>2, <1>3 DEF Left, Orphaned
  <2>8. \A e \in Base : Weight(e)' <= Weight(e)
    BY <1>5, <2>5, <2>6, <2>7 DEF Weight
  <2>9. modFaults <= modFaults'  BY <1>1, <1>2 DEF ModerateTypeOK
  <2>. QED  BY <1>1, <1>2, <1>6, <1>8, <2>8, <2>9, BoundedLess
<1>. QED  BY <1>6, <1>8, <1>10, <1>11, <1>12, <1>13 DEF ModerateInv

LEMMA ClickRefusedSafe ==
  ASSUME ModerateInv, NEW c \in Click, ClickRefused(c)
  PROVE  ModerateInv'
<1>1. /\ ModerateTypeOK /\ OneBusy /\ Names /\ StubsOK /\ PostKept /\ Bounded /\ ClickOK(c)
  BY DEF ModerateInv
<1>2. /\ modLock = c /\ doing[c] = "accepting" /\ doing' = [doing EXCEPT ![c] = "end"]
      /\ told' = [told EXCEPT ![c] = "failed"]
      /\ UNCHANGED <<orphan, ask, seen, modFaults, pending, stubs, postOf, overdue, returning, offered,
                     fate>>
  BY DEF ClickRefused, Goes, files, fixed, past
<1>3. /\ c \in Procs /\ c # Cleaner
      /\ \A e \in Base : Claimed(e) <=> e = ask[c].base /\ doing[c] \in {"stub", "unlink"}
  BY <1>2, ClickWorks DEF Busy, Idle
<1>4. "end" \in Steps /\ "end" \in Idle  BY DEF Steps, Idle
<1>5. told' \in [Click -> Told] /\ told'[c] = "failed" /\ \A q \in Click : q # c => told'[q] = told[q]
  BY <1>1, <1>2 DEF ModerateTypeOK, Told
<1>6. ModerateTypeOK'
  <2>1. doing' \in [Procs -> Steps]  BY <1>1, <1>2, <1>3, <1>4 DEF ModerateTypeOK
  <2>. QED  BY <1>1, <1>2, <1>5, <2>1 DEF ModerateTypeOK
<1>7. modFaults <= modFaults' /\ \A e \in Base : \A f \in Fates : fate[e][f] <= fate'[e][f]
  BY <1>1, <1>2, WeightNat DEF ModerateTypeOK
<1>8. /\ OneBusy' /\ orphan = {} /\ doing'[c] = "end"
      /\ \A s \in Store : StoreOK(s)' /\ doing'[s] = doing[s]
      /\ \A q \in Click : q # c => ClickOK(q)'
      /\ CleanOK'
      /\ \A q \in Procs : q # c => doing[q] \in Idle /\ doing'[q] \in Idle
  BY <1>2, <1>3, <1>4, <1>5, <1>6, <1>7, ClickStep
<1>9. ClickOK(c)'  BY <1>4, <1>5, <1>8 DEF ClickOK, Busy, Act, Idle
<1>10. Names' /\ StubsOK' /\ PostKept'  BY <1>1, <1>2 DEF Names, StubsOK, PostKept, Total
<1>11. Bounded'
  <2>1. \A e \in Base : ~Claimed(e) /\ ~Claimed(e)'
    <3>1. \A q \in Procs : doing'[q] \in Idle  BY <1>4, <1>8
    <3>. QED  BY <1>2, <1>3, <3>1 DEF Claimed, Idle, Procs
  <2>2. \A e \in Base : Weight(e)' <= Weight(e)
    BY <1>1, <1>2, <1>6, <1>8, <2>1, Unclaimed DEF Total
  <2>. QED  BY <1>1, <1>2, <1>6, <1>7, <1>8, <2>2, BoundedLess
<1>. QED  BY <1>6, <1>8, <1>9, <1>10, <1>11 DEF ModerateInv

LEMMA ClickStubSafe ==
  ASSUME ModerateInv, NEW c \in Click, ClickStub(c)
  PROVE  ModerateInv'
<1>. DEFINE b == ask[c].base   a == ask[c].act
<1>1. /\ ModerateTypeOK /\ OneBusy /\ Names /\ StubsOK /\ PostKept /\ Bounded /\ ClickOK(c)
  BY DEF ModerateInv
<1>2. /\ modLock = c /\ modLock' = c /\ doing[c] = "stub" /\ doing' = [doing EXCEPT ![c] = "unlink"]
      /\ \/ stubs' = [stubs EXCEPT ![b] = @ \union {a}] /\ modFaults' = modFaults
         \/ stubs' = stubs /\ modFaults' = modFaults + 1
      /\ UNCHANGED <<orphan, ask, told, seen, pending, postOf, overdue, returning, offered, fate>>
  BY DEF ClickStub, Goes, Fault, answers, fixed, past
<1>3. /\ b \in Base /\ b \in offered /\ a \in Act /\ c \in Procs /\ c # Cleaner /\ orphan = {}
      /\ \A e \in Base : Claimed(e) <=> e = b /\ doing[c] \in {"stub", "unlink"}
  BY <1>2, ClickWorks DEF Busy, Idle
<1>4. fate[b][a] > 0 /\ "unlink" \in Steps  BY <1>1, <1>2 DEF ClickOK, a, b, Steps
<1>. HIDE DEF a, b
<1>5. ModerateTypeOK'
  <2>1. doing' \in [Procs -> Steps]  BY <1>1, <1>2, <1>3, <1>4 DEF ModerateTypeOK
  <2>2. stubs' \in [Base -> SUBSET Act] /\ modFaults' \in Nat
    BY <1>1, <1>2, <1>3 DEF ModerateTypeOK
  <2>. QED  BY <1>1, <1>2, <2>1, <2>2 DEF ModerateTypeOK
<1>6. modFaults \in Nat /\ modFaults <= modFaults'  BY <1>1, <1>2 DEF ModerateTypeOK
<1>7. /\ OneBusy' /\ doing'[c] = "unlink"
      /\ \A s \in Store : StoreOK(s)' /\ doing'[s] = doing[s]
      /\ \A q \in Click : q # c => ClickOK(q)'
      /\ CleanOK'
      /\ \A q \in Procs : q # c => doing[q] \in Idle /\ doing'[q] \in Idle
  <2>1. \A e \in Base : \A f \in Fates : fate[e][f] <= fate'[e][f]
    BY <1>1, <1>2, WeightNat
  <2>. QED  BY <1>2, <1>3, <1>4, <1>5, <1>6, <2>1, ClickStep
<1>8. \A e \in Base : stubs'[e] = IF e = b /\ modFaults' = modFaults THEN stubs[e] \union {a} ELSE stubs[e]
  <2>1. stubs \in [Base -> SUBSET Act]  BY <1>1 DEF ModerateTypeOK
  <2>2. CASE stubs' = [stubs EXCEPT ![b] = @ \union {a}] /\ modFaults' = modFaults
    BY <1>3, <2>1, <2>2
  <2>3. CASE stubs' = stubs /\ modFaults' = modFaults + 1  BY <1>6, <2>3
  <2>. QED  BY <1>2, <2>2, <2>3
<1>9. ClickOK(c)'
  <2>1. a \in stubs'[b] \/ modFaults' > 0
    <3>1. modFaults' = modFaults \/ modFaults' = modFaults + 1  BY <1>2
    <3>2. modFaults' = modFaults => a \in stubs'[b]  BY <1>3, <1>8
    <3>. QED  BY <1>6, <3>1, <3>2
  <2>2. told'[c] = "timeout" => b \in overdue' \/ modFaults' > 0
    BY <1>1, <1>2, <1>6 DEF ClickOK, b
  <2>3. ask'[c].base = b /\ ask'[c].act = a  BY <1>2 DEF a, b
  <2>4. told'[c] \in Act => b \in Base /\ fate'[b][told'[c]] > 0
    BY <1>1, <1>2 DEF ClickOK, b
  <2>. QED  BY <1>2, <1>3, <1>4, <1>7, <2>1, <2>2, <2>3, <2>4 DEF ClickOK
<1>10. Names' /\ PostKept'  BY <1>1, <1>2 DEF Names, PostKept, Total
<1>11. StubsOK'
  <2>1. \A e \in Base : \A f \in stubs'[e] : fate'[e][f] > 0
    BY <1>1, <1>2, <1>4, <1>8 DEF StubsOK
  <2>2. \A e \in Base : stubs'[e] = {} => stubs[e] = {}  BY <1>8
  <2>. QED  BY <1>1, <1>2, <1>6, <2>1, <2>2 DEF StubsOK
<1>12. Bounded'
  <2>1. \A e \in Base : Claimed(e)' <=> Claimed(e)
    BY <1>2, <1>3, <1>7 DEF Claimed, Idle, Procs, b
  <2>2. \A e \in Base : Total(e) \in Nat /\ Total(e)' = Total(e)  BY <1>1, <1>2, WeightNat DEF Total
  <2>3. \A e \in Base : Weight(e)' <= Weight(e)
    BY <1>2, <1>3, <2>1, <2>2 DEF Weight, Left, Orphaned
  <2>. QED  BY <1>1, <1>2, <1>5, <1>6, <1>7, <2>3, BoundedLess
<1>. QED  BY <1>5, <1>7, <1>9, <1>10, <1>11, <1>12 DEF ModerateInv

LEMMA ClickUnlinkSafe ==
  ASSUME ModerateInv, NEW c \in Click, ClickUnlink(c)
  PROVE  ModerateInv'
<1>. DEFINE b == ask[c].base   a == ask[c].act
<1>1. /\ ModerateTypeOK /\ OneBusy /\ Names /\ StubsOK /\ PostKept /\ Bounded /\ ClickOK(c)
  BY DEF ModerateInv
<1>2. /\ modLock = c /\ doing[c] = "unlink" /\ doing' = [doing EXCEPT ![c] = "end"]
      /\ \/ pending' = [pending EXCEPT ![b] = "none"] /\ modFaults' = modFaults
         \/ pending' = pending /\ modFaults' = modFaults + 1
      /\ told' = [told EXCEPT ![c] = a]
      /\ UNCHANGED <<orphan, stubs, ask, seen, postOf, overdue, returning, offered, fate>>
  BY DEF ClickUnlink, Goes, Fault, fixed, past
<1>3. /\ b \in Base /\ b \in offered /\ a \in Act /\ c \in Procs /\ c # Cleaner /\ orphan = {}
      /\ \A e \in Base : Claimed(e) <=> e = b /\ doing[c] \in {"stub", "unlink"}
  BY <1>2, ClickWorks DEF Busy, Idle
<1>4. /\ fate[b][a] > 0 /\ "end" \in Steps /\ "end" \in Idle
      /\ a \in stubs[b] \/ modFaults > 0
  BY <1>1, <1>2 DEF ClickOK, a, b, Steps, Idle
<1>. HIDE DEF a, b
<1>5. told' \in [Click -> Told] /\ told'[c] = a /\ \A q \in Click : q # c => told'[q] = told[q]
  BY <1>1, <1>2, <1>3 DEF ModerateTypeOK, Told
<1>6. ModerateTypeOK'
  <2>1. doing' \in [Procs -> Steps]  BY <1>1, <1>2, <1>3, <1>4 DEF ModerateTypeOK
  <2>2. pending' \in [Base -> {"none", "partly", "synced", "exec"}] /\ modFaults' \in Nat
    BY <1>1, <1>2, <1>3 DEF ModerateTypeOK
  <2>. QED  BY <1>1, <1>2, <1>5, <2>1, <2>2 DEF ModerateTypeOK
<1>7. modFaults \in Nat /\ modFaults <= modFaults'  BY <1>1, <1>2 DEF ModerateTypeOK
<1>8. /\ OneBusy' /\ doing'[c] = "end"
      /\ \A s \in Store : StoreOK(s)' /\ doing'[s] = doing[s]
      /\ \A q \in Click : q # c => ClickOK(q)'
      /\ CleanOK'
      /\ \A q \in Procs : q # c => doing[q] \in Idle /\ doing'[q] \in Idle
  <2>1. \A e \in Base : \A f \in Fates : fate[e][f] <= fate'[e][f]
    BY <1>1, <1>2, WeightNat
  <2>. QED  BY <1>2, <1>3, <1>4, <1>5, <1>6, <1>7, <2>1, ClickStep
<1>9. ClickOK(c)'
  <2>1. ask'[c].base = b /\ a # "timeout"  BY <1>2, <1>3 DEF b, Act
  <2>. QED  BY <1>2, <1>3, <1>4, <1>5, <1>8, <2>1 DEF ClickOK, Busy, Idle
<1>10. \A e \in Base : pending'[e] = IF e = b /\ modFaults' = modFaults THEN "none" ELSE pending[e]
  BY <1>1, <1>2, <1>3, <1>7 DEF ModerateTypeOK
<1>11. Names'  BY <1>1, <1>2, <1>10 DEF Names
<1>12. \A e \in Base : Total(e) \in Nat /\ Total(e)' = Total(e) /\ (e = b => Total(e)' > 0)
  <2>1. a \in Fates  BY <1>3 DEF Fates
  <2>2. Total(b) \in Nat /\ fate[b][a] \in Nat /\ fate[b][a] <= Total(b)  BY <1>1, <1>3, <2>1, WeightNat
  <2>3. \A e \in Base : Total(e) \in Nat  BY <1>1, WeightNat
  <2>4. \A e \in Base : Total(e)' = Total(e)  BY <1>2 DEF Total
  <2>5. Total(b) > 0  BY <1>4, <2>2
  <2>. QED  BY <2>3, <2>4, <2>5
<1>13. PostKept'
  <2>1. ASSUME NEW e \in Base, e \in offered
        PROVE  pending'[e] = "exec" \/ Total(e)' > 0 \/ (~returning /\ e \in overdue)
    <3>1. Total(e)' = Total(e)  BY <1>12
    <3>2. CASE e = b  BY <1>12, <3>2
    <3>3. CASE e # b  BY <1>1, <1>10, <2>1, <3>1, <3>3 DEF PostKept
    <3>. QED  BY <3>2, <3>3
  <2>. QED  BY <1>1, <1>2, <2>1 DEF PostKept, ModerateTypeOK
<1>14. StubsOK'
  <2>1. b \in offered /\ stubs[b] = {} => modFaults > 0  BY <1>4
  <2>. QED  BY <1>1, <1>2, <1>7, <1>10, <2>1 DEF StubsOK
<1>15. Bounded'
  <2>1. \A e \in Base : (Claimed(e) <=> e = b) /\ ~Claimed(e)'
    <3>1. \A q \in Procs : doing'[q] \in Idle  BY <1>4, <1>8
    <3>. QED  BY <1>2, <1>3, <3>1 DEF Claimed, Idle, Procs
  <2>2. \A e \in Base : Weight(e)' <= Weight(e) + (IF e = b THEN modFaults' - modFaults ELSE 0)
    <3>1. TAKE e \in Base
    <3>2. Orphaned(e) = 0 /\ Orphaned(e)' = 0 /\ Total(e) \in Nat /\ Total(e)' = Total(e)
      BY <1>2, <1>3, <1>12 DEF Orphaned
    <3>3. CASE e = b
      <4>1. Left(e) = 0 /\ Left(e)' = IF modFaults' = modFaults THEN 0 ELSE Left(e)'
        BY <1>10, <2>1, <3>3 DEF Left
      <4>2. Left(e)' \in {0, 1}  BY DEF Left
      <4>3. modFaults' = modFaults \/ modFaults' = modFaults + 1  BY <1>2
      <4>. QED  BY <1>7, <3>2, <3>3, <4>1, <4>2, <4>3 DEF Weight
    <3>4. CASE e # b
      <4>1. Left(e)' = Left(e) /\ Left(e) \in {0, 1}  BY <1>10, <2>1, <3>4 DEF Left
      <4>. QED  BY <3>2, <3>4, <4>1 DEF Weight
    <3>. QED  BY <3>3, <3>4
  <2>. QED  BY <1>1, <1>2, <1>6, <1>7, <1>8, <2>2, BoundedStays
<1>. QED  BY <1>6, <1>8, <1>9, <1>11, <1>13, <1>14, <1>15 DEF ModerateInv

\* ezmlm-clean at work is the only one.
LEMMA CleanWorks ==
  ASSUME ModerateInv, Busy(Cleaner)
  PROVE  /\ modLock = Cleaner /\ orphan = {} /\ Cleaner \in Procs /\ Cleaner \notin Click
         /\ Cleaner # "none" /\ Cleaner # "ezmlm-send"
         /\ \A q \in Procs : q # Cleaner => doing[q] \in Idle
         /\ \A b \in Base : Claimed(b) <=> doing[Cleaner] = "noticed" /\ b \in seen
<1>1. ModerateTypeOK /\ OneBusy  BY DEF ModerateInv
<1>2. /\ Cleaner \in Procs /\ Cleaner \notin Click /\ Cleaner # "none" /\ Cleaner # "ezmlm-send"
      /\ Click \subseteq Procs
  BY ModerateAssumption DEF Procs
<1>3. modLock = Cleaner /\ orphan = {}  BY <1>1, <1>2 DEF OneBusy
<1>4. \A q \in Procs : q # Cleaner => doing[q] \in Idle  BY <1>1, <1>2, <1>3 DEF OneBusy, Busy
<1>5. \A b \in Base : Claimed(b) <=> doing[Cleaner] = "noticed" /\ b \in seen
  BY <1>2, <1>4 DEF Claimed, Idle
<1>. QED  BY <1>2, <1>3, <1>4, <1>5

LEMMA OverdueSafe ==
  ASSUME ModerateInv, NEW b \in Base, Overdue(b)
  PROVE  ModerateInv'
<1>1. /\ ModerateTypeOK /\ OneBusy /\ Names /\ StubsOK /\ PostKept /\ Bounded /\ CleanOK
      /\ \A s \in Store : StoreOK(s)
      /\ \A c \in Click : ClickOK(c)
  BY DEF ModerateInv
<1>2. /\ overdue' = overdue \union {b}
      /\ UNCHANGED <<orphan, modLock, returning, doing, seen, modFaults, pending, stubs, postOf, ask,
                     told, offered, fate>>
  BY DEF Overdue, files, answers, past
<1>3. ModerateTypeOK'  BY <1>1, <1>2 DEF ModerateTypeOK
<1>4. OneBusy' /\ Names' /\ CleanOK' /\ \A s \in Store : StoreOK(s)'
  BY <1>1, <1>2 DEF OneBusy, Busy, Names, CleanOK, StoreOK, Own
<1>5. \A c \in Click : ClickOK(c)'  BY <1>1, <1>2 DEF ClickOK, Busy
<1>6. StubsOK' /\ PostKept'  BY <1>1, <1>2 DEF StubsOK, PostKept, Total
<1>7. Bounded'  BY <1>1, <1>2 DEF Bounded, Weight, Total, Left, Orphaned, Again, Claimed
<1>. QED  BY <1>3, <1>4, <1>5, <1>6, <1>7 DEF ModerateInv

LEMMA CleanLockSafe ==
  ASSUME ModerateInv, CleanLock
  PROVE  ModerateInv'
<1>1. /\ ModerateTypeOK /\ OneBusy /\ Names /\ StubsOK /\ PostKept /\ Bounded
  BY DEF ModerateInv
<1>2. /\ modLock = "none" /\ modLock' = Cleaner /\ doing[Cleaner] = "start"
      /\ doing' = [doing EXCEPT ![Cleaner] = "cleaning"] /\ seen' = {}
      /\ UNCHANGED <<orphan, modFaults, pending, stubs, postOf, ask, told, overdue, returning, offered,
                     fate>>
  BY DEF CleanLock, Goes, TakeLock, files, answers, fixed, past
<1>3. Cleaner \in Procs /\ Cleaner \notin Click /\ "cleaning" \in Steps /\ Click \subseteq Procs
  BY ModerateAssumption DEF Procs, Steps
<1>4. ModerateTypeOK'
  <2>1. doing' \in [Procs -> Steps]  BY <1>1, <1>2, <1>3 DEF ModerateTypeOK
  <2>. QED  BY <1>1, <1>2, <2>1 DEF ModerateTypeOK
<1>5. modFaults <= modFaults' /\ \A e \in Base : \A f \in Fates : fate[e][f] <= fate'[e][f]
  BY <1>1, <1>2, WeightNat DEF ModerateTypeOK
<1>6. /\ OneBusy' /\ orphan = {} /\ doing'[Cleaner] = "cleaning"
      /\ \A s \in Store : StoreOK(s)' /\ doing'[s] = doing[s]
      /\ \A q \in Click : ClickOK(q)'
      /\ \A q \in Procs : q # Cleaner => doing[q] \in Idle /\ doing'[q] \in Idle
  BY <1>2, <1>3, <1>4, <1>5, ClickStep
<1>7. CleanOK'  BY <1>2, <1>6 DEF CleanOK
<1>8. Names' /\ StubsOK' /\ PostKept'  BY <1>1, <1>2 DEF Names, StubsOK, PostKept, Total
<1>9. Bounded'
  <2>1. \A e \in Base : ~Claimed(e) /\ ~Claimed(e)'
    BY <1>2, <1>3, <1>6 DEF Claimed, Idle
  <2>2. \A e \in Base : Weight(e)' <= Weight(e)
    BY <1>1, <1>2, <1>4, <1>6, <2>1, Unclaimed DEF Total
  <2>. QED  BY <1>1, <1>2, <1>4, <1>5, <1>6, <2>2, BoundedLess
<1>. QED  BY <1>4, <1>6, <1>7, <1>8, <1>9 DEF ModerateInv

LEMMA CleanNoticeSafe ==
  ASSUME ModerateInv, NEW b \in Base, CleanNotice(b)
  PROVE  ModerateInv'
<1>1. /\ ModerateTypeOK /\ OneBusy /\ Names /\ StubsOK /\ PostKept /\ Bounded /\ CleanOK
  BY DEF ModerateInv
<1>2. /\ doing[Cleaner] = "cleaning" /\ b \in overdue /\ b \notin seen /\ pending[b] = "exec"
      /\ fate' = [fate EXCEPT ![b]["timeout"] = @ + 1]
      /\ doing' = [doing EXCEPT ![Cleaner] = "noticed"] /\ seen' = seen \union {b}
      /\ UNCHANGED <<orphan, modLock, offered, modFaults, pending, stubs, postOf, ask, told, overdue,
                     returning>>
  BY DEF CleanNotice, Timed, files, answers, fixed
<1>3. /\ modLock = Cleaner /\ modLock' = Cleaner /\ orphan = {} /\ Cleaner \in Procs
      /\ Cleaner \notin Click /\ Click \subseteq Procs
      /\ \A e \in Base : Claimed(e) <=> doing[Cleaner] = "noticed" /\ e \in seen
  BY <1>2, CleanWorks DEF Busy, Idle, Procs
<1>4. "noticed" \in Steps /\ "timeout" \in Fates  BY DEF Steps, Fates
<1>5. /\ fate' \in [Base -> [Fates -> Nat]]
      /\ \A e \in Base : \A f \in Fates :
           fate'[e][f] = fate[e][f] + (IF e = b /\ f = "timeout" THEN 1 ELSE 0)
      /\ \A e \in Base : \A f \in Fates : fate[e][f] <= fate'[e][f]
      /\ \A e \in Base : Total(e) \in Nat /\ Total(e)' = Total(e) + (IF e = b THEN 1 ELSE 0)
  BY <1>1, <1>2, <1>4, FateUp
<1>6. ModerateTypeOK'
  <2>1. doing' \in [Procs -> Steps]  BY <1>1, <1>2, <1>3, <1>4 DEF ModerateTypeOK
  <2>. QED  BY <1>1, <1>2, <1>5, <2>1 DEF ModerateTypeOK
<1>7. modFaults <= modFaults'  BY <1>1, <1>2 DEF ModerateTypeOK
<1>8. /\ OneBusy' /\ doing'[Cleaner] = "noticed"
      /\ \A s \in Store : StoreOK(s)' /\ doing'[s] = doing[s]
      /\ \A q \in Click : ClickOK(q)'
      /\ \A q \in Procs : q # Cleaner => doing[q] \in Idle /\ doing'[q] \in Idle
  BY <1>2, <1>3, <1>4, <1>5, <1>6, <1>7, ClickStep
<1>9. CleanOK'
  <2>1. \A e \in seen' : pending'[e] # "none" => e = b  BY <1>1, <1>2 DEF CleanOK
  <2>2. fate'[b]["timeout"] > 0  BY <1>1, <1>4, <1>5, <1>6 DEF ModerateTypeOK
  <2>. QED  BY <1>2, <1>8, <2>1, <2>2 DEF CleanOK
<1>10. Names'
  <2>1. postOf[b] # Nobody  BY <1>1, <1>2 DEF Names
  <2>. QED  BY <1>1, <1>2, <1>5, <2>1 DEF Names
<1>11. StubsOK' /\ PostKept'  BY <1>1, <1>2, <1>5, <1>6, <1>7, Grown
<1>12. Bounded'
  <2>1. \A e \in Base : ~Claimed(e) /\ (Claimed(e)' <=> e \in seen \union {b})
    BY <1>2, <1>3, <1>8 DEF Claimed, Idle
  <2>2. \A e \in Base : Weight(e)' <= Weight(e)
    <3>1. TAKE e \in Base
    <3>2. Orphaned(e) = 0 /\ Orphaned(e)' = 0  BY <1>2, <1>3 DEF Orphaned
    <3>3. CASE e = b
      <4>1. Left(e) = 1 /\ Left(e)' = 0  BY <1>2, <2>1, <3>3 DEF Left
      <4>. QED  BY <1>5, <3>2, <3>3, <4>1 DEF Weight
    <3>4. CASE e # b
      <4>1. e \in seen => Left(e) = 0 /\ Left(e)' = 0  BY <1>1, <1>2, <2>1 DEF Left, CleanOK
      <4>2. e \notin seen => Left(e)' = Left(e)  BY <1>2, <2>1, <3>4 DEF Left
      <4>3. Left(e) \in {0, 1}  BY DEF Left
      <4>. QED  BY <1>5, <3>2, <3>4, <4>1, <4>2, <4>3 DEF Weight
    <3>. QED  BY <3>3, <3>4
  <2>. QED  BY <1>1, <1>2, <1>6, <1>7, <1>8, <2>2, BoundedLess
<1>. QED  BY <1>6, <1>8, <1>9, <1>10, <1>11, <1>12 DEF ModerateInv

LEMMA CleanUnlinkSafe ==
  ASSUME ModerateInv, NEW b \in Base, CleanUnlink(b)
  PROVE  ModerateInv'
<1>1. /\ ModerateTypeOK /\ OneBusy /\ Names /\ StubsOK /\ PostKept /\ Bounded /\ CleanOK
  BY DEF ModerateInv
<1>2. /\ doing[Cleaner] \in {"cleaning", "noticed"} /\ pending' = [pending EXCEPT ![b] = "none"]
      /\ UNCHANGED <<orphan, modLock, stubs, postOf, seen, modFaults, ask, told, overdue, returning,
                     offered, fate>>
  BY DEF CleanUnlink, Timed, answers, fixed, past
<1>3. /\ modLock = Cleaner /\ modLock' = Cleaner /\ orphan = {} /\ Cleaner \in Procs
      /\ Cleaner \notin Click /\ Click \subseteq Procs
      /\ \A e \in Base : Claimed(e) <=> doing[Cleaner] = "noticed" /\ e \in seen
  BY <1>2, CleanWorks DEF Busy, Idle, Procs
<1>4. doing' = [doing EXCEPT ![Cleaner] = "cleaning"] /\ "cleaning" \in Steps
  <2>1. doing = [doing EXCEPT ![Cleaner] = doing[Cleaner]]  BY <1>1 DEF ModerateTypeOK
  <2>2. CASE Timed(b) /\ UNCHANGED doing  BY <2>1, <2>2 DEF Timed, Steps
  <2>3. CASE doing' = [doing EXCEPT ![Cleaner] = "cleaning"]  BY <2>3 DEF Steps
  <2>. QED  BY <2>2, <2>3 DEF CleanUnlink
<1>5. \A e \in Base : pending'[e] = IF e = b THEN "none" ELSE pending[e]
  BY <1>1, <1>2 DEF ModerateTypeOK
<1>6. ModerateTypeOK'
  <2>1. doing' \in [Procs -> Steps]  BY <1>1, <1>3, <1>4 DEF ModerateTypeOK
  <2>2. pending' \in [Base -> {"none", "partly", "synced", "exec"}]  BY <1>1, <1>2 DEF ModerateTypeOK
  <2>. QED  BY <1>1, <1>2, <2>1, <2>2 DEF ModerateTypeOK
<1>7. modFaults <= modFaults' /\ \A e \in Base : \A f \in Fates : fate[e][f] <= fate'[e][f]
  BY <1>1, <1>2, WeightNat DEF ModerateTypeOK
<1>8. /\ OneBusy' /\ doing'[Cleaner] = "cleaning"
      /\ \A s \in Store : StoreOK(s)' /\ doing'[s] = doing[s]
      /\ \A q \in Click : ClickOK(q)'
      /\ \A q \in Procs : q # Cleaner => doing[q] \in Idle /\ doing'[q] \in Idle
  BY <1>2, <1>3, <1>4, <1>6, <1>7, ClickStep
\* What has been passed is gone; what goes has timed out, or its author knows.
<1>9. /\ \A e \in seen : e # b => pending[e] = "none"
      /\ b \in overdue
      /\ fate[b]["timeout"] > 0 \/ ~(returning /\ pending[b] = "exec")
  <2>1. CASE Timed(b) /\ ~(returning /\ pending[b] = "exec")
    BY <1>1, <2>1 DEF CleanOK, Timed
  <2>2. CASE doing[Cleaner] = "noticed" /\ b \in seen /\ pending[b] # "none"
    BY <1>1, <2>2 DEF CleanOK
  <2>. QED  BY <2>1, <2>2 DEF CleanUnlink
<1>10. CleanOK'  BY <1>1, <1>2, <1>5, <1>8, <1>9 DEF CleanOK, ModerateTypeOK
<1>11. Names'  BY <1>1, <1>2, <1>5 DEF Names
<1>12. StubsOK'  BY <1>1, <1>2, <1>5, <1>9 DEF StubsOK
<1>13. \A e \in Base : Total(e) \in Nat /\ Total(e)' = Total(e) /\ fate[e]["timeout"] <= Total(e)
  BY <1>1, <1>2, WeightNat DEF Total, Fates
<1>14. PostKept'
  <2>1. ASSUME NEW e \in Base, e \in offered
        PROVE  pending'[e] = "exec" \/ Total(e)' > 0 \/ (~returning /\ e \in overdue)
    <3>1. pending[e] = "exec" \/ Total(e) > 0 \/ (~returning /\ e \in overdue)
      BY <1>1, <2>1 DEF PostKept
    <3>2. fate[b]["timeout"] > 0 => Total(b) > 0
      <4>1. fate[b]["timeout"] \in Nat  BY <1>1 DEF ModerateTypeOK, Fates
      <4>. QED  BY <1>13, <4>1
    <3>3. CASE e = b  BY <1>9, <1>13, <3>1, <3>2, <3>3
    <3>4. CASE e # b  BY <1>5, <1>13, <3>1, <3>4
    <3>. QED  BY <3>3, <3>4
  <2>. QED  BY <1>1, <1>2, <2>1 DEF PostKept, ModerateTypeOK
<1>15. Bounded'
  <2>1. \A e \in Base : Left(e)' <= Left(e) /\ Left(e) \in {0, 1} /\ Left(e)' \in {0, 1}
    <3>1. TAKE e \in Base
    <3>2. CASE e \in seen \/ e = b
      <4>1. Left(e)' = 0  BY <1>5, <1>9, <3>2 DEF Left
      <4>. QED  BY <4>1 DEF Left
    <3>3. CASE e \notin seen /\ e # b
      <4>1. ~Claimed(e) /\ pending'[e] = pending[e]  BY <1>3, <1>5, <3>3
      <4>. QED  BY <4>1 DEF Left
    <3>. QED  BY <3>2, <3>3
  <2>2. \A e \in Base : Orphaned(e) = 0 /\ Orphaned(e)' = 0  BY <1>2, <1>3 DEF Orphaned
  <2>3. \A e \in Base : Weight(e)' <= Weight(e)  BY <1>13, <2>1, <2>2 DEF Weight
  <2>. QED  BY <1>1, <1>2, <1>6, <1>7, <1>8, <2>3, BoundedLess
<1>. QED  BY <1>6, <1>8, <1>10, <1>11, <1>12, <1>14, <1>15 DEF ModerateInv

LEMMA CleanStubsSafe ==
  ASSUME ModerateInv, CleanStubs
  PROVE  ModerateInv'
<1>1. /\ ModerateTypeOK /\ OneBusy /\ Names /\ StubsOK /\ PostKept /\ Bounded /\ CleanOK
  BY DEF ModerateInv
<1>2. /\ doing[Cleaner] = "cleaning" /\ doing' = [doing EXCEPT ![Cleaner] = "start"]
      /\ stubs' = [b \in Base |-> IF b \in overdue THEN {} ELSE stubs[b]]
      /\ UNCHANGED <<orphan, pending, postOf, seen, modFaults, ask, told, overdue, returning, offered,
                     fate>>
  BY DEF CleanStubs, Goes, answers, fixed, past
<1>3. /\ modLock = Cleaner /\ orphan = {} /\ Cleaner \in Procs
      /\ Cleaner \notin Click /\ Click \subseteq Procs
      /\ \A e \in Base : Claimed(e) <=> doing[Cleaner] = "noticed" /\ e \in seen
  BY <1>2, CleanWorks DEF Busy, Idle, Procs
<1>4. "start" \in Steps /\ "start" \in Idle  BY DEF Steps, Idle
<1>5. ModerateTypeOK'
  <2>1. doing' \in [Procs -> Steps]  BY <1>1, <1>2, <1>3, <1>4 DEF ModerateTypeOK
  <2>2. stubs' \in [Base -> SUBSET Act]  BY <1>1, <1>2 DEF ModerateTypeOK
  <2>. QED  BY <1>1, <1>2, <2>1, <2>2 DEF ModerateTypeOK
<1>6. modFaults <= modFaults' /\ \A e \in Base : \A f \in Fates : fate[e][f] <= fate'[e][f]
  BY <1>1, <1>2, WeightNat DEF ModerateTypeOK
<1>7. /\ OneBusy' /\ doing'[Cleaner] = "start"
      /\ \A s \in Store : StoreOK(s)' /\ doing'[s] = doing[s]
      /\ \A q \in Click : ClickOK(q)'
      /\ \A q \in Procs : q # Cleaner => doing[q] \in Idle /\ doing'[q] \in Idle
  BY <1>2, <1>3, <1>4, <1>5, <1>6, ClickStep
<1>8. CleanOK'  BY <1>7 DEF CleanOK
<1>9. Names' /\ StubsOK' /\ PostKept'  BY <1>1, <1>2 DEF Names, StubsOK, PostKept, Total
<1>10. Bounded'
  <2>1. \A e \in Base : ~Claimed(e) /\ ~Claimed(e)'
    BY <1>2, <1>3, <1>7 DEF Claimed, Idle
  <2>2. \A e \in Base : Weight(e)' <= Weight(e)
    BY <1>1, <1>2, <1>3, <1>5, <2>1, Unclaimed DEF Total
  <2>. QED  BY <1>1, <1>2, <1>5, <1>6, <1>7, <2>2, BoundedLess
<1>. QED  BY <1>5, <1>7, <1>8, <1>9, <1>10 DEF ModerateInv

\* A failure pays for one more name.
LEMMA BoundedFault ==
  ASSUME ModerateTypeOK, ModerateTypeOK', Bounded, postOf' = postOf, modFaults' = modFaults + 1,
         \A b \in Base : Weight(b)' <= Weight(b)
  PROVE  Bounded'
<1>1. modFaults \in Nat  BY DEF ModerateTypeOK
<1>2. \A b \in Base : Weight(b) \in Nat  BY WeightNat DEF Weight
<1>3. \A b \in Base : Weight(b)' \in Nat
  <2>1. TAKE b \in Base
  <2>2. /\ fate'[b]["accept"] \in Nat /\ fate'[b]["reject"] \in Nat
        /\ fate'[b]["timeout"] \in Nat
    BY DEF ModerateTypeOK, Fates, Act
  <2>. QED  BY <2>2 DEF Total, Left, Orphaned, Weight
<1>. DEFINE W(b) == Weight(b)   V(b) == Weight(b)'   A(s) == Again(s)   B(s) == Again(s)'
<1>4. ASSUME NEW b \in Base, NEW c \in Base, postOf[b] = postOf[c], postOf[b] # Nobody
      PROVE  IF b = c THEN V(b) + B(postOf[b]) <= 1 + modFaults'
                      ELSE V(b) + V(c) + B(postOf[b]) <= 1 + modFaults'
  <2>1. IF b = c THEN W(b) + A(postOf[b]) <= 1 + modFaults
                 ELSE W(b) + W(c) + A(postOf[b]) <= 1 + modFaults
    BY <1>4 DEF Bounded
  <2>2. /\ W(b) \in Nat /\ W(c) \in Nat /\ V(b) \in Nat /\ V(c) \in Nat
        /\ V(b) <= W(b) /\ V(c) <= W(c)
    BY <1>2, <1>3
  <2>3. A(postOf[b]) \in {0, 1} /\ B(postOf[b]) \in {0, 1}  BY DEF Again
  <2>. HIDE DEF W, V, A, B
  <2>. QED  BY <1>1, <2>1, <2>2, <2>3
<1>. QED  BY <1>4 DEF Bounded

LEMMA StoreDies ==
  ASSUME ModerateInv, NEW s \in Store, Dies(s)
  PROVE  ModerateInv'
<1>1. /\ ModerateTypeOK /\ OneBusy /\ Names /\ StubsOK /\ PostKept /\ Bounded /\ StoreOK(s)
  BY DEF ModerateInv
<1>2. s # Cleaner /\ s \notin Click /\ s \in Procs /\ s # Nobody
  BY ModerateAssumption DEF Procs, Nobody
<1>3. /\ modLock = s /\ doing' = [doing EXCEPT ![s] = "start"]
      /\ modFaults' = modFaults + 1 /\ seen' = seen
      /\ UNCHANGED <<orphan, pending, stubs, postOf, ask, told, overdue, returning, fate>>
  BY <1>2 DEF Dies, Fault, files, answers, fixed, past
<1>4. \/ offered' = offered
      \/ doing[s] = "mailing" /\ offered' = offered \union {b \in Base : Own(s, b)}
  BY <1>2, <1>3 DEF Dies, past, Mine, Own
<1>5. "start" \in Steps /\ "start" \in Idle  BY DEF Steps, Idle
<1>6. ModerateTypeOK'
  <2>1. doing' \in [Procs -> Steps]  BY <1>1, <1>2, <1>3, <1>5 DEF ModerateTypeOK
  <2>2. offered' \subseteq Base /\ offered \subseteq offered'  BY <1>1, <1>4 DEF ModerateTypeOK
  <2>3. modFaults' \in Nat  BY <1>1, <1>3 DEF ModerateTypeOK
  <2>. QED  BY <1>1, <1>3, <2>1, <2>2, <2>3 DEF ModerateTypeOK
<1>7. modFaults <= modFaults' /\ UNCHANGED <<answers, fixed>>
  BY <1>1, <1>3 DEF ModerateTypeOK, answers, fixed
<1>8. /\ OneBusy' /\ doing'[s] = "start"
      /\ \A q \in Store : q # s => StoreOK(q)' /\ doing'[q] = doing[q]
      /\ \A c \in Click : ClickOK(c)'
      /\ CleanOK'
      /\ \A b \in Base : ~Claimed(b) /\ ~Claimed(b)' /\ b \notin orphan /\ b \notin orphan'
      /\ \A b \in Base : Total(b)' = Total(b)
  BY <1>3, <1>5, <1>6, <1>7, StoreStep
<1>9. StoreOK(s)'  BY <1>8 DEF StoreOK
<1>10. \A b \in offered' \ offered : Own(s, b) /\ pending[b] = "exec"
  BY <1>1, <1>4 DEF StoreOK
<1>11. Names'  BY <1>1, <1>2, <1>3, <1>10 DEF Names, Own
<1>12. StubsOK'  BY <1>1, <1>3 DEF StubsOK, ModerateTypeOK
<1>13. PostKept'  BY <1>1, <1>3, <1>8, <1>10 DEF PostKept, ModerateTypeOK, Total
<1>14. Bounded'
  <2>1. \A b \in Base : Weight(b)' <= Weight(b)  BY <1>1, <1>3, <1>6, <1>8, Unclaimed
  <2>. QED  BY <1>1, <1>3, <1>6, <2>1, BoundedFault
<1>. QED  BY <1>6, <1>8, <1>9, <1>11, <1>12, <1>13, <1>14 DEF ModerateInv

LEMMA ClickDies ==
  ASSUME ModerateInv, NEW c \in Click, Dies(c)
  PROVE  ModerateInv'
<1>. DEFINE b == ask[c].base   a == ask[c].act
<1>1. /\ ModerateTypeOK /\ OneBusy /\ Names /\ StubsOK /\ PostKept /\ Bounded /\ ClickOK(c)
  BY DEF ModerateInv
<1>2. /\ c # Cleaner /\ c \notin Store /\ c \in Procs /\ c # "none" /\ c # "ezmlm-send"
      /\ Click \subseteq Procs /\ Cleaner \in Procs
  BY ModerateAssumption DEF Procs
<1>3. /\ modLock = c /\ doing' = [doing EXCEPT ![c] = "start"]
      /\ modFaults' = modFaults + 1 /\ seen' = seen
      /\ UNCHANGED <<orphan, pending, stubs, postOf, ask, told, overdue, returning, offered>>
  BY <1>2 DEF Dies, Fault, files, answers, fixed, past
<1>4. \/ fate' = fate
      \/ doing[c] \in {"accepting", "rejecting"} /\ fate' = [fate EXCEPT ![b][a] = @ + 1]
  BY <1>2 DEF Dies, past
<1>5. "start" \in Steps /\ "start" \in Idle  BY DEF Steps, Idle
<1>6. doing[c] \in {"accepting", "rejecting"} =>
        b \in Base /\ a \in Fates /\ postOf[b] # Nobody
  BY <1>3, ClickWorks DEF Busy, Idle, Fates
<1>7. /\ fate' \in [Base -> [Fates -> Nat]]
      /\ \A e \in Base : \A f \in Fates : fate[e][f] <= fate'[e][f]
      /\ \A e \in Base : Total(e) \in Nat
      /\ \A e \in Base : Total(e)' = Total(e) \/ 
           (doing[c] \in {"accepting", "rejecting"} /\ e = b /\ Total(e)' = Total(e) + 1)
      /\ \A e \in Base : postOf[e] = Nobody => fate'[e] = fate[e]
  <2>1. CASE fate' = fate
    <3>1. \A e \in Base : Total(e)' = Total(e)  BY <2>1 DEF Total
    <3>. QED  BY <1>1, <2>1, <3>1, WeightNat DEF ModerateTypeOK
  <2>2. CASE doing[c] \in {"accepting", "rejecting"} /\ fate' = [fate EXCEPT ![b][a] = @ + 1]
    <3>. HIDE DEF a, b
    <3>1. /\ fate' \in [Base -> [Fates -> Nat]]
          /\ \A e \in Base : \A f \in Fates : fate[e][f] <= fate'[e][f]
          /\ \A e \in Base : Total(e) \in Nat /\ Total(e)' = Total(e) + (IF e = b THEN 1 ELSE 0)
      BY <1>1, <1>6, <2>2, FateUp
    <3>2. \A e \in Base : e # b => fate'[e] = fate[e]  BY <1>1, <1>6, <2>2 DEF ModerateTypeOK
    <3>. QED  BY <1>6, <2>2, <3>1, <3>2
  <2>. QED  BY <1>4, <2>1, <2>2
<1>. HIDE DEF a
<1>8. ModerateTypeOK'
  <2>1. doing' \in [Procs -> Steps]  BY <1>1, <1>2, <1>3, <1>5 DEF ModerateTypeOK
  <2>2. modFaults' \in Nat  BY <1>1, <1>3 DEF ModerateTypeOK
  <2>. QED  BY <1>1, <1>3, <1>7, <2>1, <2>2 DEF ModerateTypeOK
<1>9. modFaults \in Nat /\ modFaults <= modFaults'  BY <1>1, <1>3 DEF ModerateTypeOK
<1>10. /\ OneBusy' /\ orphan = {} /\ doing'[c] = "start"
       /\ \A s \in Store : StoreOK(s)' /\ doing'[s] = doing[s]
       /\ \A q \in Click : q # c => ClickOK(q)'
       /\ CleanOK'
       /\ \A q \in Procs : q # c => doing[q] \in Idle /\ doing'[q] \in Idle
  BY <1>2, <1>3, <1>5, <1>7, <1>8, <1>9, ClickStep
<1>11. ClickOK(c)'
  BY <1>1, <1>3, <1>5, <1>7, <1>8, <1>9, <1>10, StillOK
<1>12. Names'
  BY <1>1, <1>3, <1>7 DEF Names
<1>13. StubsOK' /\ PostKept'  BY <1>1, <1>3, <1>7, <1>8, <1>9, Grown
<1>14. Bounded'
  <2>1. \A e \in Base : Claimed(e) <=> e = b /\ doing[c] \in {"stub", "unlink"}
    BY <1>2, <1>10 DEF Claimed, Idle
  <2>2. \A e \in Base : ~Claimed(e)'
    BY <1>2, <1>5, <1>10 DEF Claimed, Idle
  <2>3. \A e \in Base : Weight(e)' <= Weight(e) + (IF e = b THEN modFaults' - modFaults ELSE 0)
    <3>1. TAKE e \in Base
    <3>2. Orphaned(e) = 0 /\ Orphaned(e)' = 0  BY <1>3, <1>10 DEF Orphaned
    <3>3. Left(e) \in {0, 1} /\ Left(e)' \in {0, 1}  BY DEF Left
    <3>4. e # b \/ doing[c] \notin {"stub", "unlink"} => Left(e)' = Left(e)
      BY <1>3, <2>1, <2>2 DEF Left
    <3>5. Total(e) \in Nat /\ (Total(e)' = Total(e) \/ 
           (doing[c] \in {"accepting", "rejecting"} /\ e = b /\ Total(e)' = Total(e) + 1))
      BY <1>7
    <3>. HIDE DEF b
    <3>6. CASE e = b /\ doing[c] \in {"stub", "unlink"}
      <4>1. Total(e)' = Total(e)  BY <3>5, <3>6
      <4>. QED  BY <1>3, <1>9, <3>2, <3>3, <3>5, <3>6, <4>1 DEF Weight
    <3>7. CASE e # b \/ doing[c] \notin {"stub", "unlink"}
      BY <1>3, <1>9, <3>2, <3>3, <3>4, <3>5, <3>7 DEF Weight
    <3>. QED  BY <3>6, <3>7
  <2>4. \A s \in Store : doing'[s] = "start" => doing[s] = "start"  BY <1>10
  <2>. HIDE DEF b
  <2>. QED  BY <1>1, <1>3, <1>8, <1>9, <2>3, <2>4, BoundedStays
<1>. QED  BY <1>8, <1>10, <1>11, <1>12, <1>13, <1>14 DEF ModerateInv

LEMMA CleanDies ==
  ASSUME ModerateInv, Dies(Cleaner)
  PROVE  ModerateInv'
<1>1. /\ ModerateTypeOK /\ OneBusy /\ Names /\ StubsOK /\ PostKept /\ Bounded /\ CleanOK
  BY DEF ModerateInv
<1>2. Cleaner \notin Click /\ Cleaner \notin Store /\ Click \subseteq Procs /\ Cleaner \in Procs
  BY ModerateAssumption DEF Procs
<1>3. /\ modLock = Cleaner /\ doing' = [doing EXCEPT ![Cleaner] = "start"]
      /\ modFaults' = modFaults + 1 /\ seen' = {}
      /\ UNCHANGED <<orphan, pending, stubs, postOf, ask, told, overdue, returning, offered, fate>>
  BY <1>2 DEF Dies, Fault, files, answers, fixed, past
<1>4. "start" \in Steps /\ "start" \in Idle  BY DEF Steps, Idle
<1>5. ModerateTypeOK'
  <2>1. doing' \in [Procs -> Steps]  BY <1>1, <1>2, <1>3, <1>4 DEF ModerateTypeOK
  <2>2. modFaults' \in Nat  BY <1>1, <1>3 DEF ModerateTypeOK
  <2>. QED  BY <1>1, <1>3, <2>1, <2>2 DEF ModerateTypeOK
<1>6. modFaults \in Nat /\ modFaults <= modFaults'  BY <1>1, <1>3 DEF ModerateTypeOK
<1>7. \A e \in Base : \A f \in Fates : fate[e][f] <= fate'[e][f]  BY <1>1, <1>3, WeightNat
<1>8. /\ OneBusy' /\ orphan = {} /\ doing'[Cleaner] = "start"
      /\ \A s \in Store : StoreOK(s)' /\ doing'[s] = doing[s]
      /\ \A q \in Click : ClickOK(q)'
      /\ \A q \in Procs : q # Cleaner => doing[q] \in Idle /\ doing'[q] \in Idle
  BY <1>2, <1>3, <1>4, <1>5, <1>6, <1>7, ClickStep
<1>9. CleanOK'  BY <1>8 DEF CleanOK
<1>10. Names'  BY <1>1, <1>3 DEF Names
<1>11. StubsOK' /\ PostKept'  BY <1>1, <1>3, <1>5, <1>6, <1>7, Grown
<1>12. Bounded'
  <2>1. \A e \in Base : Claimed(e) <=> doing[Cleaner] = "noticed" /\ e \in seen
    BY <1>2, <1>8 DEF Claimed, Idle
  <2>2. \A e \in Base : ~Claimed(e)'
    BY <1>2, <1>4, <1>8 DEF Claimed, Idle
  <2>3. PICK z : \A e \in Base : pending[e] # "none" /\ Claimed(e) => e = z
    BY <1>1, <2>1 DEF CleanOK
  <2>4. \A e \in Base : Weight(e)' <= Weight(e) + (IF e = z THEN modFaults' - modFaults ELSE 0)
    <3>1. TAKE e \in Base
    <3>2. Orphaned(e) = 0 /\ Orphaned(e)' = 0  BY <1>3, <1>8 DEF Orphaned
    <3>3. Left(e) \in {0, 1} /\ Left(e)' \in {0, 1}  BY DEF Left
    <3>4. e # z => Left(e)' = Left(e)  BY <1>3, <2>2, <2>3 DEF Left
    <3>5. Total(e) \in Nat /\ Total(e)' = Total(e)  BY <1>1, <1>3, WeightNat DEF Total
    <3>. QED  BY <1>3, <1>6, <3>2, <3>3, <3>4, <3>5 DEF Weight
  <2>5. \A s \in Store : doing'[s] = "start" => doing[s] = "start"  BY <1>8
  <2>. QED  BY <1>1, <1>3, <1>5, <1>6, <2>4, <2>5, BoundedStays
<1>. QED  BY <1>5, <1>8, <1>9, <1>10, <1>11, <1>12 DEF ModerateInv

\* ezmlm-send goes on, and may still bring the post to the list.
LEMMA OrphanSendSafe ==
  ASSUME ModerateInv, NEW c \in Click, OrphanSend(c)
  PROVE  ModerateInv'
<1>. DEFINE b == ask[c].base
<1>1. /\ ModerateTypeOK /\ OneBusy /\ Names /\ StubsOK /\ PostKept /\ Bounded
      /\ \A q \in Click : ClickOK(q)
  BY DEF ModerateInv
<1>2. /\ modLock = c /\ doing[c] = "accepting" /\ doing' = [doing EXCEPT ![c] = "start"]
      /\ modFaults' = modFaults + 1 /\ modLock' = "ezmlm-send" /\ orphan' = {b}
      /\ UNCHANGED <<seen, pending, stubs, postOf, ask, told, overdue, returning, offered, fate>>
  BY DEF OrphanSend, Goes, Fault, files, answers, fixed, past
<1>3. /\ b \in Base /\ b \in offered /\ c \in Procs /\ c # Cleaner /\ orphan = {}
      /\ \A q \in Procs : q # c => doing[q] \in Idle
      /\ \A e \in Base : Claimed(e) <=> e = b /\ doing[c] \in {"stub", "unlink"}
  BY <1>2, ClickWorks DEF Busy, Idle
<1>4. "start" \in Steps /\ "start" \in Idle  BY DEF Steps, Idle
<1>. HIDE DEF b
<1>5. doing' \in [Procs -> Steps] /\ \A q \in Procs : doing'[q] \in Idle
  BY <1>1, <1>2, <1>3, <1>4 DEF ModerateTypeOK
<1>6. ModerateTypeOK'
  <2>1. modFaults' \in Nat  BY <1>1, <1>2 DEF ModerateTypeOK
  <2>. QED  BY <1>1, <1>2, <1>3, <1>5, <2>1 DEF ModerateTypeOK
<1>7. modFaults \in Nat /\ modFaults <= modFaults'  BY <1>1, <1>2 DEF ModerateTypeOK
<1>8. \A e \in Base : \A f \in Fates : fate[e][f] <= fate'[e][f]  BY <1>1, <1>2, WeightNat
<1>9. OneBusy'  BY <1>2, <1>5 DEF OneBusy, Busy
<1>10. CleanOK' /\ (\A s \in Store : StoreOK(s)') /\ (\A q \in Click : ClickOK(q)')
  <2>1. \A q \in Store \union Click \union {Cleaner} : doing'[q] \in Idle  BY <1>5 DEF Procs
  <2>. QED  BY <1>1, <1>2, <1>6, <1>7, <1>8, <2>1, StillOK
<1>11. Names'  BY <1>1, <1>2 DEF Names
<1>12. StubsOK' /\ PostKept'  BY <1>1, <1>2, <1>6, <1>7, <1>8, Grown
<1>13. Bounded'
  <2>1. \A e \in Base : ~Claimed(e) /\ ~Claimed(e)'
    BY <1>2, <1>3, <1>5 DEF Claimed, Idle, Procs
  <2>2. \A e \in Base : Weight(e)' <= Weight(e) + (IF e = b THEN modFaults' - modFaults ELSE 0)
    <3>1. TAKE e \in Base
    <3>2. Orphaned(e) = 0 /\ Orphaned(e)' = IF e = b THEN 1 ELSE 0  BY <1>2, <1>3 DEF Orphaned
    <3>3. Left(e) \in {0, 1} /\ Left(e)' = Left(e)  BY <1>2, <2>1 DEF Left
    <3>4. Total(e) \in Nat /\ Total(e)' = Total(e)  BY <1>1, <1>2, WeightNat DEF Total
    <3>. QED  BY <1>2, <1>7, <3>2, <3>3, <3>4 DEF Weight
  <2>3. \A s \in Store : doing'[s] = "start" => doing[s] = "start"
    <3>1. \A s \in Store : s # c /\ s \in Procs  BY ModerateAssumption DEF Procs
    <3>. QED  BY <1>1, <1>2, <3>1 DEF ModerateTypeOK
  <2>. QED  BY <1>1, <1>2, <1>6, <1>7, <2>2, <2>3, BoundedStays
<1>. QED  BY <1>6, <1>9, <1>10, <1>11, <1>12, <1>13 DEF ModerateInv

LEMMA OrphanEndsSafe ==
  ASSUME ModerateInv, NEW b \in Base, OrphanEnds(b)
  PROVE  ModerateInv'
<1>1. /\ ModerateTypeOK /\ OneBusy /\ Names /\ StubsOK /\ PostKept /\ Bounded
      /\ \A q \in Click : ClickOK(q)
  BY DEF ModerateInv
<1>2. /\ b \in orphan /\ orphan' = {} /\ modLock' = "none"
      /\ UNCHANGED <<doing, seen, offered, modFaults, pending, stubs, postOf, ask, told, overdue,
                     returning>>
  BY DEF OrphanEnds, Unlock, files, answers, fixed
<1>3. fate' = fate \/ fate' = [fate EXCEPT ![b]["accept"] = @ + 1]  BY DEF OrphanEnds
<1>4. \A q \in Procs : doing[q] \in Idle
  <2>1. "ezmlm-send" \notin Procs  BY ModerateAssumption DEF Procs
  <2>. QED  BY <1>1, <1>2, <2>1 DEF OneBusy, Busy
<1>5. postOf[b] # Nobody  BY <1>1, <1>2 DEF Names, ModerateTypeOK
<1>6. /\ fate' \in [Base -> [Fates -> Nat]]
      /\ \A e \in Base : \A f \in Fates : fate[e][f] <= fate'[e][f]
      /\ \A e \in Base : Total(e) \in Nat
      /\ \A e \in Base : Total(e)' = Total(e) \/ (e = b /\ Total(e)' = Total(e) + 1)
      /\ \A e \in Base : postOf[e] = Nobody => fate'[e] = fate[e]
  <2>1. CASE fate' = fate
    <3>1. \A e \in Base : Total(e)' = Total(e)  BY <2>1 DEF Total
    <3>. QED  BY <1>1, <2>1, <3>1, WeightNat DEF ModerateTypeOK
  <2>2. CASE fate' = [fate EXCEPT ![b]["accept"] = @ + 1]
    <3>0. "accept" \in Fates  BY DEF Fates, Act
    <3>1. /\ fate' \in [Base -> [Fates -> Nat]]
          /\ \A e \in Base : \A f \in Fates : fate[e][f] <= fate'[e][f]
          /\ \A e \in Base : Total(e) \in Nat /\ Total(e)' = Total(e) + (IF e = b THEN 1 ELSE 0)
      BY <1>1, <2>2, <3>0, FateUp
    <3>2. \A e \in Base : e # b => fate'[e] = fate[e]  BY <1>1, <2>2 DEF ModerateTypeOK
    <3>. QED  BY <1>5, <2>2, <3>1, <3>2
  <2>. QED  BY <1>3, <2>1, <2>2
<1>7. ModerateTypeOK'  BY <1>1, <1>2, <1>6 DEF ModerateTypeOK
<1>8. modFaults <= modFaults'  BY <1>1, <1>2 DEF ModerateTypeOK
<1>9. OneBusy'  BY <1>2, <1>4 DEF OneBusy, Busy
<1>10. CleanOK' /\ (\A s \in Store : StoreOK(s)') /\ (\A q \in Click : ClickOK(q)')
  <2>1. \A q \in Store \union Click \union {Cleaner} : doing'[q] \in Idle  BY <1>2, <1>4 DEF Procs
  <2>. QED  BY <1>1, <1>2, <1>6, <1>7, <1>8, <2>1, StillOK
<1>11. Names'  BY <1>1, <1>2, <1>6 DEF Names
<1>12. StubsOK' /\ PostKept'  BY <1>1, <1>2, <1>6, <1>7, <1>8, Grown
<1>13. Bounded'
  <2>1. \A e \in Base : Weight(e)' <= Weight(e)
    <3>1. TAKE e \in Base
    <3>2. Orphaned(e)' = 0 /\ Orphaned(e) \in {0, 1} /\ (e = b => Orphaned(e) = 1)
      BY <1>2 DEF Orphaned
    <3>3. Claimed(e)' <=> Claimed(e)  BY <1>2 DEF Claimed
    <3>4. Left(e) \in {0, 1} /\ Left(e)' = Left(e)  BY <1>2, <3>3 DEF Left
    <3>. QED  BY <1>6, <3>2, <3>4 DEF Weight
  <2>2. \A s \in Store : doing'[s] = "start" => doing[s] = "start"  BY <1>2
  <2>. QED  BY <1>1, <1>2, <1>7, <1>8, <2>1, <2>2, BoundedLess
<1>. QED  BY <1>7, <1>9, <1>10, <1>11, <1>12, <1>13 DEF ModerateInv

LEMMA ModerateStepSafe == ASSUME ModerateInv, [ModerateNext]_modVars PROVE ModerateInv'
<1>1. ASSUME NEW s \in Store, NEW b \in Base, StoreOpen(s, b) PROVE ModerateInv'
  BY <1>1, StoreOpenSafe
<1>2. ASSUME NEW s \in Store, NEW b \in Base,
             StoreSync(s, b) \/ StoreRefuse(s, b) \/ StoreChmod(s, b) \/ StoreMail(s, b)
      PROVE  ModerateInv'
  BY <1>2, StoreMoves
<1>3. ASSUME NEW p \in Store \union Click \union {Cleaner}, Dies(p) PROVE ModerateInv'
  BY <1>3, StoreDies, ClickDies, CleanDies
<1>4. ASSUME NEW c \in Click, NEW b \in Base, NEW a \in Act, ClickLock(c, b, a) PROVE ModerateInv'
  BY <1>4, ClickLockSafe
<1>5. ASSUME NEW c \in Click,
             \/ ClickLook(c) \/ ClickDo(c) \/ ClickRefused(c) \/ ClickStub(c)
             \/ ClickUnlink(c) \/ OrphanSend(c)
      PROVE  ModerateInv'
  BY <1>5, ClickLookSafe, ClickDoSafe, ClickRefusedSafe, ClickStubSafe, ClickUnlinkSafe,
     OrphanSendSafe
<1>6. ASSUME NEW b \in Base, Overdue(b) \/ OrphanEnds(b) \/ CleanNotice(b) \/ CleanUnlink(b)
      PROVE  ModerateInv'
  BY <1>6, OverdueSafe, OrphanEndsSafe, CleanNoticeSafe, CleanUnlinkSafe
<1>7. CASE CleanLock \/ CleanStubs  BY <1>7, CleanLockSafe, CleanStubsSafe
<1>8. CASE UNCHANGED modVars
  <2>. USE <1>8 DEF modVars, files, answers, fixed, past
  <2>1. ModerateTypeOK' /\ OneBusy' /\ Names' /\ StubsOK'
    BY DEF ModerateInv, ModerateTypeOK, OneBusy, Busy, Names, StubsOK
  <2>2. PostKept' /\ CleanOK'  BY DEF ModerateInv, PostKept, Total, CleanOK
  <2>3. (\A s \in Store : StoreOK(s)') /\ (\A c \in Click : ClickOK(c)')
    BY DEF ModerateInv, StoreOK, Own, ClickOK, Busy
  <2>4. Bounded'
    BY DEF ModerateInv, Bounded, Weight, Total, Left, Orphaned, Again, Claimed
  <2>. QED  BY <2>1, <2>2, <2>3, <2>4 DEF ModerateInv
<1>. QED  BY <1>1, <1>2, <1>3, <1>4, <1>5, <1>6, <1>7, <1>8 DEF ModerateNext

\* ezmlm-store.c, ezmlm-moderate.c, ezmlm-clean.c: a post is sent, rejected or
\* returned once, and once more for each failure at most; it stays in
\* mod/pending until one of them has happened, and a moderator is told the
\* truth; for any posts, answers, deaths and failures.
THEOREM ModerateHolds == ModerateSpec => []ModerateSafe
<1>1. ModerateInit => ModerateInv  BY ModerateInitInv
<1>2. ModerateInv /\ [ModerateNext]_modVars => ModerateInv'  BY ModerateStepSafe
<1>3. ModerateInv => ModerateSafe
  <2>. SUFFICES ASSUME ModerateInv PROVE ModerateSafe  OBVIOUS
  <2>1. ModerateTypeOK /\ Bounded /\ PostKept /\ \A c \in Click : ClickOK(c)  BY DEF ModerateInv
  <2>2. ASSUME NEW b \in Base, NEW c \in Base, postOf[b] = postOf[c], postOf[b] # Nobody
        PROVE  IF b = c THEN Total(b) <= 1 + modFaults ELSE Total(b) + Total(c) <= 1 + modFaults
    <3>1. IF b = c THEN Weight(b) + Again(postOf[b]) <= 1 + modFaults
                   ELSE Weight(b) + Weight(c) + Again(postOf[b]) <= 1 + modFaults
      BY <2>1, <2>2 DEF Bounded
    <3>2. /\ Total(b) \in Nat /\ Left(b) \in {0, 1} /\ Orphaned(b) \in {0, 1}
          /\ Weight(b) = Total(b) + Left(b) + Orphaned(b)
          /\ Total(c) \in Nat /\ Left(c) \in {0, 1} /\ Orphaned(c) \in {0, 1}
          /\ Weight(c) = Total(c) + Left(c) + Orphaned(c)
      BY <2>1, WeightNat
    <3>3. Again(postOf[b]) \in {0, 1}  BY DEF Again
    <3>4. modFaults \in Nat  BY <2>1 DEF ModerateTypeOK
    <3>. QED  BY <3>1, <3>2, <3>3, <3>4
  <2>3. OneFate  BY <2>2 DEF OneFate
  <2>4. ToldTruth  BY <2>1 DEF ToldTruth, ClickOK
  <2>. QED  BY <2>1, <2>3, <2>4 DEF ModerateSafe
<1>. QED  BY <1>1, <1>2, <1>3, PTL DEF ModerateSpec

-----------------------------------------------------------------------------
Cookie == [to : Person, list : List, act : Joins \union Leaves, who : Person, date : Nat]

MembersTypeOK ==
  /\ date \in Nat /\ opt \in Option /\ mailed \subseteq Cookie
  /\ agreed \subseteq [by : Person, list : List, act : Joins \union Leaves, who : Person]

\* Whom ezmlm-manage mails a cookie to, and who has agreed before it does: a
\* subscriber his own, moderators theirs, and only after the subscriber if he
\* has to agree as well; -rc and -wc, and what replaces a bad cookie, are for
\* remote administrators.
CookieOK(k) ==
  /\ k.act \in {"sc", "uc"} => k.to = k.who
  /\ k.act \in {"tc", "rc", "vc", "wc"} => k.to \in Mod
  /\ k.act \in {"rc", "wc"} => opt.remote
  /\ k.act = "tc" => opt.modsub \/ opt.remote
  /\ k.act = "tc" /\ opt.subconf /\ ~opt.remote => SelfSaid(k, {"sc"})
  /\ k.act = "vc" /\ opt.unsubconf /\ ~opt.remote => SelfSaid(k, {"uc"})

ChangeOK(c) ==
  /\ c.add =>
       /\ opt.modsub => ModSaid(c, {"tc", "rc"}) \/ (c.who \in Mod /\ SelfSaid(c, {"sc"}))
       /\ opt.subconf /\ ~opt.modsub =>
            SelfSaid(c, {"sc"}) \/ (opt.remote /\ ModSaid(c, {"tc", "rc"}))
       /\ opt.subconf /\ opt.modsub /\ ~opt.remote => SelfSaid(c, {"sc"})
  /\ ~c.add =>
       /\ opt.unsubmod /\ opt.modsub => ModSaid(c, {"vc", "wc"})
       /\ opt.unsubconf => SelfSaid(c, {"uc"}) \/ (opt.remote /\ ModSaid(c, {"vc", "wc"}))

MembersInv ==
  MembersTypeOK /\ (\A k \in mailed : CookieOK(k)) /\ (\A c \in changed : ChangeOK(c))

\* The editor at work has dir/lock, what he replaces is in place, and what he
\* wrote is in the other file.
EditingOK ==
  /\ \A e \in Editor : editing[e].step \in {"writing", "written"} =>
       /\ editLock = e /\ page = editing[e].old
       /\ temp = [text |-> editing[e].new, whole |-> editing[e].step = "written"]
  /\ ~lost

EditTypeOK ==
  /\ editing \in [Editor -> [step : {"idle", "asked", "writing", "written", "done"},
                             old : Text \union {CHOOSE t \in Text : TRUE},
                             new : Text \union {CHOOSE t \in Text : TRUE}, date : Nat]]
  /\ temp \in [text : Text \union {CHOOSE t \in Text : TRUE}, whole : BOOLEAN]
  /\ page \in Text \union {CHOOSE t \in Text : TRUE}

EditInv == EditTypeOK /\ EditingOK

\* Consent once given is never taken back.
LEMMA StillSaid ==
  ASSUME agreed \subseteq agreed', opt' = opt
  PROVE  /\ \A k \in mailed : CookieOK(k) => CookieOK(k)'
         /\ \A c \in changed : ChangeOK(c) => ChangeOK(c)'
<1>1. \A k \in mailed, acts \in {{"sc"}, {"uc"}} : SelfSaid(k, acts) => SelfSaid(k, acts)'
  BY DEF SelfSaid, Said
<1>2. ASSUME NEW c \in changed, NEW acts
      PROVE  /\ SelfSaid(c, acts) => SelfSaid(c, acts)'
             /\ ModSaid(c, acts) => ModSaid(c, acts)'
  BY DEF SelfSaid, ModSaid, Said
<1>3. \A k \in mailed : CookieOK(k) => CookieOK(k)'
  BY <1>1 DEF CookieOK
<1>4. ASSUME NEW c \in changed, ChangeOK(c) PROVE ChangeOK(c)'
  <2>1. /\ SelfSaid(c, {"sc"}) => SelfSaid(c, {"sc"})'
        /\ SelfSaid(c, {"uc"}) => SelfSaid(c, {"uc"})'
        /\ ModSaid(c, {"tc", "rc"}) => ModSaid(c, {"tc", "rc"})'
        /\ ModSaid(c, {"vc", "wc"}) => ModSaid(c, {"vc", "wc"})'
    BY <1>2
  <2>. QED  BY <1>4, <2>1 DEF ChangeOK
<1>. QED  BY <1>3, <1>4

LEMMA ConfirmSafe ==
  ASSUME MembersInv, agreed \subseteq agreed', opt' = opt, date' = date, NEW l \in List,
         agreed' \subseteq [by : Person, list : List, act : Joins \union Leaves, who : Person],
         NEW act \in Joins \union Leaves, NEW who \in Person, NEW to \in SUBSET Person,
         Confirm(l, act, who, to),
         \A p \in to : CookieOK([to |-> p, list |-> l, act |-> act, who |-> who, date |-> date])'
  PROVE  MembersInv'
<1>1. MembersTypeOK'
  BY DEF MembersInv, MembersTypeOK, Confirm, Cookie
<1>2. \A k \in mailed : CookieOK(k)'  BY StillSaid DEF MembersInv
<1>3. \A k \in mailed' : CookieOK(k)'  BY <1>2 DEF Confirm
<1>4. \A c \in changed' : ChangeOK(c)'  BY StillSaid DEF MembersInv, Confirm
<1>. QED  BY <1>1, <1>3, <1>4 DEF MembersInv

LEMMA ChangeSafe ==
  ASSUME MembersInv, agreed \subseteq agreed', opt' = opt, date' = date, NEW l \in List,
         agreed' \subseteq [by : Person, list : List, act : Joins \union Leaves, who : Person],
         NEW who \in Person, NEW add \in BOOLEAN, Change(l, who, add),
         ChangeOK([list |-> l, who |-> who, add |-> add])'
  PROVE  MembersInv'
<1>1. MembersTypeOK'  BY DEF MembersInv, MembersTypeOK, Change
<1>2. \A k \in mailed' : CookieOK(k)'  BY StillSaid DEF MembersInv, Change
<1>3. \A c \in changed : ChangeOK(c)'  BY StillSaid DEF MembersInv
<1>4. \A c \in changed' : ChangeOK(c)'  BY <1>3 DEF Change
<1>. QED  BY <1>1, <1>2, <1>4 DEF MembersInv

LEMMA AskJoinSafe ==
  ASSUME MembersInv, date' = date, NEW s \in Person, NEW l \in List, NEW who \in Person,
         AskJoin(s, l, who)
  PROVE  MembersInv'
<1>1. /\ opt' = opt /\ agreed' = agreed
      /\ agreed' \subseteq [by : Person, list : List, act : Joins \union Leaves, who : Person]
  BY DEF AskJoin, MembersInv, MembersTypeOK
<1>2. CASE IsMod(s) /\ opt.remote
  <2>1. Confirm(l, "rc", who, {s})  BY <1>2 DEF AskJoin
  <2>2. CookieOK([to |-> s, list |-> l, act |-> "rc", who |-> who, date |-> date])'
    BY <1>1, <1>2 DEF CookieOK, IsMod
  <2>3. "rc" \in Joins \union Leaves  BY DEF Joins
  <2>. QED  BY <1>1, <2>1, <2>2, <2>3, ConfirmSafe
<1>3. CASE ~(IsMod(s) /\ opt.remote) /\ opt.subconf
  <2>1. Confirm(l, "sc", who, {who})  BY <1>3 DEF AskJoin
  <2>2. CookieOK([to |-> who, list |-> l, act |-> "sc", who |-> who, date |-> date])'
    BY DEF CookieOK
  <2>3. "sc" \in Joins \union Leaves  BY DEF Joins
  <2>. QED  BY <1>1, <2>1, <2>2, <2>3, ConfirmSafe
<1>4. CASE ~(IsMod(s) /\ opt.remote) /\ ~opt.subconf /\ opt.modsub
  <2>1. Confirm(l, "tc", who, Mod)  BY <1>4 DEF AskJoin
  <2>2. \A p \in Mod : CookieOK([to |-> p, list |-> l, act |-> "tc", who |-> who, date |-> date])'
    BY <1>1, <1>4 DEF CookieOK
  <2>3. "tc" \in Joins \union Leaves /\ Mod \in SUBSET Person  BY ManageAssumption DEF Joins
  <2>. QED  BY <1>1, <2>1, <2>2, <2>3, ConfirmSafe
<1>5. CASE ~(IsMod(s) /\ opt.remote) /\ ~opt.subconf /\ ~opt.modsub
  <2>1. Change(l, who, TRUE)  BY <1>5 DEF AskJoin
  <2>2. ChangeOK([list |-> l, who |-> who, add |-> TRUE])'  BY <1>1, <1>5 DEF ChangeOK
  <2>. QED  BY <1>1, <2>1, <2>2, ChangeSafe
<1>. QED  BY <1>2, <1>3, <1>4, <1>5

LEMMA AskLeaveSafe ==
  ASSUME MembersInv, date' = date, NEW s \in Person, NEW l \in List, NEW who \in Person,
         AskLeave(s, l, who)
  PROVE  MembersInv'
<1>1. /\ opt' = opt /\ agreed' = agreed
      /\ agreed' \subseteq [by : Person, list : List, act : Joins \union Leaves, who : Person]
  BY DEF AskLeave, MembersInv, MembersTypeOK
<1>2. CASE opt.unsubconf /\ IsMod(s) /\ opt.remote
  <2>1. Confirm(l, "wc", who, {s})  BY <1>2 DEF AskLeave
  <2>2. CookieOK([to |-> s, list |-> l, act |-> "wc", who |-> who, date |-> date])'
    BY <1>1, <1>2 DEF CookieOK, IsMod
  <2>3. "wc" \in Joins \union Leaves  BY DEF Leaves
  <2>. QED  BY <1>1, <2>1, <2>2, <2>3, ConfirmSafe
<1>3. CASE ~(IsMod(s) /\ opt.remote) /\ opt.unsubconf
  <2>1. Confirm(l, "uc", who, {who})  BY <1>3 DEF AskLeave
  <2>2. CookieOK([to |-> who, list |-> l, act |-> "uc", who |-> who, date |-> date])'
    BY DEF CookieOK
  <2>3. "uc" \in Joins \union Leaves  BY DEF Leaves
  <2>. QED  BY <1>1, <2>1, <2>2, <2>3, ConfirmSafe
<1>4. CASE ~opt.unsubconf /\ opt.unsubmod /\ opt.modsub
  <2>1. Confirm(l, "vc", who, Mod)  BY <1>4 DEF AskLeave
  <2>2. \A p \in Mod : CookieOK([to |-> p, list |-> l, act |-> "vc", who |-> who, date |-> date])'
    BY <1>1, <1>4 DEF CookieOK
  <2>3. "vc" \in Joins \union Leaves /\ Mod \in SUBSET Person  BY ManageAssumption DEF Leaves
  <2>. QED  BY <1>1, <2>1, <2>2, <2>3, ConfirmSafe
<1>5. CASE ~opt.unsubconf /\ ~(opt.unsubmod /\ opt.modsub)
  <2>1. Change(l, who, FALSE)  BY <1>5 DEF AskLeave
  <2>2. ChangeOK([list |-> l, who |-> who, add |-> FALSE])'  BY <1>1, <1>5 DEF ChangeOK
  <2>. QED  BY <1>1, <2>1, <2>2, ChangeSafe
<1>. QED  BY <1>2, <1>3, <1>4, <1>5

\* What a cookie that came back says.
LEMMA ReturnedSaid ==
  ASSUME MembersInv, NEW s \in Person, NEW l \in List, NEW k \in mailed, Returned(k, s, l)
  PROVE  /\ opt' = opt /\ agreed \subseteq agreed' /\ k.who \in Person /\ k.to \in Person
         /\ agreed' \subseteq [by : Person, list : List, act : Joins \union Leaves, who : Person]
         /\ [by |-> k.to, list |-> k.list, act |-> k.act, who |-> k.who] \in agreed'
         /\ CookieOK(k) /\ CookieOK(k)'
<1>1. /\ opt' = opt /\ agreed \subseteq agreed'
      /\ [by |-> k.to, list |-> k.list, act |-> k.act, who |-> k.who] \in agreed'
  BY DEF Returned
<1>2. k \in Cookie  BY DEF MembersInv, MembersTypeOK
<1>3. agreed' \subseteq [by : Person, list : List, act : Joins \union Leaves, who : Person]
  BY <1>2 DEF MembersInv, MembersTypeOK, Returned, Cookie
<1>4. CookieOK(k) /\ CookieOK(k)'  BY <1>1, StillSaid DEF MembersInv
<1>. QED  BY <1>1, <1>2, <1>3, <1>4 DEF Cookie

LEMMA SubConfirmSafe ==
  ASSUME MembersInv, date' = date, NEW s \in Person, NEW l \in List, NEW k \in mailed,
         SubConfirm(k, s, l)
  PROVE  MembersInv'
<1>1. k.act = "sc" /\ Returned(k, s, l)  BY DEF SubConfirm
<1>2. /\ opt' = opt /\ agreed \subseteq agreed' /\ k.who \in Person
      /\ agreed' \subseteq [by : Person, list : List, act : Joins \union Leaves, who : Person]
      /\ [by |-> k.to, list |-> k.list, act |-> k.act, who |-> k.who] \in agreed'
      /\ k.to = k.who
  BY <1>1, ReturnedSaid DEF CookieOK
<1>3. CASE ~Hashok(k, l, "sc", k.who)
  <2>1. Confirm(l, "sc", k.who, {k.who})  BY <1>3 DEF SubConfirm
  <2>2. CookieOK([to |-> k.who, list |-> l, act |-> "sc", who |-> k.who, date |-> date])'
    BY DEF CookieOK
  <2>3. "sc" \in Joins \union Leaves  BY DEF Joins
  <2>. QED  BY <1>2, <2>1, <2>2, <2>3, ConfirmSafe
<1>4. CASE Hashok(k, l, "sc", k.who) /\ opt.modsub /\ ~(IsMod(s) /\ s = k.who)
  <2>1. Confirm(l, "tc", k.who, Mod)  BY <1>4 DEF SubConfirm
  <2>2. ASSUME NEW p \in Mod
        PROVE  CookieOK([to |-> p, list |-> l, act |-> "tc", who |-> k.who, date |-> date])'
    <3>1. SelfSaid([to |-> p, list |-> l, act |-> "tc", who |-> k.who, date |-> date], {"sc"})'
      BY <1>1, <1>2, <1>4 DEF SelfSaid, Said, Hashok
    <3>. QED  BY <1>2, <1>4, <3>1 DEF CookieOK
  <2>3. "tc" \in Joins \union Leaves /\ Mod \in SUBSET Person  BY ManageAssumption DEF Joins
  <2>. QED  BY <1>2, <2>1, <2>2, <2>3, ConfirmSafe
<1>5. CASE Hashok(k, l, "sc", k.who) /\ ~(opt.modsub /\ ~(IsMod(s) /\ s = k.who))
  <2>1. Change(l, k.who, TRUE)  BY <1>5 DEF SubConfirm
  <2>2. SelfSaid([list |-> l, who |-> k.who, add |-> TRUE], {"sc"})'
    BY <1>1, <1>2, <1>5 DEF SelfSaid, Said, Hashok
  <2>3. ChangeOK([list |-> l, who |-> k.who, add |-> TRUE])'
    BY <1>2, <1>5, <2>2 DEF ChangeOK, IsMod
  <2>. QED  BY <1>2, <2>1, <2>3, ChangeSafe
<1>. QED  BY <1>3, <1>4, <1>5

LEMMA UnsubConfirmSafe ==
  ASSUME MembersInv, date' = date, NEW s \in Person, NEW l \in List, NEW k \in mailed,
         UnsubConfirm(k, s, l)
  PROVE  MembersInv'
<1>1. k.act = "uc" /\ Returned(k, s, l)  BY DEF UnsubConfirm
<1>2. /\ opt' = opt /\ agreed \subseteq agreed' /\ k.who \in Person
      /\ agreed' \subseteq [by : Person, list : List, act : Joins \union Leaves, who : Person]
      /\ [by |-> k.to, list |-> k.list, act |-> k.act, who |-> k.who] \in agreed'
      /\ k.to = k.who
  BY <1>1, ReturnedSaid DEF CookieOK
<1>3. CASE ~Hashok(k, l, "uc", k.who)
  <2>1. Confirm(l, "uc", k.who, {k.who})  BY <1>3 DEF UnsubConfirm
  <2>2. CookieOK([to |-> k.who, list |-> l, act |-> "uc", who |-> k.who, date |-> date])'
    BY DEF CookieOK
  <2>3. "uc" \in Joins \union Leaves  BY DEF Leaves
  <2>. QED  BY <1>2, <2>1, <2>2, <2>3, ConfirmSafe
<1>4. CASE Hashok(k, l, "uc", k.who) /\ opt.unsubmod /\ opt.modsub
  <2>1. Confirm(l, "vc", k.who, Mod)  BY <1>4 DEF UnsubConfirm
  <2>2. ASSUME NEW p \in Mod
        PROVE  CookieOK([to |-> p, list |-> l, act |-> "vc", who |-> k.who, date |-> date])'
    <3>1. SelfSaid([to |-> p, list |-> l, act |-> "vc", who |-> k.who, date |-> date], {"uc"})'
      BY <1>1, <1>2, <1>4 DEF SelfSaid, Said, Hashok
    <3>. QED  BY <1>2, <1>4, <3>1 DEF CookieOK
  <2>3. "vc" \in Joins \union Leaves /\ Mod \in SUBSET Person  BY ManageAssumption DEF Leaves
  <2>. QED  BY <1>2, <2>1, <2>2, <2>3, ConfirmSafe
<1>5. CASE Hashok(k, l, "uc", k.who) /\ ~(opt.unsubmod /\ opt.modsub)
  <2>1. Change(l, k.who, FALSE)  BY <1>5 DEF UnsubConfirm
  <2>2. SelfSaid([list |-> l, who |-> k.who, add |-> FALSE], {"uc"})'
    BY <1>1, <1>2, <1>5 DEF SelfSaid, Said, Hashok
  <2>3. ChangeOK([list |-> l, who |-> k.who, add |-> FALSE])'
    BY <1>2, <1>5, <2>2 DEF ChangeOK
  <2>. QED  BY <1>2, <2>1, <2>3, ChangeSafe
<1>. QED  BY <1>3, <1>4, <1>5

LEMMA ModConfirmSafe ==
  ASSUME MembersInv, date' = date, NEW s \in Person, NEW l \in List, NEW k \in mailed,
         ModConfirm(k, s, l)
  PROVE  MembersInv'
<1>1. k.act \in {"rc", "tc", "vc", "wc"} /\ Returned(k, s, l)  BY DEF ModConfirm
<1>2. /\ opt' = opt /\ agreed \subseteq agreed' /\ k.who \in Person
      /\ agreed' \subseteq [by : Person, list : List, act : Joins \union Leaves, who : Person]
      /\ [by |-> k.to, list |-> k.list, act |-> k.act, who |-> k.who] \in agreed'
      /\ k.to \in Mod /\ CookieOK(k)'
  BY <1>1, ReturnedSaid DEF CookieOK
<1>3. CASE ~Hashok(k, l, k.act, k.who)
  <2>1. IsMod(s) /\ opt.remote /\ Confirm(l, k.act, k.who, {s})  BY <1>3 DEF ModConfirm
  <2>2. CookieOK([to |-> s, list |-> l, act |-> k.act, who |-> k.who, date |-> date])'
    BY <1>1, <1>2, <2>1 DEF CookieOK, IsMod
  <2>3. k.act \in Joins \union Leaves  BY <1>1 DEF Joins, Leaves
  <2>. QED  BY <1>2, <2>1, <2>2, <2>3, ConfirmSafe
<1>4. CASE Hashok(k, l, k.act, k.who)
  <2>. DEFINE c == [list |-> l, who |-> k.who, add |-> k.act \in Joins]
  <2>1. Change(l, k.who, k.act \in Joins)  BY <1>4 DEF ModConfirm
  <2>2. k.act \in {"tc", "rc"} => ModSaid(c, {"tc", "rc"})'
    BY <1>2, <1>4 DEF ModSaid, Said, Hashok
  <2>3. k.act \in {"vc", "wc"} => ModSaid(c, {"vc", "wc"})'
    BY <1>2, <1>4 DEF ModSaid, Said, Hashok
  <2>4. /\ SelfSaid(k, {"sc"})' => SelfSaid(c, {"sc"})'
        /\ SelfSaid(k, {"uc"})' => SelfSaid(c, {"uc"})'
    BY <1>4 DEF SelfSaid, Said, Hashok
  <2>5. ChangeOK(c)'
    <3>1. CASE k.act \in {"tc", "rc"}
      <4>1. c.add = TRUE  BY <3>1 DEF Joins
      <4>2. ModSaid(c, {"tc", "rc"})'  BY <2>2, <3>1
      <4>3. opt'.subconf /\ ~opt'.modsub => opt'.remote  BY <1>2, <3>1 DEF CookieOK
      <4>4. opt'.subconf /\ opt'.modsub /\ ~opt'.remote => SelfSaid(c, {"sc"})'
        BY <1>2, <2>4, <3>1 DEF CookieOK
      <4>. HIDE DEF c
      <4>. QED  BY <4>1, <4>2, <4>3, <4>4 DEF ChangeOK
    <3>2. CASE k.act \in {"vc", "wc"}
      <4>1. ~c.add  BY <3>2 DEF Joins
      <4>2. ModSaid(c, {"vc", "wc"})'  BY <2>3, <3>2
      <4>3. opt'.unsubconf => opt'.remote \/ SelfSaid(c, {"uc"})'
        BY <1>2, <2>4, <3>2 DEF CookieOK
      <4>. HIDE DEF c
      <4>. QED  BY <4>1, <4>2, <4>3 DEF ChangeOK
    <3>. QED  BY <1>1, <3>1, <3>2
  <2>6. (k.act \in Joins) \in BOOLEAN  OBVIOUS
  <2>. QED  BY <1>2, <2>1, <2>5, <2>6, ChangeSafe
<1>. QED  BY <1>3, <1>4

LEMMA BadConfirmSafe ==
  ASSUME MembersInv, date' = date, NEW act \in Joins \union Leaves, NEW s \in Person, NEW l \in List,
         NEW who \in Person, BadConfirm(act, s, l, who)
  PROVE  MembersInv'
<1>1. /\ opt' = opt /\ agreed' = agreed
      /\ agreed' \subseteq [by : Person, list : List, act : Joins \union Leaves, who : Person]
  BY DEF BadConfirm, MembersInv, MembersTypeOK
<1>2. CASE act \in {"sc", "uc"}
  <2>1. Confirm(l, act, who, {who})  BY <1>2 DEF BadConfirm
  <2>2. CookieOK([to |-> who, list |-> l, act |-> act, who |-> who, date |-> date])'
    BY <1>2 DEF CookieOK
  <2>. QED  BY <1>1, <2>1, <2>2, ConfirmSafe
<1>3. CASE act \notin {"sc", "uc"}
  <2>1. IsMod(s) /\ opt.remote /\ Confirm(l, act, who, {s})  BY <1>3 DEF BadConfirm
  <2>2. CookieOK([to |-> s, list |-> l, act |-> act, who |-> who, date |-> date])'
    BY <1>1, <1>3, <2>1 DEF CookieOK, IsMod
  <2>. QED  BY <1>1, <2>1, <2>2, ConfirmSafe
<1>. QED  BY <1>2, <1>3

LEMMA MembersSafe ==
  ASSUME MembersInv, [MembersNext /\ date' = date]_memberVars, date' = date \/ date' = date + 1,
         ~ UNCHANGED memberVars => date' = date
  PROVE  MembersInv'
<1>1. CASE UNCHANGED memberVars
  <2>1. MembersTypeOK'  BY <1>1 DEF memberVars, MembersInv, MembersTypeOK
  <2>2. (\A k \in mailed' : CookieOK(k)') /\ (\A c \in changed' : ChangeOK(c)')
    BY <1>1, StillSaid DEF memberVars, MembersInv
  <2>. QED  BY <2>1, <2>2 DEF MembersInv
<1>2. CASE MembersNext /\ date' = date
  <2>1. ASSUME NEW s \in Person, NEW l \in List, NEW who \in Person, AskJoin(s, l, who)
        PROVE  MembersInv'
    BY <1>2, <2>1, AskJoinSafe
  <2>2. ASSUME NEW s \in Person, NEW l \in List, NEW who \in Person, AskLeave(s, l, who)
        PROVE  MembersInv'
    BY <1>2, <2>2, AskLeaveSafe
  <2>3. ASSUME NEW s \in Person, NEW l \in List, NEW who \in Person, NEW act \in Joins \union Leaves,
               BadConfirm(act, s, l, who)
        PROVE  MembersInv'
    BY <1>2, <2>3, BadConfirmSafe
  <2>4. ASSUME NEW s \in Person, NEW l \in List, NEW k \in mailed,
               SubConfirm(k, s, l) \/ UnsubConfirm(k, s, l) \/ ModConfirm(k, s, l)
        PROVE  MembersInv'
    BY <1>2, <2>4, SubConfirmSafe, UnsubConfirmSafe, ModConfirmSafe
  <2>. QED  BY <1>2, <2>1, <2>2, <2>3, <2>4 DEF MembersNext
<1>. QED  BY <1>1, <1>2

LEMMA EditSafe ==
  ASSUME EditInv, date \in Nat, [EditNext]_textVars
  PROVE  EditInv'
<1>1. EditTypeOK /\ EditingOK  BY DEF EditInv
<1>2. ASSUME NEW e \in Editor, NEW new \in Text, EditAsk(e, new) PROVE EditInv'
  <2>1. EditTypeOK'  BY <1>1, <1>2 DEF EditAsk, EditTypeOK
  <2>2. EditingOK'  BY <1>1, <1>2 DEF EditAsk, EditTypeOK, EditingOK
  <2>. QED  BY <2>1, <2>2 DEF EditInv
<1>3. ASSUME NEW e \in Editor, EditLock(e) PROVE EditInv'
  <2>0. \A f \in Editor : editing[f].step \notin {"writing", "written"}
    BY <1>1, <1>3, ManageAssumption DEF EditLock, EditingOK
  <2>1. CASE page = editing[e].old
    <3>1. /\ editing' = [editing EXCEPT ![e].step = "writing"] /\ editLock' = e
          /\ temp' = [text |-> editing[e].new, whole |-> FALSE] /\ page' = page /\ lost' = lost
      BY <1>3, <2>1 DEF EditLock
    <3>2. EditTypeOK'  BY <1>1, <3>1 DEF EditTypeOK
    <3>3. /\ editing'[e].step = "writing" /\ editing'[e].new = editing[e].new
          /\ editing'[e].old = editing[e].old
          /\ \A f \in Editor : f # e => editing'[f] = editing[f]
      BY <1>1, <3>1 DEF EditTypeOK
    <3>4. EditingOK'  BY <1>1, <2>0, <2>1, <3>1, <3>3 DEF EditingOK
    <3>. QED  BY <3>2, <3>4 DEF EditInv
  <2>2. CASE page # editing[e].old
    <3>1. /\ editing' = [editing EXCEPT ![e].step = "idle"]
          /\ temp' = temp /\ page' = page /\ lost' = lost
      BY <1>3, <2>2 DEF EditLock
    <3>2. EditTypeOK'  BY <1>1, <3>1 DEF EditTypeOK
    <3>3. /\ editing'[e].step = "idle"
          /\ \A f \in Editor : f # e => editing'[f] = editing[f]
      BY <1>1, <3>1 DEF EditTypeOK
    <3>4. EditingOK'  BY <1>1, <2>0, <3>1, <3>3 DEF EditingOK
    <3>. QED  BY <3>2, <3>4 DEF EditInv
  <2>. QED  BY <2>1, <2>2
<1>4. ASSUME NEW e \in Editor, EditWrite(e) PROVE EditInv'
  <2>1. EditTypeOK'
    <3>1. /\ editing' = [editing EXCEPT ![e].step = "written"]
          /\ temp' = [temp EXCEPT !.whole = TRUE] /\ page' = page
      BY <1>4 DEF EditWrite, Edits
    <3>2. temp'.text = temp.text /\ temp'.whole = TRUE  BY <1>1, <3>1 DEF EditTypeOK
    <3>3. temp' \in [text : Text \union {CHOOSE t \in Text : TRUE}, whole : BOOLEAN]
      BY <1>1, <3>1, <3>2 DEF EditTypeOK
    <3>. QED  BY <1>1, <3>1, <3>3 DEF EditTypeOK
  <2>2. editLock = e /\ temp.text = editing[e].new /\ page = editing[e].old
    BY <1>1, <1>4 DEF EditWrite, Edits, EditingOK
  <2>3. temp' = [text |-> editing[e].new, whole |-> TRUE]
    BY <1>1, <1>4, <2>2 DEF EditWrite, EditTypeOK
  <2>4. \A f \in Editor : f # e => editing[f].step \notin {"writing", "written"}
    BY <1>1, <2>2 DEF EditingOK
  <2>5. /\ editing'[e].step = "written" /\ editing'[e].new = editing[e].new
        /\ editing'[e].old = editing[e].old
        /\ \A f \in Editor : f # e => editing'[f] = editing[f]
        /\ page' = page /\ editLock' = editLock /\ lost' = lost
    BY <1>1, <1>4 DEF EditWrite, Edits, EditTypeOK
  <2>6. EditingOK'  BY <1>1, <2>2, <2>3, <2>4, <2>5 DEF EditingOK
  <2>. QED  BY <2>1, <2>6 DEF EditInv
<1>5. ASSUME NEW e \in Editor, EditRefuse(e) PROVE EditInv'
  <2>1. EditTypeOK'  BY <1>1, <1>5 DEF EditRefuse, Edits, EditTypeOK
  <2>2. EditingOK'  BY <1>1, <1>5 DEF EditRefuse, Edits, EditTypeOK, EditingOK
  <2>. QED  BY <2>1, <2>2 DEF EditInv
<1>6. ASSUME NEW e \in Editor, EditRename(e) PROVE EditInv'
  <2>1. EditTypeOK'  BY <1>1, <1>6 DEF EditRename, Edits, EditTypeOK
  <2>2. editLock = e /\ temp = [text |-> editing[e].new, whole |-> TRUE] /\ page = editing[e].old
    BY <1>1, <1>6 DEF EditRename, Edits, EditingOK
  <2>3. \A f \in Editor : f # e => editing[f].step \notin {"writing", "written"}
    BY <1>1, <2>2 DEF EditingOK
  <2>4. lost' = FALSE  BY <1>1, <1>6, <2>2 DEF EditRename, EditingOK
  <2>5. EditingOK'
    BY <1>1, <1>6, <2>3, <2>4 DEF EditRename, Edits, EditTypeOK, EditingOK
  <2>. QED  BY <2>1, <2>5 DEF EditInv
<1>7. ASSUME NEW e \in Editor, EditDies(e) PROVE EditInv'
  <2>1. EditTypeOK'  BY <1>1, <1>7 DEF EditDies, EditTypeOK
  <2>2. EditingOK'  BY <1>1, <1>7 DEF EditDies, EditTypeOK, EditingOK
  <2>. QED  BY <2>1, <2>2 DEF EditInv
<1>8. CASE UNCHANGED textVars
  BY <1>1, <1>8 DEF textVars, EditInv, EditTypeOK, EditingOK
<1>. QED  BY <1>2, <1>3, <1>4, <1>5, <1>6, <1>7, <1>8 DEF EditNext

\* ezmlm-manage.c: nobody is subscribed or removed without the consent the
\* options ask for, whoever the requests claim to be from, however they are
\* repeated, delayed or sent to the other list; and an edit replaces the text
\* its author saw; for any lists, people, options and texts.
THEOREM ManageHolds == ManageSpec => []ManageSafe
<1>1. ManageInit => MembersInv /\ EditInv
  <2>. SUFFICES ASSUME ManageInit PROVE MembersInv /\ EditInv  OBVIOUS
  <2>1. MembersInv  BY DEF ManageInit, MembersInv, MembersTypeOK
  <2>2. EditTypeOK  BY DEF ManageInit, EditTypeOK
  <2>3. EditingOK  BY DEF ManageInit, EditingOK
  <2>. QED  BY <2>1, <2>2, <2>3 DEF EditInv
<1>2. MembersInv /\ EditInv /\ [ManageNext]_manageVars => (MembersInv /\ EditInv)'
  <2>. SUFFICES ASSUME MembersInv, EditInv, [ManageNext]_manageVars PROVE (MembersInv /\ EditInv)'
    OBVIOUS
  <2>1. MembersInv'
    <3>1. [MembersNext /\ date' = date]_memberVars /\ (date' = date \/ date' = date + 1)
          /\ (~ UNCHANGED memberVars => date' = date)
      BY DEF ManageNext, Tick, manageVars, memberVars
    <3>. QED  BY <3>1, MembersSafe
  <2>2. date \in Nat /\ [EditNext]_textVars
    BY DEF MembersInv, MembersTypeOK, ManageNext, Tick, manageVars
  <2>. QED  BY <2>1, <2>2, EditSafe
<1>3. MembersInv /\ EditInv => ManageSafe
  BY DEF MembersInv, EditInv, EditingOK, ManageSafe, JoinAgreed, LeaveAgreed, EditsKept, ChangeOK
<1>. QED  BY <1>1, <1>2, <1>3, PTL DEF ManageSpec
=============================================================================
