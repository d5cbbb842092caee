-------------------------- MODULE QmailSendProofs ---------------------------
(***************************************************************************)
(* The safety properties of QmailSend, for any number of messages,         *)
(* channels, recipients, slots, jobs and failures, as long as no stat()    *)
(* fails in pqadd (send_pqfail shows what happens then).                   *)
(***************************************************************************)
EXTENDS QmailSend, FiniteSetTheorems, SequenceTheorems,
        WellFoundedInduction, TLAPS

-----------------------------------------------------------------------------
(* A job that is in use, and what its file is about.                       *)
Open(j)  == jo[j].refs > 0
File(j)  == rec[jo[j].chan][jo[j].id]
Reads(j) == pass[jo[j].chan].j = j

(* Who holds a reference to a job.                                         *)
RefSlots(j)  == {cs \in Chan \X (1 .. NumJobs) : cs[2] \in Used(cs[1])
                                                 /\ del[cs[1]][cs[2]].j = j}
RefPasses(j) == {c \in Chan : pass[c].j = j}
References(j) == Cardinality(RefSlots(j)) + Cardinality(RefPasses(j))

(* The stronger types: functions and records all the way down.             *)
JobType  == [refs : Nat, id : Id \cup {None}, chan : Chan \cup {None},
             numtodo : Nat, eof : BOOLEAN, dying : BOOLEAN]
DelType  == [j : 0 .. NumJobs, pos : Nat]
PassType == [id : Id \cup {None}, j : 0 .. NumJobs, pos : Nat]
USE DEF JobType, DelType, PassType
Types ==
  /\ stage \in [Id -> {"todo", "partial", "info", "gone"}]
  /\ rec \in [Chan -> [Id -> Seq({"T", "D"})]]
  /\ \A c \in Chan, i \in Id : Len(rec[c][i]) <= MaxRcpt
  /\ note \subseteq Rcpt /\ bounced \subseteq Rcpt
  /\ delivered \subseteq Rcpt /\ twice \subseteq Rcpt /\ excused \subseteq Rcpt
  /\ pqchan \in [Chan -> [Id -> Nat]] /\ pqdone \in [Id -> Nat]
  /\ pqfail = [i \in Id |-> 0]
  /\ pass \in [Chan -> PassType]
  /\ jo \in [Job -> JobType]
  /\ DOMAIN del = Chan
  /\ \A c \in Chan : del[c] \in [Slot(c) -> DelType]
  /\ comm \in [Chan -> Nat] /\ \A c \in Chan : comm[c] \in 0 .. Conc[c]
  /\ out \in [Chan -> SUBSET Nat] /\ \A c \in Chan : out[c] \subseteq Slot(c)
  /\ DOMAIN rep = Chan /\ \A c \in Chan : rep[c] \subseteq Slot(c) \X Result
  /\ alive \in [Chan -> BOOLEAN] /\ exitasap \in BOOLEAN /\ old \subseteq Id
  /\ size \in [Chan -> [Id -> Nat]]

(* A slot in use and a pass are about an open job of their own channel,    *)
(* whose file is there and is as long as it was written.                   *)
JobOK(j) ==
  /\ jo[j].chan \in Chan /\ jo[j].id \in Id /\ File(j) # <<>>
  /\ jo[j].numtodo <= Len(File(j)) /\ jo[j].refs <= Len(File(j)) + 1
  /\ Reads(j) => /\ ~jo[j].eof /\ pass[jo[j].chan].id = jo[j].id
                 /\ jo[j].numtodo < pass[jo[j].chan].pos
                 /\ jo[j].refs <= pass[jo[j].chan].pos
                 /\ pass[jo[j].chan].pos \in 1 .. Len(File(j)) + 1
PassOK(c) == pass[c].j \in Job /\ Open(pass[c].j) /\ jo[pass[c].j].chan = c
SlotOK(c, s) ==
  LET j == del[c][s].j IN
  /\ Open(j) /\ jo[j].chan = c /\ del[c][s].pos \in 1 .. Len(File(j))
  /\ Reads(j) => del[c][s].pos < pass[c].pos
Live ==
  /\ \A j \in Job : IF Open(j) THEN JobOK(j) ELSE jo[j] = NoJob
  /\ \A c \in Chan : pass[c] # NoPass => PassOK(c)
  /\ \A c \in Chan : \A s \in Used(c) : SlotOK(c, s)

(* A file belongs to a preprocessed message and keeps its length.          *)
Files ==
  /\ \A c \in Chan, i \in Id : rec[c][i] # <<>> =>
       stage[i] = "info" /\ Len(rec[c][i]) = size[c][i]
  /\ \A c \in Chan, i \in Id : stage[i] \in {"todo", "partial"} => size[c][i] = 0

(* No record is in two slots.                                              *)
Distinct ==
  \A c \in Chan : \A s, t \in Used(c) : del[c][s] = del[c][t] => s = t

(* A file with recipients has one entry or one job.                        *)
Placed ==
  /\ \A c \in Chan, i \in Id : pqchan[c][i] <= 1
  /\ \A c \in Chan, i \in Id : pqchan[c][i] = 1 => rec[c][i] # <<>>
  /\ \A j \in Job : Open(j) => pqchan[jo[j].chan][jo[j].id] = 0
  /\ \A j, k \in Job : Open(j) /\ Open(k) /\ jo[j].chan = jo[k].chan /\ jo[j].id = jo[k].id
       => j = k
  /\ spc # "down" => \A c \in Chan, i \in Id : rec[c][i] # <<>> /\ i \notin unclean =>
       pqchan[c][i] = 1 \/ \E j \in Job : Open(j) /\ jo[j].chan = c /\ jo[j].id = i
  /\ spc = "down" => \A j \in Job : ~Open(j)
  /\ spc = "down" => \A c \in Chan, i \in Id : pqchan[c][i] = 0

(* A delivery is in comm_buf, with the spawn program, on its way back or   *)
(* in del_dochan, and in one of these only.                                *)
InHand(c, s) == spc \in {"mark", "close"} /\ cur = <<c, s>>
OneStage ==
  /\ spc \in {"down", "loop", "mark", "close", "inject", "unlink_bounce", "unlink_info"}
  /\ spc \in {"mark", "close"} => \E c \in Chan : \E s \in Used(c) : cur = <<c, s>> /\ alive[c]
  /\ spc \in {"inject", "unlink_bounce", "unlink_info"} =>
       cur \in Id /\ stage[cur] = "info" /\ \A c \in Chan : rec[c][cur] = <<>>
  /\ \A c \in Chan : comm[c] # 0 =>
       /\ comm[c] \in Used(c) /\ comm[c] \notin out[c] /\ ~InHand(c, comm[c])
       /\ \A r \in Result : <<comm[c], r>> \notin rep[c]
  /\ \A c \in Chan : \A s \in out[c] :
       s \in Used(c) /\ ~InHand(c, s) /\ \A r \in Result : <<s, r>> \notin rep[c]
  /\ \A c \in Chan : \A s \in Slot(c) : \A q, r \in Result :
       <<s, r>> \in rep[c] => s \in Used(c) /\ ~InHand(c, s) /\ (<<s, q>> \in rep[c] => q = r)
  /\ \A c \in Chan : ~alive[c] => out[c] = {} /\ rep[c] = {}

(* A slot whose record has not been dealt with: the record is NOT DONE.    *)
Unmarked(c, s) == s \in Used(c) /\ ~(spc = "close" /\ cur = <<c, s>>)
Marks ==
  \A c \in Chan : \A s \in Slot(c) : Unmarked(c, s) =>
    rec[c][jo[del[c][s].j].id][del[c][s].pos] = "T"

(* What numtodo counts at least: the records that were read and are        *)
(* neither DONE nor excused and accounted for.                             *)
Told == delivered \cup note \cup bounced
Upto(j) == IF Reads(j) THEN pass[jo[j].chan].pos - 1
           ELSE IF jo[j].eof THEN Len(File(j)) ELSE 0
Waiting(j, k) ==
  LET x == <<jo[j].chan, jo[j].id, k>> IN
  /\ File(j)[k] = "T"
  /\ \/ k <= Upto(j) /\ ~(x \in excused /\ x \in Told)
     \/ \E s \in Slot(jo[j].chan) : /\ Unmarked(jo[j].chan, s)
                                    /\ del[jo[j].chan][s] = [j |-> j, pos |-> k]
ToDo(j) == {k \in 1 .. Len(File(j)) : Waiting(j, k)}
Counted == \A j \in Job : Open(j) => Cardinality(ToDo(j)) <= jo[j].numtodo

(* Who has got the message has a record that says so, or a report on its   *)
(* way, or is excused.                                                     *)
Pending(x) ==
  \E c \in Chan : \E s \in Used(c) :
    RcptOf(c, s) = x /\ (<<s, "K">> \in rep[c] \/ (spc = "mark" /\ cur = <<c, s>>))
Received ==
  \A c \in Chan, i \in Id, k \in 1 .. MaxRcpt : <<c, i, k>> \in delivered =>
    /\ k \in 1 .. size[c][i]
    /\ \/ <<c, i, k>> \in excused
       \/ rec[c][i] = <<>>
       \/ rec[c][i][k] = "D"
       \/ Pending(<<c, i, k>>)

(* What a report, a mark or the end of a bounce stands for has been done.   *)
Reported ==
  /\ \A c \in Chan : \A s \in Slot(c) : <<s, "K">> \in rep[c] => RcptOf(c, s) \in delivered
  /\ spc = "mark" => RcptOf(cur[1], cur[2]) \in delivered \cup note
  /\ spc = "unlink_bounce" => NotesOf(cur) \subseteq bounced

(* A message without files waits for messdone or is in it.                 *)
Ending ==
  spc # "down" => \A i \in Id : stage[i] = "info" /\ ~HasFile(i) /\ i \notin unclean =>
    pqdone[i] > 0 \/ (spc \in {"inject", "unlink_bounce", "unlink_info"} /\ cur = i)

(* The inductive invariant.                                                *)
IInv ==
  /\ Types /\ JobRefs /\ Live /\ Files /\ Distinct /\ Placed /\ OneStage /\ Marks
  /\ Counted /\ Received /\ TwiceOnlyExcused /\ Reported /\ Accounted /\ Ending

-----------------------------------------------------------------------------
(* Which variables each part is about.                                     *)
LEMMA Frame ==
  ASSUME IInv
  PROVE  /\ UNCHANGED <<jo, del, pass>> => JobRefs'
         /\ UNCHANGED <<jo, del, pass, rec>> => Live'
         /\ UNCHANGED <<stage, rec, size>> => Files'
         /\ UNCHANGED del => Distinct'
         /\ UNCHANGED <<pqchan, rec, jo, spc, unclean>> => Placed'
         /\ UNCHANGED <<spc, cur, comm, out, rep, del, alive, stage, rec>> => OneStage'
         /\ UNCHANGED <<del, jo, rec, spc, cur>> => Marks'
         /\ UNCHANGED <<delivered, size, excused, rec, del, jo, rep, spc, cur>> =>
              Received' /\ (UNCHANGED <<note, bounced>> => Reported')
         /\ UNCHANGED <<size, rec, delivered, note, bounced>> => Accounted'
         /\ UNCHANGED <<stage, rec, pqdone, spc, cur, unclean>> => Ending'
  <1> USE DEF IInv, Used, Slot, Open, File, Reads
  <1>1. UNCHANGED <<jo, del, pass>> => JobRefs'  BY DEF JobRefs
  <1>2. UNCHANGED <<jo, del, pass, rec>> => Live'  BY DEF Live, JobOK, PassOK, SlotOK
  <1>3. UNCHANGED <<stage, rec, size>> => Files'  BY DEF Files
  <1>4. UNCHANGED del => Distinct'  BY DEF Distinct
  <1>5. UNCHANGED <<pqchan, rec, jo, spc, unclean>> => Placed'  BY DEF Placed
  <1>6. UNCHANGED <<spc, cur, comm, out, rep, del, alive, stage, rec>> => OneStage'
    BY DEF OneStage, InHand
  <1>7. UNCHANGED <<del, jo, rec, spc, cur>> => Marks'  BY DEF Marks, Unmarked
  <1>8. UNCHANGED <<delivered, size, excused, rec, del, jo, rep, spc, cur>> => Received'
    <2> SUFFICES ASSUME UNCHANGED <<delivered, size, excused, rec, del, jo, rep, spc, cur>>
                 PROVE  Received'
      OBVIOUS
    <2>1. \A x : Pending(x)' <=> Pending(x)  BY DEF Pending, RcptOf
    <2>2. Received  BY DEF IInv
    <2> HIDE DEF IInv, Used, Slot, Open, File, Reads
    <2> QED  BY <2>1, <2>2 DEF Received
  <1>9. UNCHANGED <<delivered, rec, del, jo, rep, spc, cur, note, bounced>> => Reported'
    BY DEF Reported, RcptOf, NotesOf
  <1>10. UNCHANGED <<size, rec, delivered, note, bounced>> => Accounted'  BY DEF Accounted
  <1>11. UNCHANGED <<stage, rec, pqdone, spc, cur, unclean>> => Ending'  BY DEF Ending, HasFile
  <1> QED  BY <1>1, <1>2, <1>3, <1>4, <1>5, <1>6, <1>7, <1>8, <1>9, <1>10, <1>11

(* numtodo bounds a finite set.                                            *)
LEMMA ToDoFinite ==
  ASSUME IInv, NEW j \in Job, Open(j)
  PROVE  IsFiniteSet(ToDo(j)) /\ Cardinality(ToDo(j)) \in Nat
  <1>1. Len(File(j)) \in Nat
    BY DEF IInv, Live, JobOK, Types, File
  <1>2. IsFiniteSet(1 .. Len(File(j)))  BY <1>1, FS_Interval
  <1>3. ToDo(j) \subseteq 1 .. Len(File(j))  BY DEF ToDo
  <1> QED  BY <1>2, <1>3, FS_Subset, FS_CardinalityType

(* numtodo stays big enough where the records it stands for only get fewer. *)
LEMMA FewerOf ==
  ASSUME IInv, NEW j \in Job, Open(j), jo'[j].numtodo = jo[j].numtodo, ToDo(j)' \subseteq ToDo(j)
  PROVE  Cardinality(ToDo(j)') <= jo'[j].numtodo
  <1>1. IsFiniteSet(ToDo(j)) /\ Cardinality(ToDo(j)) \in Nat  BY ToDoFinite
  <1>2. Cardinality(ToDo(j)') <= Cardinality(ToDo(j)) /\ Cardinality(ToDo(j)') \in Nat
    BY <1>1, FS_Subset, FS_CardinalityType
  <1>3. Cardinality(ToDo(j)) <= jo[j].numtodo /\ jo[j].numtodo \in Nat
    BY DEF IInv, Counted, Types
  <1> QED  BY <1>1, <1>2, <1>3

(* Counted survives a step that leaves numtodo alone and waits for no more. *)
LEMMA FewerToDo ==
  ASSUME IInv,
         \A j \in Job : Open(j)' =>
           Open(j) /\ jo'[j].numtodo = jo[j].numtodo /\ ToDo(j)' \subseteq ToDo(j)
  PROVE  Counted'
  BY FewerOf DEF Counted

(* Counted is about these variables only.                                  *)
LEMMA FrameCounted ==
  ASSUME IInv, UNCHANGED <<jo, rec, pass, del>>,
         excused \subseteq excused', Told \subseteq Told',
         \A c \in Chan : \A s \in Slot(c) : Unmarked(c, s)' => Unmarked(c, s)
  PROVE  Counted'
  <1> SUFFICES ASSUME NEW j \in Job, Open(j) PROVE ToDo(j)' \subseteq ToDo(j)
    BY FewerToDo DEF Open
  <1>1. jo[j].chan \in Chan  BY DEF IInv, Live, JobOK
  <1> QED  BY <1>1 DEF ToDo, Waiting, Upto, Reads, File

-----------------------------------------------------------------------------
(* A qmail-send that starts knows nothing of the one before it.            *)
LEMMA BlankCount ==
  ASSUME \A c \in Chan : pass'[c] = NoPass, \A j \in Job : jo'[j] = NoJob,
         \A c \in Chan : \A s \in Slot(c) : del'[c][s] = NoDel
  PROVE  JobRefs' /\ Counted' /\ Live' /\ Distinct' /\ Marks'
  <1> USE DEF NoPass, NoJob, NoDel, Used, Slot, Open
  <1>1. JobRefs'
    <2> SUFFICES ASSUME NEW j \in Job PROVE References(j)' = 0
      BY DEF JobRefs, References, RefSlots, RefPasses
    <2>1. RefPasses(j)' = {}  BY ConstAssumption DEF Job, RefPasses
    <2>2. \A c \in Chan : Used(c)' = {}  OBVIOUS
    <2>3. RefSlots(j)' = {}  BY <2>2 DEF RefSlots
    <2>4. Cardinality({}) = 0  BY FS_EmptySet
    <2> QED  BY <2>1, <2>3, <2>4 DEF References
  <1>2. Counted'  BY DEF Counted
  <1>4. Live'
    <2>1. \A j \in Job : ~Open(j)'  OBVIOUS
    <2>2. \A c \in Chan : Used(c)' = {}  OBVIOUS
    <2> QED  BY <2>1, <2>2 DEF Live
  <1>3. Distinct' /\ Marks'  BY DEF Distinct, Marks, Unmarked
  <1> QED  BY <1>1, <1>2, <1>3, <1>4

(* A machine that boots with messages in todo/ satisfies the invariant.    *)
LEMMA InitOK == ASSUME ~PqAddFails, Init PROVE IInv
  <1> USE ConstAssumption DEF Init, NoPass, NoJob, NoDel, Used, Slot, Open
  <1>1. Types
    <2>1. \A c \in Chan, i \in Id : rec[c][i] = <<>>  OBVIOUS
    <2>2. rec \in [Chan -> [Id -> Seq({"T", "D"})]]  OBVIOUS
    <2>3. jo \in [Job -> JobType]
      OBVIOUS
    <2>4. pass \in [Chan -> PassType]
      OBVIOUS
    <2>5. alive \in [Chan -> BOOLEAN] /\ exitasap \in BOOLEAN  OBVIOUS
    <2>6. \A c \in Chan : del[c] \in [Slot(c) -> DelType]
      OBVIOUS
    <2>7. comm \in [Chan -> Nat] /\ \A c \in Chan : comm[c] \in 0 .. Conc[c]
      OBVIOUS
    <2>8. /\ stage \in [Id -> {"todo", "partial", "info", "gone"}]
          /\ \A c \in Chan, i \in Id : Len(rec[c][i]) <= MaxRcpt
      BY <2>1
    <2>9. /\ pqchan \in [Chan -> [Id -> Nat]] /\ pqdone \in [Id -> Nat]
          /\ size \in [Chan -> [Id -> Nat]] /\ pqfail = [i \in Id |-> 0]
      OBVIOUS
    <2>10. /\ out \in [Chan -> SUBSET Nat] /\ \A c \in Chan : out[c] \subseteq Slot(c)
           /\ DOMAIN rep = Chan /\ \A c \in Chan : rep[c] \subseteq Slot(c) \X Result
           /\ DOMAIN del = Chan
      OBVIOUS
    <2>11. /\ note \subseteq Rcpt /\ bounced \subseteq Rcpt /\ old \subseteq Id
           /\ delivered \subseteq Rcpt /\ twice \subseteq Rcpt /\ excused \subseteq Rcpt
      OBVIOUS
    <2> QED  BY <2>2, <2>3, <2>4, <2>5, <2>6, <2>7, <2>8, <2>9, <2>10, <2>11 DEF Types
  <1>2. JobRefs /\ Counted /\ Live /\ Distinct /\ Marks
    <2>1. JobRefs
      <3> SUFFICES ASSUME NEW j \in Job PROVE References(j) = 0
        BY DEF JobRefs, References, RefSlots, RefPasses
      <3>1. RefPasses(j) = {}  BY DEF Job, RefPasses
      <3>2. \A c \in Chan : Used(c) = {}  OBVIOUS
      <3>3. RefSlots(j) = {}  BY <3>2 DEF RefSlots
      <3>4. Cardinality({}) = 0  BY FS_EmptySet
      <3> QED  BY <3>1, <3>3, <3>4 DEF References
    <2>2. Counted /\ Live  BY DEF Counted, Live
    <2>3. Distinct /\ Marks  BY DEF Distinct, Marks, Unmarked
    <2> QED  BY <2>1, <2>2, <2>3
  <1>3. Files /\ Placed  BY DEF Files, Placed
  <1>4. OneStage  BY DEF OneStage, InHand
  <1>5. Received /\ TwiceOnlyExcused /\ Reported /\ Accounted /\ Ending
    BY DEF Received, TwiceOnlyExcused, Reported, Accounted, Ending
  <1> QED  BY <1>1, <1>2, <1>3, <1>4, <1>5 DEF IInv

-----------------------------------------------------------------------------
(* What is known of a slot in use.                                         *)
LEMMA SlotFacts ==
  ASSUME IInv, NEW c \in Chan, NEW s \in Used(c)
  PROVE  /\ s \in Slot(c) /\ del[c][s].j \in Job /\ Open(del[c][s].j)
         /\ jo[del[c][s].j].chan = c /\ jo[del[c][s].j].id \in Id
         /\ stage[jo[del[c][s].j].id] = "info"
         /\ del[c][s].pos \in 1 .. Len(rec[c][jo[del[c][s].j].id])
         /\ Len(rec[c][jo[del[c][s].j].id]) = size[c][jo[del[c][s].j].id]
         /\ Len(rec[c][jo[del[c][s].j].id]) <= MaxRcpt
         /\ rec[c][jo[del[c][s].j].id] # <<>>
         /\ RcptOf(c, s) = <<c, jo[del[c][s].j].id, del[c][s].pos>>
         /\ RcptOf(c, s) \in Rcpt /\ del[c][s].pos \in Nat /\ del[c][s].pos \in 1 .. MaxRcpt
  <1>0. s \in Slot(c) /\ del[c][s].j # 0  BY DEF Used
  <1>1. del[c][s].j \in Job
    <2>1. del[c][s] \in DelType  BY <1>0 DEF IInv, Types
    <2> QED  BY <1>0, <2>1, ConstAssumption DEF Job
  <1>2. /\ Open(del[c][s].j) /\ jo[del[c][s].j].chan = c /\ jo[del[c][s].j].id \in Id
        /\ rec[c][jo[del[c][s].j].id] # <<>>
        /\ del[c][s].pos \in 1 .. Len(rec[c][jo[del[c][s].j].id])
    BY <1>1 DEF IInv, Live, SlotOK, JobOK, File
  <1>3. /\ stage[jo[del[c][s].j].id] = "info"
        /\ Len(rec[c][jo[del[c][s].j].id]) = size[c][jo[del[c][s].j].id]
    BY <1>2 DEF IInv, Files
  <1>4. Len(rec[c][jo[del[c][s].j].id]) <= MaxRcpt
        /\ Len(rec[c][jo[del[c][s].j].id]) \in Nat
    BY <1>2 DEF IInv, Types
  <1>5. del[c][s].pos \in 1 .. MaxRcpt  BY <1>2, <1>4, ConstAssumption
  <1> QED  BY <1>0, <1>1, <1>2, <1>3, <1>4, <1>5 DEF RcptOf, Rcpt

(* A slot with a report on its way is in use.                              *)
LEMMA RepFacts ==
  ASSUME IInv, NEW c \in Chan, NEW s, NEW r \in Result, <<s, r>> \in rep[c]
  PROVE  s \in Used(c) /\ ~InHand(c, s) /\ \A q \in Result : <<s, q>> \in rep[c] => q = r
  <1>1. s \in Slot(c)  BY DEF IInv, Types
  <1> QED  BY <1>1 DEF IInv, OneStage

(* pqstart() puts each file into pqchan, each finished message into pqdone. *)
LEMMA StartOK == ASSUME ~PqAddFails, IInv, Start PROVE IInv'
  <1> USE DEF Start
  <1>0. /\ spc = "down" /\ spc' = "loop"
        /\ pqchan' = [c \in Chan |-> [i \in Id |->
                        IF stage[i] = "info" /\ rec[c][i] # <<>> THEN 1 ELSE 0]]
        /\ pqdone' = [i \in Id |-> IF stage[i] = "info" /\ ~HasFile(i) THEN 1 ELSE 0]
        /\ pqfail' = [i \in Id |-> 0]
        /\ UNCHANGED <<stage, rec, note, pass, jo, del, comm, alive, out, rep, exitasap, cur,
                        old, faults, size, delivered, twice, excused, bounced, unclean>>
    <2>1. PICK F \in SUBSET {i \in Id : PqAddFails /\ stage[i] \in {"partial", "info"}} :
            LET add == {i \in Id \ F : stage[i] = "info"} IN
            /\ pqchan' = [c \in Chan |-> [i \in Id |->
                            IF i \in add /\ rec[c][i] # <<>> THEN 1 ELSE 0]]
            /\ pqdone' = [i \in Id |-> IF i \in add /\ ~HasFile(i) THEN 1 ELSE 0]
            /\ pqfail' = [i \in Id |-> IF i \in F THEN 1 ELSE 0]
      OBVIOUS
    <2>2. F = {}  OBVIOUS
    <2>3. \A i \in Id : i \in {k \in Id \ F : stage[k] = "info"} <=> stage[i] = "info"
      BY <2>2
    <2> QED  BY <2>1, <2>2, <2>3 DEF files, spawn, hist
  <1> HIDE DEF Start
  <1>1. Types'  BY <1>0 DEF IInv, Types
  <1>2. JobRefs' /\ Live' /\ Files' /\ Distinct' /\ Accounted'  BY <1>0, Frame
  <1>3. Placed'  BY <1>0 DEF IInv, Placed, Open, Files, Live, JobOK, File
  <1>4. OneStage'  BY <1>0 DEF IInv, OneStage, InHand, Used
  <1>5. Marks'  BY <1>0 DEF IInv, Marks, Unmarked, Used
  <1>6. Counted'  BY <1>0, FrameCounted DEF Told, Unmarked, Used
  <1>7. Received' /\ Reported' /\ TwiceOnlyExcused'
    <2>1. \A x : Pending(x) => Pending(x)'  BY <1>0 DEF Pending, RcptOf, Used
    <2>2. Received'  BY <1>0, <2>1 DEF IInv, Received
    <2>3. Reported'  BY <1>0 DEF IInv, Reported, RcptOf
    <2>4. TwiceOnlyExcused'  BY <1>0 DEF IInv, TwiceOnlyExcused
    <2> QED  BY <2>2, <2>3, <2>4
  <1>8. Ending'  BY <1>0 DEF Ending, HasFile
  <1> QED  BY <1>1, <1>2, <1>3, <1>4, <1>5, <1>6, <1>7, <1>8 DEF IInv

(* An end of qmail-send leaves only the files behind.                      *)
LEMMA DownOK ==
  ASSUME IInv, spc' = "down", Blank, NoPqs,
         UNCHANGED <<files, old, size, bounced>>,
         delivered \subseteq delivered', delivered' \subseteq Rcpt,
         twice' \subseteq excused', excused \subseteq excused', excused' \subseteq Rcpt,
         \A x \in delivered' \ delivered :
           x \in excused' /\ x[1] \in Chan /\ x[2] \in Id /\ x[3] \in 1 .. size[x[1]][x[2]],
         \A c \in Chan : \A s \in Used(c) : \A r \in Result :
           <<s, r>> \in rep[c] \/ InHand(c, s) => RcptOf(c, s) \in excused'
  PROVE  IInv'
  <1> USE DEF Blank, NoPqs, files
  <1>1. Types'
    <2>1. /\ pass' \in [Chan -> PassType]
          /\ jo' \in [Job -> JobType]
      BY ConstAssumption DEF NoPass, NoJob
    <2>2. /\ DOMAIN del' = Chan
          /\ \A c \in Chan : del'[c] \in [Slot(c) -> DelType]
      BY ConstAssumption DEF NoDel
    <2>3. /\ comm' \in [Chan -> Nat] /\ \A c \in Chan : comm'[c] \in 0 .. Conc[c]
          /\ out' \in [Chan -> SUBSET Nat] /\ \A c \in Chan : out'[c] \subseteq Slot(c)
          /\ DOMAIN rep' = Chan /\ \A c \in Chan : rep'[c] \subseteq Slot(c) \X Result
      BY ConstAssumption
    <2>4. alive' \in [Chan -> BOOLEAN] /\ exitasap' \in BOOLEAN  OBVIOUS
    <2>5. /\ pqchan' \in [Chan -> [Id -> Nat]] /\ pqdone' \in [Id -> Nat]
          /\ pqfail' = [i \in Id |-> 0]
      OBVIOUS
    <2> QED  BY <2>1, <2>2, <2>3, <2>4, <2>5 DEF IInv, Types
  <1>2. /\ \A c \in Chan : pass'[c] = NoPass
        /\ \A j \in Job : jo'[j] = NoJob
        /\ \A c \in Chan : \A s \in Slot(c) : del'[c][s] = NoDel
    OBVIOUS
  <1>3. JobRefs' /\ Counted' /\ Live' /\ Distinct' /\ Marks'  BY <1>2, BlankCount
  <1>4. Files'  BY Frame
  <1>5. Placed' /\ OneStage' /\ Ending' /\ Reported'
    BY <1>2 DEF Placed, Open, NoJob, OneStage, InHand, Ending, Reported
  <1>6. Accounted'  BY DEF IInv, Accounted
  <1>7. Received'
    <2>0. rec' = rec /\ size' = size  OBVIOUS
    <2> HIDE DEF Blank, NoPqs, files
    <2> SUFFICES ASSUME NEW c \in Chan, NEW i \in Id, NEW k \in 1 .. MaxRcpt,
                        <<c, i, k>> \in delivered', <<c, i, k>> \notin excused'
                 PROVE  /\ k \in 1 .. size[c][i]
                        /\ rec[c][i] = <<>> \/ rec[c][i][k] = "D"
      <3>1. \A c \in Chan, i \in Id, k \in 1 .. MaxRcpt :
              <<c, i, k>> \in delivered' /\ <<c, i, k>> \in excused'
                => k \in 1 .. size[c][i]
        BY DEF IInv, Received
      <3> QED  BY <2>0, <3>1 DEF Received
    <2>1. <<c, i, k>> \in delivered  OBVIOUS
    <2>2. ~Pending(<<c, i, k>>)
      BY DEF Pending, InHand, Result
    <2> QED  BY <2>1, <2>2 DEF IInv, Received
  <1> QED  BY <1>1, <1>3, <1>4, <1>5, <1>6, <1>7 DEF IInv, TwiceOnlyExcused

(* A return from main() leaves no delivery without its report.              *)
LEMMA ExitOK == ASSUME IInv, Exit PROVE IInv'
  <1>1. \A c \in Chan : \A s \in Used(c) : \A r \in Result :
          ~(<<s, r>> \in rep[c] \/ InHand(c, s))
    BY DEF IInv, OneStage, Exit, CanExit, InHand
  <1> QED  BY <1>1, DownOK DEF Exit, files, hist, IInv, Types, TwiceOnlyExcused

(* A death loses passes, jobs, slots and pipes; who was in one is excused. *)
LEMMA CrashOK == ASSUME IInv, Crash PROVE IInv'
  <1> DEFINE busy == UNION {{RcptOf(c, s) : s \in Used(c)} : c \in Chan}
  <1>1. PICK X \in SUBSET UNION {{RcptOf(c, s) : s \in out[c]} : c \in Chan} : Receive(X)
    BY DEF Crash
  <1>2. X \subseteq busy
    BY DEF IInv, OneStage
  <1>3. excused' = excused \cup busy  BY DEF Crash
  <1>4. \A x \in busy : x \in Rcpt /\ x[1] \in Chan /\ x[2] \in Id /\ x[3] \in 1 .. size[x[1]][x[2]]
    <2> SUFFICES ASSUME NEW c \in Chan, NEW s \in Used(c)
                 PROVE  LET x == RcptOf(c, s) IN
                        x \in Rcpt /\ x[1] \in Chan /\ x[2] \in Id /\ x[3] \in 1 .. size[x[1]][x[2]]
      OBVIOUS
    <2> QED  BY SlotFacts
  <1>5. \A c \in Chan : \A s \in Used(c) : RcptOf(c, s) \in excused'  BY <1>3
  <1>6. /\ delivered' = delivered \cup X
        /\ twice' \subseteq twice \cup X
    BY <1>1 DEF Receive
  <1>7. /\ delivered \subseteq Rcpt /\ excused \subseteq Rcpt /\ twice \subseteq excused
    BY DEF IInv, Types, TwiceOnlyExcused
  <1> HIDE DEF busy
  <1>8. /\ delivered \subseteq delivered' /\ delivered' \subseteq Rcpt
        /\ twice' \subseteq excused' /\ excused \subseteq excused' /\ excused' \subseteq Rcpt
    BY <1>2, <1>3, <1>4, <1>6, <1>7
  <1>9. \A x \in delivered' \ delivered :
           x \in excused' /\ x[1] \in Chan /\ x[2] \in Id /\ x[3] \in 1 .. size[x[1]][x[2]]
    BY <1>2, <1>3, <1>4, <1>6
  <1> QED  BY <1>5, <1>8, <1>9, DownOK DEF Crash

-----------------------------------------------------------------------------
(* No open job is about a message that is not in S5.                       *)
LEMMA NoJobOutside ==
  ASSUME IInv, NEW i \in Id, stage[i] # "info"
  PROVE  /\ \A c \in Chan : rec[c][i] = <<>> /\ pqchan[c][i] = 0
         /\ \A j \in Job : Open(j) => jo[j].id # i
         /\ \A c \in Chan : \A s \in Used(c) : jo[del[c][s].j].id # i
  <1>1. \A c \in Chan : rec[c][i] = <<>>  BY DEF IInv, Files
  <1>2. \A c \in Chan : pqchan[c][i] = 0  BY <1>1 DEF IInv, Placed, Types
  <1>3. \A j \in Job : Open(j) => jo[j].id # i  BY <1>1 DEF IInv, Live, JobOK, File
  <1>4. \A c \in Chan : \A s \in Used(c) : jo[del[c][s].j].id # i  BY <1>3, SlotFacts
  <1> QED  BY <1>1, <1>2, <1>3, <1>4

(* What todo_do writes is a file of records that are all T.                *)
LEMMA NewFile ==
  ASSUME NEW n \in Nat
  PROVE  LET f == [k \in 1 .. n |-> "T"] IN
         /\ f \in Seq({"T", "D"}) /\ Len(f) = n /\ (f = <<>> <=> n = 0)
         /\ \A k \in 1 .. n : f[k] = "T"
  <1> DEFINE f == [k \in 1 .. n |-> "T"]
  <1>1. f \in Seq({"T", "D"}) /\ Len(f) = n  OBVIOUS
  <1>2. \A k \in 1 .. n : f[k] = "T"  OBVIOUS
  <1> HIDE DEF f
  <1>3. f = <<>> <=> Len(f) = 0  BY <1>1, EmptySeq
  <1> QED  BY <1>1, <1>2, <1>3 DEF f

(* todo_do() writes the files of a message that nothing else refers to;    *)
(* the message is entered in the queues, or qmail-clean is lost.           *)
LEMMA PreprocessOK ==
  ASSUME IInv, NEW i \in Id, NEW n \in [Chan -> 0 .. MaxRcpt], NEW entered \in BOOLEAN,
         Preprocess(i, n), spc = "loop", stage[i] \in {"todo", "partial"},
         pqchan' = [c \in Chan |->
                     [pqchan[c] EXCEPT ![i] = IF entered /\ n[c] > 0 THEN @ + 1 ELSE @]],
         pqdone' = [pqdone EXCEPT ![i] = IF entered /\ \A c \in Chan : n[c] = 0
                                           THEN @ + 1 ELSE @],
         unclean' = IF entered THEN unclean ELSE unclean \cup {i},
         exitasap' \in BOOLEAN,
         UNCHANGED <<note, pqfail, pass, jo, del, comm, alive, out, rep, spc, cur, old,
                     delivered, twice, excused, bounced>>
  PROVE  IInv'
  <1>0. /\ rec' = [c \in Chan |-> [rec[c] EXCEPT ![i] = [k \in 1 .. n[c] |-> "T"]]]
        /\ size' = [c \in Chan |-> [size[c] EXCEPT ![i] = n[c]]]
        /\ pqchan' = [c \in Chan |->
                        [pqchan[c] EXCEPT ![i] = IF entered /\ n[c] > 0 THEN @ + 1 ELSE @]]
        /\ pqdone' = [pqdone EXCEPT ![i] = IF entered /\ \A c \in Chan : n[c] = 0
                                             THEN @ + 1 ELSE @]
    BY DEF Preprocess
  <1>1. /\ spc = "loop" /\ spc' = "loop" /\ stage[i] \in {"todo", "partial"}
        /\ stage' = [stage EXCEPT ![i] = "info"] /\ exitasap' \in BOOLEAN
        /\ entered \/ i \in unclean'
        /\ \A m \in Id : m \in unclean => m \in unclean'
        /\ UNCHANGED <<note, pqfail, pass, jo, del, comm, alive, out, rep, cur, old,
                        delivered, twice, excused, bounced>>
    BY DEF Preprocess
  <1>2. /\ \A c \in Chan : rec[c][i] = <<>> /\ pqchan[c][i] = 0 /\ size[c][i] = 0
        /\ \A j \in Job : Open(j) => jo[j].id # i
        /\ \A c \in Chan : \A s \in Used(c) : jo[del[c][s].j].id # i
    <2>1. stage[i] # "info"  BY <1>1
    <2> QED  BY <1>1, <2>1, NoJobOutside DEF IInv, Files
  <1>3. \A c \in Chan, m \in Id : m # i =>
          /\ rec'[c][m] = rec[c][m] /\ size'[c][m] = size[c][m]
          /\ pqchan'[c][m] = pqchan[c][m] /\ pqdone'[m] = pqdone[m] /\ stage'[m] = stage[m]
    BY <1>0, <1>1 DEF IInv, Types
  <1>4. \A c \in Chan :
          /\ size'[c][i] = n[c] /\ pqchan'[c][i] = IF entered /\ n[c] > 0 THEN 1 ELSE 0
          /\ n[c] \in 0 .. MaxRcpt /\ n[c] \in Nat
    BY <1>0, <1>2, ConstAssumption DEF IInv, Types
  <1>5. \A c \in Chan :
          /\ rec'[c][i] \in Seq({"T", "D"}) /\ Len(rec'[c][i]) = n[c]
          /\ (rec'[c][i] = <<>> <=> n[c] = 0)
          /\ \A k \in 1 .. n[c] : rec'[c][i][k] = "T"
    <2> SUFFICES ASSUME NEW c \in Chan
                 PROVE  /\ rec'[c][i] \in Seq({"T", "D"}) /\ Len(rec'[c][i]) = n[c]
                        /\ (rec'[c][i] = <<>> <=> n[c] = 0)
                        /\ \A k \in 1 .. n[c] : rec'[c][i][k] = "T"
      OBVIOUS
    <2>1. rec'[c][i] = [k \in 1 .. n[c] |-> "T"]  BY <1>0 DEF IInv, Types
    <2> QED  BY <1>4, <2>1, NewFile
  <1>6. stage'[i] = "info"  BY <1>1 DEF IInv, Types
  <1>7. Types'
    <2>1. rec' \in [Chan -> [Id -> Seq({"T", "D"})]]  BY <1>0, <1>5 DEF IInv, Types
    <2>2. ASSUME NEW c \in Chan, NEW m \in Id PROVE Len(rec'[c][m]) <= MaxRcpt
      <3>1. CASE m = i  BY <1>4, <1>5, <3>1
      <3>2. CASE m # i  BY <1>3, <3>2 DEF IInv, Types
      <3> QED  BY <3>1, <3>2
    <2>3. pqchan' \in [Chan -> [Id -> Nat]]  BY <1>0, <1>4 DEF IInv, Types
    <2>4. size' \in [Chan -> [Id -> Nat]]  BY <1>0, <1>4 DEF IInv, Types
    <2>5. pqdone' \in [Id -> Nat]  BY <1>0 DEF IInv, Types
    <2>6. stage' \in [Id -> {"todo", "partial", "info", "gone"}]  BY <1>1 DEF IInv, Types
    <2> QED  BY <1>1, <2>1, <2>2, <2>3, <2>4, <2>5, <2>6 DEF IInv, Types
  <1>8. JobRefs' /\ Distinct'  BY <1>1, Frame
  <1>9. \A j \in Job : Open(j) => jo[j].chan \in Chan /\ jo[j].id \in Id /\ File(j)' = File(j)
    BY <1>1, <1>2, <1>3 DEF IInv, Live, JobOK, File
  <1>10. Live'
    <2>1. ASSUME NEW c \in Chan, NEW s \in Used(c)
          PROVE  File(del[c][s].j)' = File(del[c][s].j)
      <3>1. del[c][s].j \in Job /\ Open(del[c][s].j)  BY SlotFacts
      <3> QED  BY <1>1, <1>9, <3>1
    <2> QED  BY <1>1, <1>9, <2>1 DEF IInv, Live, JobOK, SlotOK, PassOK, Open, Reads, Used
  <1>11. Files'  BY <1>3, <1>4, <1>5, <1>6 DEF IInv, Files
  <1>12. Placed'
    <2>1. \A c \in Chan, m \in Id : pqchan'[c][m] <= 1 /\ (pqchan'[c][m] = 1 => rec'[c][m] # <<>>)
      BY <1>3, <1>4, <1>5 DEF IInv, Placed
    <2>2. \A j \in Job : Open(j) => pqchan'[jo[j].chan][jo[j].id] = 0
      BY <1>2, <1>3, <1>9 DEF IInv, Placed
    <2>3. \A c \in Chan, m \in Id : rec'[c][m] # <<>> /\ m \notin unclean' =>
            pqchan'[c][m] = 1 \/ \E j \in Job : Open(j) /\ jo[j].chan = c /\ jo[j].id = m
      BY <1>1, <1>3, <1>4, <1>5 DEF IInv, Placed
    <2> QED  BY <1>1, <2>1, <2>2, <2>3 DEF IInv, Placed, Open
  <1>13. OneStage'  BY <1>1 DEF IInv, OneStage, InHand, Used
  <1>14. Marks'
    <2> SUFFICES ASSUME NEW c \in Chan, NEW s \in Used(c)
                 PROVE  rec'[c][jo[del[c][s].j].id][del[c][s].pos] = "T"
      BY <1>1 DEF Marks, Unmarked, Used
    <2>1. s \in Slot(c) /\ Unmarked(c, s)  BY <1>1, SlotFacts DEF Unmarked
    <2>2. rec[c][jo[del[c][s].j].id][del[c][s].pos] = "T"  BY <2>1 DEF IInv, Marks
    <2>3. jo[del[c][s].j].id \in Id /\ jo[del[c][s].j].id # i  BY <1>2, SlotFacts
    <2>4. rec'[c][jo[del[c][s].j].id] = rec[c][jo[del[c][s].j].id]  BY <1>3, <2>3
    <2> QED  BY <2>2, <2>4
  <1>15. Counted'
    <2> SUFFICES ASSUME NEW j \in Job, Open(j) PROVE ToDo(j)' \subseteq ToDo(j)
      BY <1>1, FewerToDo DEF Open
    <2> QED  BY <1>1, <1>9 DEF ToDo, Waiting, Upto, Reads, Unmarked, Used, Told
  <1>16. Received' /\ TwiceOnlyExcused' /\ Reported'
    <2>1. \A x : Pending(x) => Pending(x)'  BY <1>1 DEF Pending, RcptOf, Used
    <2>2. ASSUME NEW c \in Chan, NEW m \in Id, NEW k \in 1 .. MaxRcpt, <<c, m, k>> \in delivered'
          PROVE  /\ k \in 1 .. size'[c][m]
                 /\ \/ <<c, m, k>> \in excused' \/ rec'[c][m] = <<>>
                    \/ rec'[c][m][k] = "D" \/ Pending(<<c, m, k>>)'
      <3>1. k \in 1 .. size[c][m]  BY <1>1, <2>2 DEF IInv, Received
      <3>2. m # i  BY <1>2, <3>1
      <3> QED  BY <1>1, <1>3, <2>1, <2>2, <3>2 DEF IInv, Received
    <2> QED  BY <1>1, <2>2 DEF IInv, Received, TwiceOnlyExcused, Reported, RcptOf
  <1>17. Accounted'
    <2> SUFFICES ASSUME NEW c \in Chan, NEW m \in Id, NEW k \in 1 .. size'[c][m]
                 PROVE  \/ rec'[c][m] # <<>> /\ rec'[c][m][k] = "T"
                        \/ <<c, m, k>> \in delivered \cup note \cup bounced
      BY <1>1 DEF Accounted
    <2>1. CASE m = i  BY <1>4, <1>5, <2>1
    <2>2. CASE m # i  BY <1>3, <2>2 DEF IInv, Accounted
    <2> QED  BY <2>1, <2>2
  <1>18. Ending'
    <2> SUFFICES ASSUME NEW m \in Id, stage'[m] = "info", ~HasFile(m)', m \notin unclean'
                 PROVE  pqdone'[m] > 0
      BY DEF Ending
    <2>1. CASE m = i
      <3>0. entered  BY <1>1, <2>1
      <3>1. \A c \in Chan : n[c] = 0  BY <1>5, <2>1 DEF HasFile
      <3>2. pqdone \in [Id -> Nat]  BY DEF IInv, Types
      <3>3. pqdone'[m] = pqdone[i] + 1  BY <1>0, <2>1, <3>0, <3>1, <3>2
      <3>4. pqdone[i] \in Nat  BY <3>2
      <3> QED  BY <3>3, <3>4
    <2>2. CASE m # i
      <3>1. stage'[m] = stage[m] /\ pqdone'[m] = pqdone[m]
        BY <1>0, <1>1, <2>2 DEF IInv, Types
      <3> QED  BY <1>1, <1>3, <2>2, <3>1 DEF IInv, Ending, HasFile
    <2> QED  BY <2>1, <2>2
  <1> QED
    BY <1>7, <1>8, <1>10, <1>11, <1>12, <1>13, <1>14, <1>15, <1>16, <1>17, <1>18 DEF IInv

(* todo_do() enters the message in the queues of its channels.             *)
LEMMA TodoDoOK == ASSUME IInv, NEW i \in Id, TodoDo(i) PROVE IInv'
  <1>1. PICK n \in [Chan -> 0 .. MaxRcpt] :
          /\ Preprocess(i, n)
          /\ pqchan' = [c \in Chan |-> [pqchan[c] EXCEPT ![i] = IF n[c] > 0 THEN @ + 1 ELSE @]]
          /\ pqdone' = [pqdone EXCEPT ![i] = IF \A c \in Chan : n[c] = 0 THEN @ + 1 ELSE @]
    BY DEF TodoDo
  <1>2. /\ spc = "loop" /\ stage[i] \in {"todo", "partial"} /\ exitasap' = exitasap
        /\ UNCHANGED <<note, pqfail, pass, jo, del, comm, alive, out, rep, spc, cur, old,
                        delivered, twice, excused, bounced, unclean>>
    BY DEF TodoDo, spawn, loop, lapse
  <1>3. exitasap' \in BOOLEAN  BY <1>2 DEF IInv, Types
  <1> QED  BY <1>1, <1>2, <1>3, PreprocessOK

(* A todo_do() that fails has written files of no consequence.             *)
LEMMA PartialFrame ==
  ASSUME IInv, NEW i \in Id, spc = "loop", stage[i] \in {"todo", "partial"},
         stage' = [stage EXCEPT ![i] = "partial"], exitasap' \in BOOLEAN,
         UNCHANGED <<rec, note, pqchan, pqdone, pqfail, pass, jo, del, comm, alive, out, rep,
                     spc, cur, old, size, delivered, twice, excused, bounced, unclean>>
  PROVE  IInv'
  <1>1. UNCHANGED <<rec, note, pqchan, pqdone, pqfail, pass, jo, del, comm, alive, out, rep,
                    spc, cur, old, size, delivered, twice, excused, bounced, unclean>>
    OBVIOUS
  <1>2. Types'  BY <1>1 DEF IInv, Types
  <1>3. /\ JobRefs' /\ Live' /\ Distinct' /\ Placed' /\ Marks' /\ Received' /\ Reported'
        /\ Accounted'
    BY <1>1, Frame
  <1>4. Files'  BY <1>1 DEF IInv, Files, Types
  <1>5. OneStage'  BY <1>1 DEF IInv, OneStage, InHand, Used
  <1>6. Counted'  BY <1>1, FrameCounted DEF Told, Unmarked, Used
  <1>7. TwiceOnlyExcused'  BY <1>1 DEF IInv, TwiceOnlyExcused
  <1>8. Ending'  BY <1>1 DEF IInv, Ending, HasFile, Types
  <1> QED  BY <1>2, <1>3, <1>4, <1>5, <1>6, <1>7, <1>8 DEF IInv

LEMMA TodoPartialOK == ASSUME IInv, NEW i \in Id, TodoPartial(i) PROVE IInv'
  <1>1. /\ spc = "loop" /\ stage[i] = "todo" /\ stage' = [stage EXCEPT ![i] = "partial"]
        /\ UNCHANGED <<rec, note, pqchan, pqdone, pqfail, pass, jo, del, comm, alive, out, rep,
                        exitasap, spc, cur, old, size, delivered, twice, excused, bounced,
                        unclean>>
    BY DEF TodoPartial, pqs, spawn, loop, hist, lapse
  <1>2. exitasap' \in BOOLEAN  BY <1>1 DEF IInv, Types
  <1> QED  BY <1>1, <1>2, PartialFrame

(* qmail-clean is lost after todo/ is gone, or before.                     *)
LEMMA TodoCleanDiedOK == ASSUME IInv, NEW i \in Id, TodoCleanDied(i) PROVE IInv'
  <1>1. /\ spc = "loop" /\ stage[i] \in {"todo", "partial"} /\ exitasap' \in BOOLEAN
        /\ UNCHANGED <<note, pqchan, pqdone, pqfail, pass, jo, del, comm, alive, out, rep,
                        spc, cur, old, delivered, twice, excused, bounced>>
    BY DEF TodoCleanDied, pqs, spawn, loop
  <1>2. CASE \E n \in [Chan -> 0 .. MaxRcpt] : Preprocess(i, n) /\ unclean' = unclean \cup {i}
    <2>1. PICK n \in [Chan -> 0 .. MaxRcpt] : Preprocess(i, n) /\ unclean' = unclean \cup {i}
      BY <1>2
    <2>2. /\ pqchan' = [c \in Chan |->
                          [pqchan[c] EXCEPT ![i] = IF FALSE /\ n[c] > 0 THEN @ + 1 ELSE @]]
          /\ pqdone' = [pqdone EXCEPT ![i] = IF FALSE /\ \A c \in Chan : n[c] = 0
                                               THEN @ + 1 ELSE @]
          /\ unclean' = IF FALSE THEN unclean ELSE unclean \cup {i}
      BY <1>1, <2>1 DEF IInv, Types
    <2> QED  BY <1>1, <2>1, <2>2, PreprocessOK
  <1>3. CASE stage' = [stage EXCEPT ![i] = "partial"] /\ UNCHANGED <<rec, size, unclean>>
    BY <1>1, <1>3, PartialFrame
  <1> QED  BY <1>2, <1>3 DEF TodoCleanDied

(* Without a failing stat() pqfail stays empty.                            *)
LEMMA RunPqFailOK == ASSUME IInv, NEW i \in Id PROVE ~RunPqFail(i)
  BY DEF RunPqFail, IInv, Types

(* SIGTERM, the clock and select().                                        *)
LEMMA OutsideOK == ASSUME IInv, Term \/ (\E i \in Id : Expire(i)) \/ Sleep PROVE IInv'
  <1>1. UNCHANGED <<stage, rec, note, pqchan, pqdone, pqfail, pass, jo, del, comm, alive, out,
                    rep, spc, cur, size, delivered, twice, excused, bounced, unclean>>
    BY DEF Term, Expire, Sleep, vars, files, pqs, spawn, loop, hist, lapse
  <1>2. exitasap' \in BOOLEAN /\ old' \subseteq Id
    BY DEF Term, Expire, Sleep, vars, IInv, Types
  <1>3. Types'  BY <1>1, <1>2 DEF IInv, Types
  <1>4. Counted'  BY <1>1, FrameCounted DEF Told, Unmarked, Used
  <1>5. TwiceOnlyExcused'  BY <1>1 DEF IInv, TwiceOnlyExcused
  <1> QED  BY <1>1, <1>3, <1>4, <1>5, Frame DEF IInv

-----------------------------------------------------------------------------
(* Adding one element adds at most one to the size.                        *)
LEMMA OneMore ==
  ASSUME NEW S, NEW x, IsFiniteSet(S)
  PROVE  /\ IsFiniteSet(S \cup {x}) /\ Cardinality(S \cup {x}) \in Nat
         /\ Cardinality(S \cup {x}) <= Cardinality(S) + 1
  <1>1. Cardinality(S) \in Nat  BY FS_CardinalityType
  <1>2. CASE x \in S
    <2>1. S \cup {x} = S  BY <1>2
    <2>2. Cardinality(S \cup {x}) = Cardinality(S)  BY <2>1
    <2>3. IsFiniteSet(S \cup {x})  BY <2>1
    <2> QED  BY <1>1, <2>2, <2>3
  <1>3. CASE x \notin S  BY <1>1, <1>3, FS_AddElement
  <1> QED  BY <1>2, <1>3

(* There are finitely many jobs.                                           *)
LEMMA JobsFinite == IsFiniteSet(1 .. NumJobs)
  <1>1. 1 \in Int /\ NumJobs \in Int  BY ConstAssumption
  <1> QED  BY <1>1, FS_Interval

(* The use counts count finite sets.                                       *)
LEMMA RefsFinite ==
  ASSUME NEW j \in Job
  PROVE  IsFiniteSet(RefSlots(j)) /\ IsFiniteSet(RefPasses(j))
  <1>1. IsFiniteSet(Chan) /\ IsFiniteSet(1 .. NumJobs)  BY ConstAssumption, JobsFinite
  <1>2. IsFiniteSet(Chan \X (1 .. NumJobs))  BY <1>1, FS_Product
  <1>3. RefSlots(j) \subseteq Chan \X (1 .. NumJobs) /\ RefPasses(j) \subseteq Chan
    BY DEF RefSlots, RefPasses
  <1> QED  BY <1>1, <1>2, <1>3, FS_Subset

(* The use count of an open job is the number of those who refer to it.    *)
LEMMA RefsOf ==
  ASSUME IInv, NEW j \in Job
  PROVE  /\ jo[j].refs = Cardinality(RefSlots(j)) + Cardinality(RefPasses(j))
         /\ Cardinality(RefSlots(j)) \in Nat /\ Cardinality(RefPasses(j)) \in Nat
  <1>1. jo[j].refs = Cardinality(RefSlots(j)) + Cardinality(RefPasses(j))
    BY DEF IInv, JobRefs, RefSlots, RefPasses
  <1> QED  BY <1>1, RefsFinite, FS_CardinalityType

(* JobRefs, job by job.                                                    *)
LEMMA JobRefsStep ==
  ASSUME \A j \in Job : jo'[j].refs = Cardinality(RefSlots(j)') + Cardinality(RefPasses(j)')
  PROVE  JobRefs'
  BY DEF JobRefs, RefSlots, RefPasses

(* A reading pass is about a job that reads.                               *)
LEMMA PassFacts ==
  ASSUME IInv, NEW c \in Chan, pass[c] # NoPass
  PROVE  /\ pass[c].j \in Job /\ Open(pass[c].j) /\ Reads(pass[c].j)
         /\ jo[pass[c].j].chan = c /\ jo[pass[c].j].id = pass[c].id /\ pass[c].id \in Id
         /\ ~jo[pass[c].j].eof /\ rec[c][pass[c].id] # <<>>
         /\ pass[c].pos \in 1 .. Len(rec[c][pass[c].id]) + 1
         /\ Len(rec[c][pass[c].id]) \in Nat /\ pass[c].pos \in Nat
  <1>1. pass[c].j \in Job /\ Open(pass[c].j) /\ jo[pass[c].j].chan = c
    BY DEF IInv, Live, PassOK
  <1>2. Reads(pass[c].j)  BY <1>1 DEF Reads
  <1>3. /\ jo[pass[c].j].id = pass[c].id /\ jo[pass[c].j].id \in Id /\ ~jo[pass[c].j].eof
        /\ File(pass[c].j) # <<>> /\ pass[c].pos \in 1 .. Len(File(pass[c].j)) + 1
    BY <1>1, <1>2 DEF IInv, Live, JobOK
  <1>4. File(pass[c].j) = rec[c][pass[c].id]  BY <1>1, <1>3 DEF File
  <1>5. Len(rec[c][pass[c].id]) \in Nat  BY <1>3 DEF IInv, Types
  <1> QED  BY <1>1, <1>2, <1>3, <1>4, <1>5

(* A report on its way stays so where slots keep their recipients.         *)
LEMMA PendingStays ==
  ASSUME UNCHANGED <<del, rep, spc, cur>>,
         \A c \in Chan : \A s \in Used(c) : jo'[del[c][s].j].id = jo[del[c][s].j].id,
         NEW x, Pending(x)
  PROVE  Pending(x)'
  BY DEF Pending, RcptOf, Used

(* A pass opens a free job for the message it has taken out of pqchan.     *)
LEMMA OpenPassOK == ASSUME IInv, NEW c \in Chan, NEW i \in Id, OpenPass(c, i) PROVE IInv'
  <1>0. PICK j \in Job : /\ FreeJob(j)
                         /\ pass' = [pass EXCEPT ![c] = [id |-> i, j |-> j, pos |-> 1]]
                         /\ jo' = [jo EXCEPT ![j] = [NoJob EXCEPT !.refs = 1, !.id = i,
                                                        !.chan = c, !.dying = i \in old]]
    BY DEF OpenPass
  <1>1. /\ spc = "loop" /\ pass[c] = NoPass /\ pqchan[c][i] > 0 /\ rec[c][i] # <<>>
        /\ pqchan' = [pqchan EXCEPT ![c] = Taken(@, i)]
        /\ UNCHANGED <<stage, rec, note, pqdone, pqfail, del, comm, alive, out, rep, exitasap,
                        spc, cur, old, size, delivered, twice, excused, bounced, unclean>>
    BY DEF OpenPass, files, spawn, loop, hist, lapse
  <1>2. /\ jo'[j].refs = 1 /\ jo'[j].id = i /\ jo'[j].chan = c /\ jo'[j].numtodo = 0
        /\ ~jo'[j].eof /\ Open(j)' /\ ~Open(j)
        /\ \A k \in Job : k # j => jo'[k] = jo[k]
        /\ pass'[c].j = j /\ pass'[c].id = i /\ pass'[c].pos = 1 /\ pass[c].j = 0
        /\ pass'[c] # NoPass
        /\ \A b \in Chan : b # c => pass'[b] = pass[b]
    BY <1>0, <1>1 DEF NoJob, NoPass, Open, FreeJob, IInv, Types, Job
  <1>3. pqchan[c][i] = 1 /\ pqchan'[c][i] = 0
        /\ \A b \in Chan, m \in Id : <<b, m>> # <<c, i>> => pqchan'[b][m] = pqchan[b][m]
    <2>1. pqchan \in [Chan -> [Id -> Nat]] /\ pqchan[c][i] <= 1
      BY DEF IInv, Types, Placed
    <2>2. pqchan[c][i] = 1 /\ pqchan'[c] = [pqchan[c] EXCEPT ![i] = @ - 1]
      BY <1>1, <2>1 DEF Taken
    <2>3. \A b \in Chan : b # c => pqchan'[b] = pqchan[b]  BY <1>1, <2>1
    <2> QED  BY <2>1, <2>2, <2>3
  <1>4. \A k \in Job : k # j =>
          \/ (Open(k)' <=> Open(k)) /\ (Reads(k)' <=> Reads(k))
          \/ ~Open(k)'
    BY <1>2 DEF IInv, Live, JobOK, SlotOK, PassOK, Open, Reads, Job
  <1>5. \A b \in Chan : \A s \in Used(b) : del[b][s].j # j /\ jo'[del[b][s].j] = jo[del[b][s].j]
    BY <1>2, SlotFacts
  <1>6. Types'
    <2>1. jo' \in [Job -> JobType]
      <3> DEFINE v == i \in old
      <3>1. v \in BOOLEAN  OBVIOUS
      <3>2. jo' = [jo EXCEPT ![j] = [NoJob EXCEPT !.refs = 1, !.id = i, !.chan = c, !.dying = v]]
        BY <1>0
      <3> HIDE DEF v
      <3>3. [NoJob EXCEPT !.refs = 1, !.id = i, !.chan = c, !.dying = v]
              \in JobType
        BY <3>1 DEF NoJob
      <3> QED  BY <3>2, <3>3 DEF IInv, Types
    <2>2. pass' \in [Chan -> PassType]
      BY <1>0, ConstAssumption DEF IInv, Types, Job
    <2>3. pqchan' \in [Chan -> [Id -> Nat]]  BY <1>1, <1>3 DEF IInv, Types, Taken
    <2> QED  BY <1>1, <2>1, <2>2, <2>3 DEF IInv, Types
  <1>7. JobRefs'
    <2> SUFFICES ASSUME NEW k \in Job
                 PROVE  jo'[k].refs = Cardinality(RefSlots(k)') + Cardinality(RefPasses(k)')
      BY JobRefsStep
    <2>1. RefSlots(k)' = RefSlots(k)  BY <1>1 DEF RefSlots, Used
    <2>2. CASE k # j
      <3>1. RefPasses(k)' = RefPasses(k)  BY <1>2, <2>2 DEF RefPasses, Job
      <3> QED  BY <1>2, <2>1, <2>2, <3>1, RefsOf
    <2>3. CASE k = j
      <3>1. Cardinality(RefSlots(j)) = 0 /\ Cardinality(RefPasses(j)) = 0
        BY <1>0, RefsOf DEF FreeJob
      <3>2. RefPasses(j) = {}  BY <3>1, RefsFinite, FS_EmptySet
      <3>3. RefPasses(j)' = {c}  BY <1>2, <3>2 DEF RefPasses
      <3>4. Cardinality({c}) = 1  BY FS_Singleton
      <3> QED  BY <1>2, <2>1, <2>3, <3>1, <3>3, <3>4
    <2> QED  BY <2>2, <2>3
  <1>8. Live'
    <2>1. Len(rec[c][i]) \in Nat  BY DEF IInv, Types
    <2>2. JobOK(j)'  BY <1>1, <1>2, <2>1 DEF JobOK, File, Reads
    <2>3. ASSUME NEW k \in Job, Open(k), k # j
          PROVE  /\ jo'[k] = jo[k] /\ Open(k)' /\ (Reads(k)' <=> Reads(k)) /\ File(k)' = File(k)
                 /\ Reads(k) => pass'[jo[k].chan] = pass[jo[k].chan]
                 /\ jo[k].chan \in Chan
      BY <1>1, <1>2, <1>4, <2>3 DEF Open, File, Reads, IInv, Live, JobOK, Job
    <2>4. ASSUME NEW k \in Job PROVE IF Open(k)' THEN JobOK(k)' ELSE jo'[k] = NoJob
      <3>1. CASE k = j  BY <1>2, <2>2, <3>1
      <3>2. CASE k # j /\ Open(k)  BY <2>3, <3>2 DEF IInv, Live, JobOK
      <3>3. CASE k # j /\ ~Open(k)  BY <1>2, <3>3 DEF IInv, Live, Open
      <3> QED  BY <3>1, <3>2, <3>3
    <2>5. ASSUME NEW b \in Chan, pass'[b] # NoPass PROVE PassOK(b)'
      <3>1. CASE b = c  BY <1>2, <3>1 DEF PassOK
      <3>2. CASE b # c
        <4>1. pass'[b] = pass[b] /\ PassOK(b)  BY <1>2, <2>5, <3>2 DEF IInv, Live
        <4> QED  BY <1>2, <2>3, <4>1 DEF PassOK
      <3> QED  BY <3>1, <3>2
    <2>6. ASSUME NEW b \in Chan, NEW s \in Used(b)' PROVE SlotOK(b, s)'
      <3>1. s \in Used(b) /\ del' = del  BY <1>1 DEF Used
      <3>2. /\ del[b][s].j # j /\ del[b][s].j \in Job /\ Open(del[b][s].j)
            /\ jo[del[b][s].j].chan = b /\ SlotOK(b, s)
        BY <1>5, <3>1, SlotFacts DEF IInv, Live
      <3> QED  BY <2>3, <3>1, <3>2 DEF SlotOK
    <2> QED  BY <2>4, <2>5, <2>6 DEF Live
  <1>9. Files' /\ Distinct' /\ OneStage' /\ Accounted' /\ Ending'  BY <1>1, Frame
  <1>10. Placed'
    <2>1. \A b \in Chan, m \in Id : pqchan'[b][m] <= 1 /\ (pqchan'[b][m] = 1 => rec'[b][m] # <<>>)
      BY <1>1, <1>3 DEF IInv, Placed
    <2>2. \A k \in Job : k # j /\ Open(k) => <<jo[k].chan, jo[k].id>> # <<c, i>>
      BY <1>3 DEF IInv, Placed
    <2>3. \A k \in Job : Open(k)' => pqchan'[jo'[k].chan][jo'[k].id] = 0
      BY <1>2, <1>3, <2>2 DEF IInv, Placed, Open, Live, JobOK
    <2>4. \A k, l \in Job : Open(k)' /\ Open(l)' /\ jo'[k].chan = jo'[l].chan
                             /\ jo'[k].id = jo'[l].id => k = l
      BY <1>2, <2>2 DEF IInv, Placed, Open
    <2>5. \A b \in Chan, m \in Id : rec'[b][m] # <<>> /\ m \notin unclean =>
            pqchan'[b][m] = 1 \/ \E k \in Job : Open(k)' /\ jo'[k].chan = b /\ jo'[k].id = m
      <3> SUFFICES ASSUME NEW b \in Chan, NEW m \in Id \ unclean, rec[b][m] # <<>>,
                          pqchan'[b][m] # 1
                   PROVE  \E k \in Job : Open(k)' /\ jo'[k].chan = b /\ jo'[k].id = m
        BY <1>1
      <3>1. CASE <<b, m>> = <<c, i>>  BY <1>2, <3>1
      <3>2. CASE <<b, m>> # <<c, i>>
        <4>1. PICK k \in Job : Open(k) /\ jo[k].chan = b /\ jo[k].id = m
          BY <1>1, <1>3, <3>2 DEF IInv, Placed
        <4> QED  BY <1>2, <4>1 DEF Open
      <3> QED  BY <3>1, <3>2
    <2> QED  BY <1>1, <2>1, <2>3, <2>4, <2>5 DEF Placed
  <1>11. Marks'  BY <1>1, <1>5 DEF IInv, Marks, Unmarked, Used
  <1>12. Counted'
    <2> SUFFICES ASSUME NEW k \in Job, Open(k)'
                 PROVE  Cardinality(ToDo(k)') <= jo'[k].numtodo
      BY DEF Counted
    <2>1. CASE k = j
      <3>1. ToDo(j)' = {}
        <4> SUFFICES ASSUME NEW n \in 1 .. Len(File(j)'), Waiting(j, n)' PROVE FALSE
          BY DEF ToDo
        <4>1. Upto(j)' = 0  BY <1>2 DEF Upto, Reads
        <4>2. ~(n <= Upto(j)')  BY <4>1
        <4>3. \A s \in Slot(c) : s \in Used(c) => del'[c][s].j # j  BY <1>1, <1>5
        <4> QED  BY <1>1, <1>2, <4>2, <4>3 DEF Waiting, Unmarked, Used
      <3> QED  BY <1>2, <2>1, <3>1, FS_EmptySet
    <2>2. CASE k # j
      <3>1. jo'[k] = jo[k] /\ Open(k) /\ (Reads(k)' <=> Reads(k))
            /\ (Reads(k) => pass'[jo[k].chan] = pass[jo[k].chan]) /\ File(k)' = File(k)
        BY <1>1, <1>2, <1>4, <2>2 DEF Open, File, Reads, IInv, Live, JobOK, Job
      <3>2. ToDo(k)' \subseteq ToDo(k)
        BY <1>1, <3>1 DEF ToDo, Waiting, Upto, Unmarked, Used, Told
      <3> QED  BY <3>1, <3>2, FewerOf
    <2> QED  BY <2>1, <2>2
  <1>13. Received' /\ TwiceOnlyExcused' /\ Reported'
    <2>1. \A x : Pending(x) => Pending(x)'  BY <1>1, <1>5, PendingStays
    <2>2. Received'  BY <1>1, <2>1 DEF IInv, Received
    <2>3. \A b \in Chan : \A s \in Used(b) : RcptOf(b, s)' = RcptOf(b, s)
      BY <1>1, <1>5 DEF RcptOf
    <2>4. Reported'  BY <1>1, <2>3 DEF IInv, Reported, OneStage, Result
    <2> QED  BY <1>1, <2>2, <2>4 DEF IInv, TwiceOnlyExcused
  <1> QED
    BY <1>6, <1>7, <1>8, <1>9, <1>10, <1>11, <1>12, <1>13 DEF IInv

(* del_avail(): there is a slot, and del_start takes the first.            *)
LEMMA FirstSlot ==
  ASSUME IInv, NEW c \in Chan, Cardinality(Used(c)) < Conc[c]
  PROVE  LET s == CHOOSE s \in Slot(c) \ Used(c) : \A t \in Slot(c) \ Used(c) : s <= t IN
         s \in Slot(c) \ Used(c)
  <1>1. Conc[c] \in Nat /\ Used(c) \subseteq Slot(c)  BY ConstAssumption DEF Used
  <1>2. IsFiniteSet(Slot(c)) /\ Cardinality(Slot(c)) = Conc[c]
    <2>1. 1 \in Int /\ Conc[c] \in Int  BY <1>1
    <2>2. /\ IsFiniteSet(1 .. Conc[c])
          /\ Cardinality(1 .. Conc[c]) = IF 1 > Conc[c] THEN 0 ELSE Conc[c] - 1 + 1
      BY <2>1, FS_Interval
    <2>3. Cardinality(1 .. Conc[c]) = Conc[c]  BY <1>1, <2>2
    <2> QED  BY <2>2, <2>3 DEF Slot
  <1>3. Slot(c) \ Used(c) # {}
    <2> SUFFICES ASSUME Slot(c) = Used(c) PROVE FALSE  BY <1>1
    <2> QED  BY <1>1, <1>2
  <1>4. \E s \in Slot(c) \ Used(c) : \A t \in Slot(c) \ Used(c) : s <= t
    <2>1. Slot(c) \ Used(c) \in SUBSET Nat  BY <1>1 DEF Slot
    <2> DEFINE Less == {ss \in Nat \X Nat : ss[1] < ss[2]}
    <2>2. IsWellFoundedOn(Less, Nat)  BY SMT, NatLessThanWellFounded DEF OpToRel
    <2>3. \E s \in Slot(c) \ Used(c) : \A t \in Slot(c) \ Used(c) : ~(<<t, s>> \in Less)
      <3> HIDE DEF Less
      <3> QED  BY <1>3, <2>1, <2>2, WFMin
    <2>4. \A s, t \in Slot(c) \ Used(c) : ~(<<t, s>> \in Less) => s <= t
      BY <2>1
    <2> HIDE DEF Less
    <2> QED  BY <2>3, <2>4
  <1> QED  BY <1>4

(* Steps that keep every job's message, and so what the slots are about.   *)
LEMMA SameRecipients ==
  ASSUME IInv, \A j \in Job : jo'[j].id = jo[j].id,
         \A c \in Chan : \A s \in Used(c) : del'[c][s] = del[c][s] /\ s \in Used(c)'
  PROVE  /\ \A c \in Chan : \A s \in Used(c) : RcptOf(c, s)' = RcptOf(c, s)
         /\ UNCHANGED <<rep, spc, cur>> => \A x : Pending(x) => Pending(x)'
  <1>1. \A c \in Chan : \A s \in Used(c) : RcptOf(c, s)' = RcptOf(c, s)
    BY SlotFacts DEF RcptOf
  <1> QED  BY <1>1 DEF Pending

(* del_start leaves a job.                                                 *)
LEMMA StartedType == ASSUME NEW b \in JobType PROVE Started(b) \in JobType
  <1>1. b.refs + 1 \in Nat /\ b.numtodo + 1 \in Nat  OBVIOUS
  <1>2. ASSUME NEW m \in Nat, NEW n \in Nat
        PROVE  [b EXCEPT !.numtodo = m, !.refs = n] \in JobType
    BY Zenon
  <1> QED  BY <1>1, <1>2 DEF Started

(* A pass that has read a line is a pass.                                  *)
LEMMA PassOnType == ASSUME NEW p \in PassType PROVE [p EXCEPT !.pos = @ + 1] \in PassType
  OBVIOUS

(* A T line takes a slot and one more reference to the job.                *)
LEMMA ReadTOK == ASSUME IInv, NEW c \in Chan, ReadT(c) PROVE IInv'
  <1>0. PICK j \in Job, i \in Id, n \in Nat, s \in Slot(c) \ Used(c) :
          /\ pass[c].j = j /\ pass[c].id = i /\ pass[c].pos = n
          /\ del' = [del EXCEPT ![c][s] = [j |-> j, pos |-> n]]
          /\ comm' = [comm EXCEPT ![c] = s]
          /\ jo' = [jo EXCEPT ![j] = Started(@)]
    <2> DEFINE s0 == CHOOSE s \in Slot(c) \ Used(c) : \A t \in Slot(c) \ Used(c) : s <= t
    <2>1. s0 \in Slot(c) \ Used(c)  BY FirstSlot DEF ReadT, DelAvail
    <2>2. /\ del' = [del EXCEPT ![c][s0] = [j |-> pass[c].j, pos |-> pass[c].pos]]
          /\ comm' = [comm EXCEPT ![c] = s0]
          /\ jo' = [jo EXCEPT ![pass[c].j] = Started(@)]
      BY DEF ReadT
    <2>3. pass[c].j \in Job /\ pass[c].id \in Id /\ pass[c].pos \in Nat
      BY PassFacts DEF ReadT
    <2> HIDE DEF s0
    <2> QED  BY <2>1, <2>2, <2>3
  <1>1. /\ spc = "loop" /\ pass[c] # NoPass /\ n <= Len(rec[c][i])
        /\ rec[c][i][n] = "T"
        /\ pass' = [pass EXCEPT ![c].pos = @ + 1]
        /\ UNCHANGED <<stage, rec, note, pqchan, pqdone, pqfail, alive, out, rep, exitasap,
                        spc, cur, old, size, delivered, twice, excused, bounced, unclean>>
    BY <1>0 DEF ReadT, files, pqs, spawn, loop, hist, lapse
  <1>2. s \in Slot(c) /\ s \notin Used(c) /\ s # 0 /\ s \in Nat /\ s <= NumJobs
    BY <1>0, ConstAssumption DEF Slot
  <1>3. /\ j \in Job /\ j # 0 /\ Open(j) /\ Reads(j) /\ jo[j].chan = c /\ jo[j].id = i /\ i \in Id
        /\ ~jo[j].eof /\ rec[c][i] # <<>> /\ n \in 1 .. Len(rec[c][i])
        /\ Len(rec[c][i]) \in Nat /\ n \in Nat
    BY <1>0, <1>1, PassFacts DEF Job
  <1>4. /\ del'[c][s] = [j |-> j, pos |-> n] /\ del[c][s].j = 0
        /\ \A t \in Slot(c) : t # s => del'[c][t] = del[c][t]
        /\ \A b \in Chan : b # c => del'[b] = del[b]
    BY <1>0, <1>1, <1>2 DEF IInv, Types, Used
  <1>5. /\ pass'[c].j = j /\ pass'[c].id = i /\ pass'[c].pos = n + 1
        /\ \A b \in Chan : b # c => pass'[b] = pass[b]
        /\ \A b \in Chan : pass'[b].j = pass[b].j
    BY <1>0, <1>1 DEF IInv, Types
  <1>6. /\ jo'[j].numtodo = jo[j].numtodo + 1 /\ jo'[j].refs = jo[j].refs + 1
        /\ \A k \in Job : k # j => jo'[k] = jo[k]
        /\ \A k \in Job : jo'[k].id = jo[k].id /\ jo'[k].chan = jo[k].chan
                             /\ jo'[k].eof = jo[k].eof
        /\ jo[j].numtodo \in Nat /\ jo[j].refs \in Nat
    BY <1>0, <1>3 DEF IInv, Types, Started
  <1>61. jo' \in [Job -> JobType]
    <2>1. jo[j] \in JobType
      BY <1>3 DEF IInv, Types
    <2>2. Started(jo[j]) \in JobType  BY <2>1, StartedType
    <2> HIDE DEF JobType
    <2> QED  BY <1>0, <2>2 DEF IInv, Types
  <1>7. /\ Used(c)' = Used(c) \cup {s} /\ \A b \in Chan : b # c => Used(b)' = Used(b)
    <2>1. \A t \in Slot(c) : t \in Used(c)' <=> (t \in Used(c) \/ t = s)
      BY <1>2, <1>3, <1>4 DEF Used
    <2> QED  BY <1>2, <1>4, <2>1 DEF Used
  <1>16. \A b \in Chan : \A t \in Used(b) : del'[b][t] = del[b][t] /\ t \in Used(b)'
    BY <1>2, <1>4, <1>7 DEF Used
  <1>71. \A b \in Chan : \A t \in Used(b)' : t \in Used(b) \/ (b = c /\ t = s)
    BY <1>7
  <1>8. \A k \in Job :
          /\ Open(k)' <=> Open(k)
          /\ Open(k) => /\ Reads(k)' <=> Reads(k)
                        /\ File(k)' = File(k) /\ jo[k].chan \in Chan
    <2> SUFFICES ASSUME NEW k \in Job
                 PROVE  /\ Open(k)' <=> Open(k)
                        /\ Open(k) => /\ Reads(k)' <=> Reads(k)
                                      /\ File(k)' = File(k) /\ jo[k].chan \in Chan
      OBVIOUS
    <2>1. Open(k)' <=> Open(k)  BY <1>3, <1>6 DEF Open
    <2>2. Open(k) => jo[k].chan \in Chan  BY DEF IInv, Live, JobOK
    <2> QED  BY <1>1, <1>5, <1>6, <2>1, <2>2 DEF Reads, File
  <1>9. Types'
    <2>1. /\ DOMAIN del' = Chan
          /\ \A b \in Chan : del'[b] \in [Slot(b) -> DelType]
      <3>1. [j |-> j, pos |-> n] \in DelType
        BY <1>3, ConstAssumption DEF Job
      <3> QED  BY <1>0, <1>2, <3>1 DEF IInv, Types
    <2>2. pass' \in [Chan -> PassType]
      <3> HIDE DEF PassType
      <3>1. pass \in [Chan -> PassType]  BY DEF IInv, Types
      <3>2. [pass[c] EXCEPT !.pos = @ + 1] \in PassType  BY <3>1, PassOnType
      <3> QED  BY <1>1, <3>1, <3>2
    <2>3. comm' \in [Chan -> Nat] /\ \A b \in Chan : comm'[b] \in 0 .. Conc[b]
      <3>1. comm \in [Chan -> Nat] /\ \A b \in Chan : comm[b] \in 0 .. Conc[b]
        BY DEF IInv, Types
      <3>2. s \in 0 .. Conc[c]  BY <1>2, ConstAssumption DEF Slot
      <3> QED  BY <1>0, <1>2, <3>1, <3>2
    <2> QED  BY <1>1, <1>61, <2>1, <2>2, <2>3 DEF IInv, Types
  <1>10. JobRefs'
    <2> SUFFICES ASSUME NEW k \in Job
                 PROVE  jo'[k].refs = Cardinality(RefSlots(k)') + Cardinality(RefPasses(k)')
      BY JobRefsStep
    <2>1. RefPasses(k)' = RefPasses(k)  BY <1>5 DEF RefPasses
    <2>2. CASE k # j
      <3>1. RefSlots(k)' = RefSlots(k)
        <4> SUFFICES ASSUME NEW b \in Chan, NEW t \in 1 .. NumJobs
                     PROVE  (t \in Used(b)' /\ del'[b][t].j = k)
                              <=> (t \in Used(b) /\ del[b][t].j = k)
          BY DEF RefSlots
        <4> QED  BY <1>4, <1>16, <1>71, <2>2
      <3> QED  BY <1>6, <2>1, <2>2, <3>1, RefsOf
    <2>3. CASE k = j
      <3>1. <<c, s>> \in Chan \X (1 .. NumJobs)  BY <1>2, ConstAssumption DEF Slot
      <3>2. RefSlots(j)' = RefSlots(j) \cup {<<c, s>>}
        <4>1. \A b \in Chan, t \in 1 .. NumJobs :
                (t \in Used(b)' /\ del'[b][t].j = j)
                  <=> (t \in Used(b) /\ del[b][t].j = j) \/ <<b, t>> = <<c, s>>
          BY <1>4, <1>7, <1>16, <1>71
        <4> QED  BY <3>1, <4>1 DEF RefSlots
      <3>3. <<c, s>> \notin RefSlots(j)  BY <1>2 DEF RefSlots
      <3>4. Cardinality(RefSlots(j)') = Cardinality(RefSlots(j)) + 1
        BY <1>3, <3>2, <3>3, RefsFinite, FS_AddElement
      <3> QED  BY <1>3, <1>6, <2>1, <2>3, <3>4, RefsOf
    <2> QED  BY <2>2, <2>3
  <1>11. Live'
    <2>1. JobOK(j) /\ File(j) = rec[c][i]  BY <1>3 DEF IInv, Live, File
    <2>2. JobOK(j)'
      <3>1. jo'[j].chan = c /\ jo'[j].id = i /\ File(j)' = File(j)  BY <1>3, <1>6, <1>8
      <3>2. /\ jo[j].numtodo < n /\ jo[j].refs <= n
        BY <1>0, <1>3, <2>1 DEF JobOK
      <3>3. /\ jo'[j].numtodo <= Len(File(j)) /\ jo'[j].refs <= Len(File(j)) + 1
            /\ jo'[j].numtodo < pass'[c].pos /\ jo'[j].refs <= pass'[c].pos
            /\ pass'[c].pos \in 1 .. Len(File(j)) + 1
        <4>1. /\ n \in Nat /\ Len(File(j)) \in Nat /\ n \in 1 .. Len(File(j))
              /\ jo[j].numtodo \in Nat /\ jo[j].refs \in Nat
          BY <1>3, <1>6, <2>1
        <4>2. /\ pass'[c].pos = n + 1 /\ jo'[j].numtodo = jo[j].numtodo + 1
              /\ jo'[j].refs = jo[j].refs + 1
          BY <1>5, <1>6
        <4> HIDE DEF Open, File, Reads
        <4> QED  BY <3>2, <4>1, <4>2
      <3> QED  BY <1>3, <1>5, <1>6, <2>1, <3>1, <3>3 DEF JobOK
    <2>3. ASSUME NEW k \in Job, k # j, Open(k)
          PROVE  /\ jo'[k] = jo[k] /\ (Reads(k)' <=> Reads(k)) /\ File(k)' = File(k)
                 /\ Reads(k) => pass'[jo[k].chan] = pass[jo[k].chan]
      <3>1. Reads(k) => jo[k].chan # c  BY <1>3, <2>3 DEF Reads
      <3> QED  BY <1>5, <1>6, <1>8, <2>3, <3>1
    <2>4. ASSUME NEW k \in Job PROVE IF Open(k)' THEN JobOK(k)' ELSE jo'[k] = NoJob
      <3>1. CASE k = j  BY <1>3, <1>8, <2>2, <3>1
      <3>2. CASE k # j /\ Open(k)  BY <1>8, <2>3, <3>2 DEF IInv, Live, JobOK
      <3>3. CASE k # j /\ ~Open(k)  BY <1>6, <1>8, <3>3 DEF IInv, Live
      <3> QED  BY <3>1, <3>2, <3>3
    <2>5. ASSUME NEW b \in Chan, pass'[b] # NoPass PROVE PassOK(b)'
      <3>1. CASE b = c  BY <1>3, <1>5, <1>6, <1>8, <3>1 DEF PassOK
      <3>2. CASE b # c  BY <1>5, <1>6, <1>8, <2>5, <3>2 DEF PassOK, IInv, Live
      <3> QED  BY <3>1, <3>2
    <2>6. ASSUME NEW b \in Chan, NEW t \in Used(b)' PROVE SlotOK(b, t)'
      <3>1. CASE b = c /\ t = s
        BY <1>3, <1>4, <1>5, <1>6, <1>8, <2>1, <3>1 DEF SlotOK
      <3>2. CASE ~(b = c /\ t = s)
        <4>1. t \in Used(b) /\ del'[b][t] = del[b][t]  BY <1>2, <1>4, <1>7, <3>2 DEF Used
        <4>2. SlotOK(b, t) /\ del[b][t].j \in Job /\ jo[del[b][t].j].chan = b
              /\ del[b][t].pos \in Nat
          BY <4>1, SlotFacts DEF IInv, Live
        <4>3. CASE del[b][t].j = j
          <5>1. b = c /\ del[b][t].pos < n /\ del[b][t].pos \in 1 .. Len(File(j))
            BY <1>0, <1>3, <4>2, <4>3 DEF SlotOK
          <5> QED  BY <1>3, <1>5, <1>6, <1>8, <4>1, <4>2, <4>3, <5>1 DEF SlotOK
        <4>4. CASE del[b][t].j # j
          <5>1. Open(del[b][t].j)  BY <4>2 DEF SlotOK
          <5>2. /\ jo'[del[b][t].j] = jo[del[b][t].j] /\ Open(del[b][t].j)'
                /\ File(del[b][t].j)' = File(del[b][t].j)
                /\ Reads(del[b][t].j)' => Reads(del[b][t].j) /\ pass'[b] = pass[b]
            BY <1>8, <2>3, <4>1, <4>2, <4>4, <5>1
          <5> QED  BY <4>1, <4>2, <5>2 DEF SlotOK
        <4> QED  BY <4>3, <4>4
      <3> QED  BY <3>1, <3>2
    <2> QED  BY <2>4, <2>5, <2>6 DEF Live
  <1>12. Files' /\ Accounted' /\ Ending'  BY <1>1, Frame
  <1>13. Distinct'
    <2>1. ASSUME NEW t \in Used(c) PROVE del[c][t] # [j |-> j, pos |-> n]
      <3>1. SlotOK(c, t)  BY DEF IInv, Live
      <3> QED  BY <1>0, <1>3, <3>1 DEF SlotOK
    <2> SUFFICES ASSUME NEW b \in Chan, NEW t \in Used(b)', NEW u \in Used(b)',
                        del'[b][t] = del'[b][u]
                 PROVE  t = u
      BY DEF Distinct
    <2>2. t \in Used(b) /\ u \in Used(b) => t = u  BY <1>16 DEF IInv, Distinct
    <2> QED  BY <1>4, <1>16, <1>71, <2>1, <2>2
  <1>14. Placed'  BY <1>1, <1>6, <1>8 DEF IInv, Placed
  <1>15. OneStage'
    <2>1. s \notin out[c] /\ \A r \in Result : <<s, r>> \notin rep[c]
      BY <1>2 DEF IInv, OneStage
    <2>2. comm'[c] = s /\ \A b \in Chan : b # c => comm'[b] = comm[b]
      BY <1>0 DEF IInv, Types
    <2> QED  BY <1>1, <1>7, <2>1, <2>2 DEF IInv, OneStage, InHand
  <1>17. Marks'
    <2> SUFFICES ASSUME NEW b \in Chan, NEW t \in Slot(b), Unmarked(b, t)'
                 PROVE  rec[b][jo'[del'[b][t].j].id][del'[b][t].pos] = "T"
      BY <1>1 DEF Marks
    <2>1. CASE b = c /\ t = s  BY <1>1, <1>3, <1>4, <1>6, <2>1
    <2>2. CASE ~(b = c /\ t = s)
      <3>1. t \in Used(b) /\ Unmarked(b, t)
        BY <1>1, <1>7, <2>2 DEF Unmarked
      <3>2. rec[b][jo[del[b][t].j].id][del[b][t].pos] = "T"  BY <3>1 DEF IInv, Marks
      <3>3. del'[b][t] = del[b][t] /\ del[b][t].j \in Job  BY <1>16, <3>1, SlotFacts
      <3> QED  BY <1>6, <3>2, <3>3
    <2> QED  BY <2>1, <2>2
  <1>18. Counted'
    <2> SUFFICES ASSUME NEW k \in Job, Open(k)
                 PROVE  Cardinality(ToDo(k)') <= jo'[k].numtodo
      BY <1>8 DEF Counted
    <2>1. CASE k = j
      <3>1. ToDo(j)' \subseteq ToDo(j) \cup {n}
        <4> SUFFICES ASSUME NEW k0 \in 1 .. Len(File(j)), Waiting(j, k0)', k0 # n
                     PROVE  Waiting(j, k0)
          BY <1>3, <1>8 DEF ToDo
        <4>1. Upto(j)' = n /\ Upto(j) = n - 1
          BY <1>0, <1>3, <1>5, <1>6, <1>8 DEF Upto
        <4>2. k0 <= Upto(j)' => k0 <= Upto(j)
          <5>1. Len(File(j)) \in Nat  BY <1>3 DEF File
          <5> QED  BY <1>3, <4>1, <5>1
        <4>3. \A t \in Slot(c) : Unmarked(c, t)' /\ del'[c][t] = [j |-> j, pos |-> k0]
                => Unmarked(c, t) /\ del[c][t] = [j |-> j, pos |-> k0]
          BY <1>1, <1>4, <1>7 DEF Unmarked
        <4> QED  BY <1>1, <1>3, <1>6, <1>8, <4>2, <4>3 DEF Waiting, Told
      <3>2. IsFiniteSet(ToDo(j)) /\ Cardinality(ToDo(j)) \in Nat  BY <1>3, ToDoFinite
      <3>3. /\ IsFiniteSet(ToDo(j) \cup {n})
            /\ Cardinality(ToDo(j) \cup {n}) <= Cardinality(ToDo(j)) + 1
            /\ Cardinality(ToDo(j) \cup {n}) \in Nat
        BY <3>2, OneMore
      <3>4. Cardinality(ToDo(j)') <= Cardinality(ToDo(j) \cup {n})
            /\ Cardinality(ToDo(j)') \in Nat
        BY <3>1, <3>3, FS_Subset, FS_CardinalityType
      <3>5. Cardinality(ToDo(j)) <= jo[j].numtodo  BY <1>3 DEF IInv, Counted
      <3> QED  BY <1>6, <2>1, <3>2, <3>3, <3>4, <3>5
    <2>2. CASE k # j
      <3>1. jo'[k] = jo[k] /\ (Reads(k)' <=> Reads(k)) /\ File(k)' = File(k)
            /\ jo[k].chan \in Chan
        BY <1>6, <1>8, <2>2
      <3>2. Reads(k) => pass'[jo[k].chan] = pass[jo[k].chan]
        BY <1>3, <1>5, <2>2, <3>1 DEF Reads
      <3>3. \A b \in Chan : \A t \in Slot(b) : \A m \in Nat :
              Unmarked(b, t)' /\ del'[b][t] = [j |-> k, pos |-> m]
                => Unmarked(b, t) /\ del[b][t] = [j |-> k, pos |-> m]
        BY <1>1, <1>4, <1>7, <2>2 DEF Unmarked
      <3>4. ToDo(k)' \subseteq ToDo(k)
        <4>1. Upto(k)' = Upto(k)  BY <3>1, <3>2 DEF Upto
        <4> QED  BY <1>1, <3>1, <3>3, <4>1 DEF ToDo, Waiting, Told
      <3> QED  BY <3>1, <3>4, FewerOf
    <2> QED  BY <2>1, <2>2
  <1>19. Received' /\ TwiceOnlyExcused' /\ Reported'
    <2>1. \A x : Pending(x) => Pending(x)'
      BY <1>1, <1>6, <1>16, SameRecipients
    <2>2. Received'  BY <1>1, <2>1 DEF IInv, Received
    <2>3. \A b \in Chan : \A t \in Used(b) : RcptOf(b, t)' = RcptOf(b, t)
      BY <1>6, <1>16, SameRecipients
    <2>4. Reported'  BY <1>1, <2>3, RepFacts DEF IInv, Reported, Result
    <2> QED  BY <1>1, <2>2, <2>4 DEF IInv, TwiceOnlyExcused
  <1> QED
    BY <1>9, <1>10, <1>11, <1>12, <1>13, <1>14, <1>15, <1>17, <1>18, <1>19 DEF IInv

(* A DONE record is passed over.                                           *)
LEMMA ReadDOK == ASSUME IInv, NEW c \in Chan, ReadD(c) PROVE IInv'
  <1>0. PICK j \in Job, i \in Id, n \in Nat :
          pass[c].j = j /\ pass[c].id = i /\ pass[c].pos = n
    BY PassFacts DEF ReadD
  <1>1. /\ spc = "loop" /\ pass[c] # NoPass /\ n <= Len(rec[c][i]) /\ rec[c][i][n] = "D"
        /\ pass' = [pass EXCEPT ![c].pos = @ + 1]
        /\ UNCHANGED <<stage, rec, note, pqchan, pqdone, pqfail, jo, del, comm, alive, out, rep,
                       exitasap, spc, cur, old, size, delivered, twice, excused, bounced,
                       unclean>>
    BY <1>0 DEF ReadD, files, pqs, spawn, loop, hist, lapse
  <1>2. /\ Open(j) /\ Reads(j) /\ jo[j].chan = c /\ jo[j].id = i
        /\ n \in 1 .. Len(rec[c][i]) /\ Len(rec[c][i]) \in Nat /\ File(j) = rec[c][i]
    BY <1>0, <1>1, PassFacts DEF File
  <1>3. /\ pass'[c].j = j /\ pass'[c].id = i /\ pass'[c].pos = n + 1
        /\ \A b \in Chan : b # c => pass'[b] = pass[b]
        /\ \A b \in Chan : pass'[b].j = pass[b].j
    BY <1>0, <1>1 DEF IInv, Types
  <1>4. Types'
    <2>1. pass' \in [Chan -> PassType]
      <3> HIDE DEF PassType
      <3>1. pass \in [Chan -> PassType]  BY DEF IInv, Types
      <3>2. [pass[c] EXCEPT !.pos = @ + 1] \in PassType  BY <3>1, PassOnType
      <3> QED  BY <1>1, <3>1, <3>2
    <2> QED  BY <1>1, <2>1 DEF IInv, Types
  <1>5. JobRefs'  BY <1>1, <1>3 DEF IInv, JobRefs, Used, Slot
  <1>6. \A k \in Job : /\ Open(k)' <=> Open(k)
                       /\ File(k)' = File(k)
    BY <1>1 DEF Open, File
  <1>7. \A k \in Job : Open(k) =>
          /\ jo[k].chan \in Chan
          /\ Reads(k)' <=> Reads(k)
          /\ Reads(k) /\ k # j => pass'[jo[k].chan] = pass[jo[k].chan]
    <2> SUFFICES ASSUME NEW k \in Job, Open(k)
                 PROVE  /\ jo[k].chan \in Chan
                        /\ Reads(k)' <=> Reads(k)
                        /\ Reads(k) /\ k # j => pass'[jo[k].chan] = pass[jo[k].chan]
      OBVIOUS
    <2>1. jo[k].chan \in Chan  BY DEF IInv, Live, JobOK
    <2> QED  BY <1>0, <1>1, <1>3, <2>1 DEF Reads
  <1>8. Live'
    <2>1. ASSUME NEW k \in Job PROVE IF Open(k)' THEN JobOK(k)' ELSE jo'[k] = NoJob
      <3>1. CASE k = j
        <4>1. JobOK(j)  BY <1>2 DEF IInv, Live
        <4>2. jo[j].numtodo < n /\ jo[j].refs <= n  BY <1>0, <1>2, <4>1 DEF JobOK
        <4>3. jo[j].numtodo \in Nat /\ jo[j].refs \in Nat  BY DEF IInv, Types
        <4>4. jo[j].numtodo < n + 1 /\ jo[j].refs <= n + 1 /\ n + 1 \in 1 .. Len(File(j)) + 1
          BY <1>2, <4>2, <4>3
        <4> QED  BY <1>1, <1>2, <1>3, <1>6, <3>1, <4>1, <4>4 DEF JobOK
      <3>2. CASE k # j /\ Open(k)  BY <1>1, <1>6, <1>7, <3>2 DEF IInv, Live, JobOK
      <3>3. CASE ~Open(k)  BY <1>1, <1>6, <3>3 DEF IInv, Live
      <3> QED  BY <3>1, <3>2, <3>3
    <2>2. ASSUME NEW b \in Chan, pass'[b] # NoPass PROVE PassOK(b)'
      <3>1. pass[b] # NoPass  BY <1>1, <1>3, <2>2
      <3> QED  BY <1>1, <1>3, <3>1 DEF IInv, Live, PassOK, Open
    <2>3. ASSUME NEW b \in Chan, NEW t \in Used(b)' PROVE SlotOK(b, t)'
      <3>1. t \in Used(b)  BY <1>1 DEF Used, Slot
      <3>2. SlotOK(b, t) /\ del[b][t].j \in Job /\ jo[del[b][t].j].chan = b
            /\ del[b][t].pos \in Nat /\ Open(del[b][t].j)
        BY <3>1, SlotFacts DEF IInv, Live
      <3>3. CASE del[b][t].j = j
        <4>1. b = c /\ del[b][t].pos < n  BY <1>0, <1>2, <3>2, <3>3 DEF SlotOK
        <4> QED  BY <1>1, <1>2, <1>3, <1>6, <3>2, <3>3, <4>1 DEF SlotOK
      <3>4. CASE del[b][t].j # j
        BY <1>1, <1>6, <1>7, <3>2, <3>4 DEF SlotOK
      <3> QED  BY <3>3, <3>4
    <2> QED  BY <2>1, <2>2, <2>3 DEF Live
  <1>9. Files' /\ Distinct' /\ Placed' /\ OneStage' /\ Marks' /\ Received' /\ Reported'
        /\ Accounted' /\ Ending' /\ TwiceOnlyExcused'
    BY <1>1, Frame DEF IInv, TwiceOnlyExcused
  <1>10. Counted'
    <2> SUFFICES ASSUME NEW k \in Job, Open(k) PROVE ToDo(k)' \subseteq ToDo(k)
      BY <1>1, <1>6, FewerToDo
    <2>1. CASE k = j
      <3>1. Upto(j)' = n /\ Upto(j) = n - 1
        BY <1>0, <1>1, <1>2, <1>3, <1>7 DEF Upto
      <3> SUFFICES ASSUME NEW k0 \in 1 .. Len(File(j)), Waiting(j, k0)' PROVE Waiting(j, k0)
        BY <1>6, <2>1 DEF ToDo
      <3>2. k0 # n  BY <1>1, <1>2, <1>6 DEF Waiting
      <3>3. k0 <= Upto(j)' => k0 <= Upto(j)
        <4>1. Len(File(j)) \in Nat  BY <1>2
        <4> QED  BY <3>1, <3>2, <4>1
      <3> QED  BY <1>1, <1>6, <3>3 DEF Waiting, Told, Unmarked, Used, Slot
    <2>2. CASE k # j
      <3>1. Upto(k)' = Upto(k)
        <4>1. CASE Reads(k)
          <5>1. Upto(k) = pass[jo[k].chan].pos - 1  BY <4>1 DEF Upto
          <5>2. Upto(k)' = pass'[jo[k].chan].pos - 1  BY <1>1, <1>7, <4>1 DEF Upto
          <5> QED  BY <1>7, <2>2, <4>1, <5>1, <5>2
        <4>2. CASE ~Reads(k)  BY <1>1, <1>6, <1>7, <4>2 DEF Upto
        <4> QED  BY <4>1, <4>2
      <3> QED  BY <1>1, <1>6, <3>1 DEF ToDo, Waiting, Told, Unmarked, Used, Slot
    <2> QED  BY <2>1, <2>2
  <1> QED  BY <1>4, <1>5, <1>8, <1>9, <1>10 DEF IInv

-----------------------------------------------------------------------------
(* Two slots in use are about two recipients.                              *)
LEMMA OneSlotEach ==
  ASSUME IInv, NEW b \in Chan, NEW c \in Chan, NEW s \in Used(b), NEW t \in Used(c),
         RcptOf(b, s) = RcptOf(c, t)
  PROVE  b = c /\ s = t
  <1>1. /\ b = c /\ jo[del[b][s].j].id = jo[del[c][t].j].id /\ del[b][s].pos = del[c][t].pos
    BY SlotFacts
  <1>2. del[b][s].j = del[c][t].j
    <2>1. /\ del[b][s].j \in Job /\ Open(del[b][s].j) /\ jo[del[b][s].j].chan = b
          /\ del[c][t].j \in Job /\ Open(del[c][t].j) /\ jo[del[c][t].j].chan = c
      BY SlotFacts
    <2> QED  BY <1>1, <2>1 DEF IInv, Placed
  <1>3. del[b][s] \in DelType /\ del[c][t] \in DelType  BY DEF IInv, Types, Used
  <1>4. del[b][s] = del[c][t]  BY <1>1, <1>2, <1>3
  <1> QED  BY <1>1, <1>4 DEF IInv, Distinct

(* A command that is written moves from comm to the spawn program.         *)
LEMMA CommDoOK == ASSUME IInv, NEW c \in Chan, CommDo(c) PROVE IInv'
  <1>1. /\ spc = "loop" /\ alive[c] /\ comm[c] # 0
        /\ out' = [out EXCEPT ![c] = @ \cup {comm[c]}] /\ comm' = [comm EXCEPT ![c] = 0]
        /\ UNCHANGED <<stage, rec, note, pqchan, pqdone, pqfail, pass, jo, del, alive, rep,
                       exitasap, spc, cur, old, size, delivered, twice, excused, bounced,
                       unclean>>
    BY DEF CommDo, files, pqs, loop, hist, lapse
  <1>2. PICK s \in Used(c) : s = comm[c] /\ s \in Slot(c)  BY <1>1 DEF IInv, OneStage, Used
  <1>3. /\ out'[c] = out[c] \cup {s} /\ comm'[c] = 0
        /\ \A b \in Chan : b # c => out'[b] = out[b] /\ comm'[b] = comm[b]
    BY <1>1, <1>2 DEF IInv, Types
  <1>4. Types'
    <2>1. out' \in [Chan -> SUBSET Nat] /\ comm' \in [Chan -> Nat]
      BY <1>1, <1>2, ConstAssumption DEF IInv, Types, Slot
    <2>2. \A b \in Chan : comm'[b] \in 0 .. Conc[b] /\ out'[b] \subseteq Slot(b)
      <3> SUFFICES ASSUME NEW b \in Chan
                   PROVE  comm'[b] \in 0 .. Conc[b] /\ out'[b] \subseteq Slot(b)
        OBVIOUS
      <3>1. comm[b] \in 0 .. Conc[b] /\ out[b] \subseteq Slot(b) /\ Conc[b] \in Nat
        BY ConstAssumption DEF IInv, Types
      <3>2. CASE b = c  BY <1>2, <1>3, <3>1, <3>2
      <3>3. CASE b # c  BY <1>3, <3>1, <3>3
      <3> QED  BY <3>2, <3>3
    <2> QED  BY <1>1, <2>1, <2>2 DEF IInv, Types, Slot
  <1>5. JobRefs' /\ Live' /\ Files' /\ Distinct' /\ Placed' /\ Marks' /\ Received' /\ Reported'
        /\ Accounted' /\ Ending' /\ TwiceOnlyExcused'
    BY <1>1, Frame DEF IInv, TwiceOnlyExcused
  <1>6. OneStage'
    <2>1. \A b \in Chan : Used(b)' = Used(b)  BY <1>1 DEF Used, Slot
    <2>2. ~InHand(c, s) /\ \A r \in Result : <<s, r>> \notin rep[c]
      BY <1>1, <1>2 DEF IInv, OneStage
    <2> QED  BY <1>1, <1>2, <1>3, <2>1, <2>2 DEF IInv, OneStage, InHand, Slot
  <1>7. Counted'  BY <1>1, FrameCounted DEF Told, Unmarked, Used, Slot
  <1> QED  BY <1>4, <1>5, <1>6, <1>7 DEF IInv

(* A report speaks of a slot whose delivery was under way.                 *)
LEMMA SpawnReportOK ==
  ASSUME IInv, NEW c \in Chan, NEW s \in Slot(c), NEW r \in Result, SpawnReport(c, s, r)
  PROVE  IInv'
  <1>0. PICK x : x = RcptOf(c, s)  OBVIOUS
  <1>1. /\ s \in out[c] /\ out' = [out EXCEPT ![c] = @ \ {s}]
        /\ rep' = [rep EXCEPT ![c] = @ \cup {<<s, r>>}]
        /\ UNCHANGED <<stage, rec, note, pqchan, pqdone, pqfail, pass, jo, del, comm, alive,
                        exitasap, spc, cur, old, size, excused, bounced, unclean>>
    BY DEF SpawnReport, files, pqs, loop, lapse
  <1>2. /\ r = "K" => delivered' = delivered \cup {x} /\ twice' = twice \cup ({x} \cap delivered)
        /\ r # "K" => UNCHANGED <<delivered, twice>>
    BY <1>0 DEF SpawnReport, Receive
  <1>3. /\ out'[c] = out[c] \ {s} /\ rep'[c] = rep[c] \cup {<<s, r>>}
        /\ \A b \in Chan : b # c => out'[b] = out[b] /\ rep'[b] = rep[b]
    BY <1>1 DEF IInv, Types
  <1>4. s \in Used(c) /\ ~InHand(c, s) /\ alive[c] /\ \A q \in Result : <<s, q>> \notin rep[c]
    BY <1>1 DEF IInv, OneStage
  <1>5. /\ \A b \in Chan : Used(b)' = Used(b)
        /\ \A b \in Chan : \A t : RcptOf(b, t)' = RcptOf(b, t)
        /\ delivered \subseteq delivered'
    BY <1>1, <1>2 DEF Used, Slot, RcptOf
  <1>6. /\ x \in Rcpt /\ rec[c][x[2]] # <<>> /\ rec[c][x[2]][x[3]] = "T"
        /\ x[1] = c /\ x[2] \in Id /\ x[3] \in 1 .. size[c][x[2]] /\ x[3] \in 1 .. MaxRcpt
        /\ x = <<c, x[2], x[3]>>
    <2>1. Unmarked(c, s)  BY <1>4 DEF Unmarked, InHand
    <2>2. PICK m, p : m = jo[del[c][s].j].id /\ p = del[c][s].pos  OBVIOUS
    <2>3. /\ x = <<c, m, p>> /\ x \in Rcpt /\ m \in Id /\ rec[c][m] # <<>>
          /\ p \in 1 .. size[c][m]
      BY <1>0, <1>4, <2>2, SlotFacts
    <2>4. rec[c][m][p] = "T"  BY <2>1, <2>2 DEF IInv, Marks
    <2> QED  BY <2>3, <2>4 DEF Rcpt
  <1>7. Types'
    <2>1. out' \in [Chan -> SUBSET Nat] /\ \A b \in Chan : out'[b] \subseteq Slot(b)
      BY <1>1, <1>3 DEF IInv, Types
    <2>2. DOMAIN rep' = Chan /\ \A b \in Chan : rep'[b] \subseteq Slot(b) \X Result
      BY <1>1, <1>3 DEF IInv, Types
    <2>3. delivered' \subseteq Rcpt /\ twice' \subseteq Rcpt
      BY <1>2, <1>6 DEF IInv, Types
    <2> QED  BY <1>1, <2>1, <2>2, <2>3 DEF IInv, Types, Slot
  <1>8. JobRefs' /\ Live' /\ Files' /\ Distinct' /\ Placed' /\ Marks' /\ Ending'
    BY <1>1, Frame
  <1>9. OneStage'
    BY <1>1, <1>3, <1>4, <1>5 DEF IInv, OneStage, InHand, Slot
  <1>10. Counted'  BY <1>1, <1>5, FrameCounted DEF Told, Unmarked
  <1>11. Received'
    <2>1. ASSUME NEW y, Pending(y) PROVE Pending(y)'
      <3>0. PICK b \in Chan : \E t \in Used(b) :
              RcptOf(b, t) = y /\ (<<t, "K">> \in rep[b] \/ (spc = "mark" /\ cur = <<b, t>>))
        BY <2>1 DEF Pending
      <3>1. PICK t \in Used(b) :
              RcptOf(b, t) = y /\ (<<t, "K">> \in rep[b] \/ (spc = "mark" /\ cur = <<b, t>>))
        BY <3>0
      <3>2. <<t, "K">> \in rep[b] => <<t, "K">> \in rep'[b]  BY <1>3
      <3> QED  BY <1>1, <1>5, <3>1, <3>2 DEF Pending
    <2>2. r = "K" => Pending(x)'  BY <1>0, <1>3, <1>4, <1>5 DEF Pending
    <2> SUFFICES ASSUME NEW b \in Chan, NEW i \in Id, NEW k \in 1 .. MaxRcpt,
                        <<b, i, k>> \in delivered'
                 PROVE  /\ k \in 1 .. size[b][i]
                        /\ \/ <<b, i, k>> \in excused \/ rec[b][i] = <<>>
                           \/ rec[b][i][k] = "D" \/ Pending(<<b, i, k>>)'
      BY <1>1 DEF Received
    <2>3. CASE <<b, i, k>> \in delivered  BY <2>1, <2>3 DEF IInv, Received
    <2>4. CASE <<b, i, k>> \notin delivered
      <3>1. r = "K" /\ <<b, i, k>> = x  BY <1>2, <2>4
      <3>2. k \in 1 .. size[b][i]  BY <1>6, <3>1
      <3> QED  BY <2>2, <3>1, <3>2
    <2> QED  BY <2>3, <2>4
  <1>12. TwiceOnlyExcused'
    <2> SUFFICES ASSUME r = "K", x \in delivered PROVE x \in excused
      BY <1>1, <1>2 DEF IInv, TwiceOnlyExcused
    <2>1. ~Pending(x)
      <3> SUFFICES ASSUME NEW b \in Chan, NEW t \in Used(b), RcptOf(b, t) = x
                   PROVE  ~(<<t, "K">> \in rep[b] \/ (spc = "mark" /\ cur = <<b, t>>))
        BY DEF Pending
      <3>1. b = c /\ t = s  BY <1>0, <1>4, OneSlotEach
      <3> QED  BY <1>4, <3>1 DEF InHand, Result
    <2>2. <<c, x[2], x[3]>> \in delivered /\ ~Pending(<<c, x[2], x[3]>>)
      BY <1>6, <2>1
    <2>3. <<c, x[2], x[3]>> \in excused  BY <1>6, <2>2 DEF IInv, Received
    <2> QED  BY <1>6, <2>3
  <1>13. Reported'
    <2>1. ASSUME NEW b \in Chan, NEW t \in Slot(b), <<t, "K">> \in rep'[b]
          PROVE  RcptOf(b, t) \in delivered'
      <3>1. CASE <<t, "K">> \in rep[b]  BY <1>5, <3>1 DEF IInv, Reported
      <3>2. CASE <<t, "K">> \notin rep[b]
        <4>1. b = c /\ t = s /\ r = "K"  BY <1>3, <2>1, <3>2
        <4> QED  BY <1>0, <1>2, <4>1
      <3> QED  BY <3>1, <3>2
    <2>2. spc = "mark" => RcptOf(cur[1], cur[2]) \in delivered' \cup note
      BY <1>5 DEF IInv, Reported
    <2>3. RcptOf(cur[1], cur[2])' = RcptOf(cur[1], cur[2])  BY <1>1 DEF RcptOf
    <2> QED  BY <1>1, <1>5, <2>1, <2>2, <2>3 DEF IInv, Reported, NotesOf, Slot
  <1>14. Accounted'
    BY <1>1, <1>5 DEF IInv, Accounted
  <1> QED  BY <1>7, <1>8, <1>9, <1>10, <1>11, <1>12, <1>13, <1>14 DEF IInv

(* del_dochan takes a report: the slot is then in its hands alone.         *)
LEMMA ReportOK ==
  ASSUME IInv, NEW c \in Chan, NEW s \in Slot(c), NEW r \in Result, Report(c, s, r)
  PROVE  IInv'
  <1>0. PICK x : x = RcptOf(c, s)  OBVIOUS
  <1>1. /\ spc = "loop" /\ alive[c] /\ <<s, r>> \in rep[c]
        /\ rep' = [rep EXCEPT ![c] = @ \ {<<s, r>>}]
        /\ cur' = <<c, s>>
        /\ UNCHANGED <<stage, rec, pqchan, pqdone, pqfail, pass, jo, del, comm, alive, out,
                        exitasap, old, size, delivered, twice, excused, bounced, unclean>>
    BY DEF Report, pqs, hist, lapse
  <1>2. \/ spc' = "mark" /\ note' = note \cup {x}
        \/ spc' = "mark" /\ note' = note /\ r = "K"
        \/ spc' = "close" /\ note' = note /\ r = "Z"
    BY <1>0 DEF Report, Noted, Verdict, Result
  <1>3. /\ rep'[c] = rep[c] \ {<<s, r>>} /\ \A b \in Chan : b # c => rep'[b] = rep[b]
        /\ \A b \in Chan : rep'[b] \subseteq rep[b]
    BY <1>1 DEF IInv, Types
  <1>4. /\ s \in Used(c) /\ comm[c] # s /\ s \notin out[c] /\ x \in Rcpt
        /\ \A q \in Result : <<s, q>> \notin rep'[c]
    <2>1. s \in Used(c) /\ \A q \in Result : <<s, q>> \in rep[c] => q = r
      BY <1>1, RepFacts
    <2>2. comm[c] # s /\ s \notin out[c]
      BY <1>1, ConstAssumption DEF IInv, OneStage, Slot
    <2>3. x \in Rcpt  BY <1>0, <2>1, SlotFacts
    <2> QED  BY <1>3, <2>1, <2>2, <2>3
  <1>5. /\ \A b \in Chan : Used(b)' = Used(b)
        /\ \A b \in Chan : \A t : RcptOf(b, t)' = RcptOf(b, t)
    BY <1>1 DEF Used, Slot, RcptOf
  <1>6. spc' # "down" /\ spc' # "inject" /\ spc' # "unlink_bounce" /\ spc' # "unlink_info"
        /\ note \subseteq note'
    BY <1>2
  <1>7. Types'
    <2>1. DOMAIN rep' = Chan /\ \A b \in Chan : rep'[b] \subseteq Slot(b) \X Result
      BY <1>1, <1>3 DEF IInv, Types
    <2>2. note' \subseteq Rcpt  BY <1>2, <1>4 DEF IInv, Types
    <2> QED  BY <1>1, <2>1, <2>2 DEF IInv, Types, Slot
  <1>8. JobRefs' /\ Live' /\ Files' /\ Distinct'  BY <1>1, Frame
  <1>9. Placed'  BY <1>1, <1>6 DEF IInv, Placed, Open
  <1>10. OneStage'
    <2>1. \A b \in Chan : \A t : InHand(b, t)' <=> (b = c /\ t = s)
      BY <1>1, <1>2 DEF InHand
    <2>2. \A b \in Chan : \A t : ~InHand(b, t)  BY <1>1 DEF InHand
    <2>3. \A b \in Chan : comm[b] # 0 =>
            /\ comm[b] \in Used(b) /\ comm[b] \notin out[b] /\ ~(b = c /\ comm[b] = s)
            /\ \A q \in Result : <<comm[b], q>> \notin rep'[b]
      BY <1>3, <1>4 DEF IInv, OneStage
    <2>4. \A b \in Chan : \A t \in out[b] :
            t \in Used(b) /\ ~(b = c /\ t = s) /\ \A q \in Result : <<t, q>> \notin rep'[b]
      BY <1>3, <1>4 DEF IInv, OneStage
    <2>5. \A b \in Chan : \A t \in Slot(b) : \A p, q \in Result : <<t, q>> \in rep'[b] =>
            t \in Used(b) /\ ~(b = c /\ t = s) /\ (<<t, p>> \in rep'[b] => p = q)
      BY <1>3, <1>4 DEF IInv, OneStage
    <2>6. \A b \in Chan : ~alive[b] => out[b] = {} /\ rep'[b] = {}
      BY <1>3 DEF IInv, OneStage
    <2> HIDE DEF InHand
    <2>7. /\ spc' \in {"down", "loop", "mark", "close", "inject", "unlink_bounce", "unlink_info"}
          /\ \E b \in Chan : \E t \in Used(b)' : cur' = <<b, t>> /\ alive'[b]
      BY <1>1, <1>2, <1>4, <1>5
    <2> QED  BY <1>1, <1>5, <1>6, <2>1, <2>3, <2>4, <2>5, <2>6, <2>7 DEF OneStage, Slot
  <1>11. \A b \in Chan : \A t \in Slot(b) : Unmarked(b, t)' => Unmarked(b, t)
    BY <1>1, <1>5 DEF Unmarked
  <1>12. Marks'  BY <1>1, <1>11 DEF IInv, Marks, Slot
  <1>13. Counted'  BY <1>1, <1>6, <1>11, FrameCounted DEF Told
  <1>14. Received'
    <2>1. ASSUME NEW y, Pending(y) PROVE Pending(y)'
      <3>1. PICK b \in Chan : \E t \in Used(b) : RcptOf(b, t) = y /\ <<t, "K">> \in rep[b]
        BY <1>1, <2>1 DEF Pending
      <3>2. PICK t \in Used(b) : RcptOf(b, t) = y /\ <<t, "K">> \in rep[b]
        BY <3>1
      <3>3. CASE b = c /\ t = s
        <4>1. r = "K"  BY <1>1, <3>2, <3>3, RepFacts DEF Result
        <4> QED  BY <1>1, <1>2, <1>5, <3>2, <3>3, <4>1 DEF Pending
      <3>4. CASE ~(b = c /\ t = s)
        <4>1. <<t, "K">> \in rep'[b]  BY <1>3, <3>2, <3>4
        <4> QED  BY <1>5, <3>2, <4>1 DEF Pending
      <3> QED  BY <3>3, <3>4
    <2> QED  BY <1>1, <2>1 DEF IInv, Received
  <1>15. Reported'
    <2>1. spc' = "mark" => x \in delivered' \cup note'
      <3>1. r = "K" => x \in delivered  BY <1>0, <1>1 DEF IInv, Reported
      <3>2. spc' = "mark" => x \in note' \/ r = "K"  BY <1>2
      <3> QED  BY <1>1, <3>1, <3>2
    <2>2. \A b \in Chan : \A t \in Slot(b) : <<t, "K">> \in rep'[b] => RcptOf(b, t) \in delivered
      BY <1>3 DEF IInv, Reported
    <2>3. cur'[1] = c /\ cur'[2] = s /\ RcptOf(cur[1], cur[2])' = x
      BY <1>0, <1>1, <1>5 DEF RcptOf
    <2> QED  BY <1>1, <1>5, <1>6, <2>1, <2>2, <2>3 DEF Reported, Slot
  <1>16. Accounted'  BY <1>1, <1>6 DEF IInv, Accounted
  <1>17. Ending'  BY <1>1, <1>6 DEF IInv, Ending, HasFile
  <1>18. TwiceOnlyExcused'  BY <1>1 DEF IInv, TwiceOnlyExcused
  <1> QED  BY <1>7, <1>8, <1>9, <1>10, <1>12, <1>13, <1>14, <1>15, <1>16, <1>17, <1>18 DEF IInv

(* A dead spawn program takes with it what it had not reported.            *)
LEMMA SpawnDiedOK == ASSUME IInv, NEW c \in Chan, SpawnDied(c) PROVE IInv'
  <1>0. PICK X \in SUBSET {RcptOf(c, s) : s \in out[c]} :
          delivered' = delivered \cup X /\ twice' = twice \cup (X \cap delivered)
    BY DEF SpawnDied, Receive
  <1>1. /\ spc = "loop" /\ alive[c]
        /\ alive' = [alive EXCEPT ![c] = FALSE] /\ exitasap' = TRUE
        /\ out' = [out EXCEPT ![c] = {}] /\ rep' = [rep EXCEPT ![c] = {}]
        /\ excused' = excused \cup {RcptOf(c, s) : s \in Used(c)}
        /\ UNCHANGED <<stage, rec, note, pqchan, pqdone, pqfail, pass, jo, del, comm,
                        spc, cur, old, size, bounced, unclean>>
    BY DEF SpawnDied, files, pqs, loop, lapse
  <1>2. /\ out'[c] = {} /\ rep'[c] = {} /\ ~alive'[c]
        /\ \A b \in Chan : b # c => out'[b] = out[b] /\ rep'[b] = rep[b] /\ alive'[b] = alive[b]
    BY <1>1 DEF IInv, Types
  <1>3. out[c] \subseteq Used(c)  BY DEF IInv, OneStage
  <1>4. \A x \in X : /\ x \in excused' /\ x \in Rcpt
                     /\ x[1] \in Chan /\ x[2] \in Id /\ x[3] \in 1 .. size[x[1]][x[2]]
    <2> SUFFICES ASSUME NEW s \in Used(c)
                 PROVE  LET x == RcptOf(c, s) IN
                        /\ x \in excused' /\ x \in Rcpt
                        /\ x[1] \in Chan /\ x[2] \in Id /\ x[3] \in 1 .. size[x[1]][x[2]]
      BY <1>0, <1>3
    <2> QED  BY <1>1, SlotFacts
  <1>5. /\ \A b \in Chan : Used(b)' = Used(b)
        /\ \A b \in Chan : \A t : RcptOf(b, t)' = RcptOf(b, t)
        /\ delivered \subseteq delivered' /\ excused \subseteq excused'
    BY <1>0, <1>1 DEF Used, Slot, RcptOf
  <1>6. \A s \in Used(c) : RcptOf(c, s) \in excused' /\ RcptOf(c, s) \in Rcpt
    BY <1>1, SlotFacts
  <1>7. Types'
    <2>1. /\ delivered' \subseteq Rcpt /\ twice' \subseteq Rcpt /\ excused' \subseteq Rcpt
      BY <1>0, <1>1, <1>4, <1>6 DEF IInv, Types
    <2>2. /\ out' \in [Chan -> SUBSET Nat] /\ \A b \in Chan : out'[b] \subseteq Slot(b)
          /\ DOMAIN rep' = Chan /\ \A b \in Chan : rep'[b] \subseteq Slot(b) \X Result
          /\ alive' \in [Chan -> BOOLEAN]
      BY <1>1, <1>2 DEF IInv, Types
    <2> QED  BY <1>1, <2>1, <2>2 DEF IInv, Types, Slot
  <1>8. JobRefs' /\ Live' /\ Files' /\ Distinct' /\ Placed' /\ Marks' /\ Ending'
    BY <1>1, Frame
  <1>9. OneStage'  BY <1>1, <1>2, <1>5 DEF IInv, OneStage, InHand, Slot
  <1>10. Counted'  BY <1>1, <1>5, FrameCounted DEF Told, Unmarked
  <1>11. Received'
    <2>1. ASSUME NEW y, Pending(y) PROVE Pending(y)' \/ y \in excused'
      <3>1. PICK b \in Chan : \E t \in Used(b) : RcptOf(b, t) = y /\ <<t, "K">> \in rep[b]
        BY <1>1, <2>1 DEF Pending
      <3>2. PICK t \in Used(b) : RcptOf(b, t) = y /\ <<t, "K">> \in rep[b]
        BY <3>1
      <3>3. CASE b = c  BY <1>6, <3>2, <3>3
      <3>4. CASE b # c  BY <1>2, <1>5, <3>2, <3>4 DEF Pending
      <3> QED  BY <3>3, <3>4
    <2> SUFFICES ASSUME NEW b \in Chan, NEW i \in Id, NEW k \in 1 .. MaxRcpt,
                        <<b, i, k>> \in delivered'
                 PROVE  /\ k \in 1 .. size[b][i]
                        /\ \/ <<b, i, k>> \in excused' \/ rec[b][i] = <<>>
                           \/ rec[b][i][k] = "D" \/ Pending(<<b, i, k>>)'
      BY <1>1 DEF Received
    <2>2. CASE <<b, i, k>> \in delivered  BY <1>5, <2>1, <2>2 DEF IInv, Received
    <2>3. CASE <<b, i, k>> \in X  BY <1>4, <2>3
    <2> QED  BY <1>0, <2>2, <2>3
  <1>12. TwiceOnlyExcused'  BY <1>0, <1>4, <1>5 DEF IInv, TwiceOnlyExcused
  <1>13. Reported'
    <2>1. \A b \in Chan : \A t \in Slot(b) : <<t, "K">> \in rep'[b] => RcptOf(b, t) \in delivered'
      BY <1>2, <1>5 DEF IInv, Reported
    <2> QED  BY <1>1, <1>5, <2>1 DEF Reported, Slot
  <1>14. Accounted'  BY <1>1, <1>5 DEF IInv, Accounted
  <1> QED  BY <1>7, <1>8, <1>9, <1>10, <1>11, <1>12, <1>13, <1>14 DEF IInv

-----------------------------------------------------------------------------
(* The end of a message is on its own: no delivery is looked at.           *)
Ends == {"inject", "unlink_bounce", "unlink_info"}
(* The end of a message touches nothing that its channels still use.       *)
LEMMA EndFrame ==
  ASSUME IInv, spc \in Ends \cup {"loop"}, spc' \in Ends \cup {"loop"},
         UNCHANGED <<rec, pqchan, pass, jo, del, comm, alive, out, rep, size, delivered,
                     twice, excused, unclean>>
  PROVE  /\ JobRefs' /\ Live' /\ Distinct' /\ Placed' /\ Marks' /\ Received' /\ TwiceOnlyExcused'
         /\ Told \subseteq Told' => Counted'
         /\ (spc' \in Ends => cur' \in Id /\ stage'[cur'] = "info"
                              /\ \A c \in Chan : rec[c][cur'] = <<>>) => OneStage'
  <1> USE DEF Ends
  <1>1. JobRefs' /\ Live' /\ Distinct'  BY Frame
  <1>2. Placed'  BY DEF IInv, Placed, Open
  <1>3. \A c \in Chan : \A s \in Slot(c) : Unmarked(c, s)' <=> Unmarked(c, s)
    BY DEF Unmarked, Used, Slot
  <1>4. Marks'  BY <1>3 DEF IInv, Marks, Slot
  <1>5. Told \subseteq Told' => Counted'  BY <1>3, FrameCounted
  <1>6. Received'
    <2>1. ASSUME NEW x, Pending(x) PROVE Pending(x)'
      BY <2>1 DEF Pending, RcptOf, Used, Slot
    <2> QED  BY <2>1 DEF IInv, Received
  <1>7. TwiceOnlyExcused'  BY DEF IInv, TwiceOnlyExcused
  <1>8. ASSUME spc' \in Ends => cur' \in Id /\ stage'[cur'] = "info"
                                /\ \A c \in Chan : rec[c][cur'] = <<>>
        PROVE  OneStage'
    <2>1. \A c \in Chan : \A s : ~InHand(c, s) /\ ~InHand(c, s)'  BY DEF InHand
    <2>2. \A c \in Chan : Used(c)' = Used(c)  BY DEF Used, Slot
    <2> HIDE DEF InHand
    <2> QED  BY <1>8, <2>1, <2>2 DEF IInv, OneStage, Slot
  <1> QED  BY <1>1, <1>2, <1>4, <1>5, <1>6, <1>7, <1>8

(* What OneStage says of the message in messdone.                          *)
LEMMA CurFacts ==
  ASSUME IInv, spc \in Ends
  PROVE  cur \in Id /\ stage[cur] = "info" /\ \A c \in Chan : rec[c][cur] = <<>>
  BY DEF IInv, OneStage, Ends

(* messdone() takes a message whose recipients are all done.               *)
LEMMA MessdoneOK == ASSUME IInv, NEW i \in Id, Messdone(i) PROVE IInv'
  <1>1. /\ spc = "loop" /\ pqdone[i] > 0 /\ pqdone' = [pqdone EXCEPT ![i] = @ - 1]
        /\ IF ~HasFile(i) /\ stage[i] = "info"
             THEN spc' = "inject" /\ cur' = i ELSE spc' = spc /\ cur' = cur
        /\ UNCHANGED <<stage, rec, note, pqchan, pqfail, pass, jo, del, comm, alive, out, rep,
                        exitasap, old, size, delivered, twice, excused, bounced, unclean>>
    BY DEF Messdone, files, spawn, hist, loop, lapse
  <1>2. spc \in Ends \cup {"loop"} /\ spc' \in Ends \cup {"loop"} /\ Told \subseteq Told'
    BY <1>1 DEF Ends, Told
  <1>3. spc' \in Ends => cur' \in Id /\ stage'[cur'] = "info"
                         /\ \A c \in Chan : rec[c][cur'] = <<>>
    BY <1>1 DEF Ends, HasFile
  <1>4. /\ JobRefs' /\ Live' /\ Distinct' /\ Placed' /\ Marks' /\ Received' /\ TwiceOnlyExcused'
        /\ Counted' /\ OneStage'
    BY <1>1, <1>2, <1>3, EndFrame
  <1>5. Types'
    <2>1. pqdone' \in [Id -> Nat]  BY <1>1 DEF IInv, Types
    <2> QED  BY <1>1, <2>1 DEF IInv, Types, Slot
  <1>6. Files' /\ Accounted'  BY <1>1, Frame
  <1>7. Reported'
    <2>1. \A b \in Chan : \A t : RcptOf(b, t)' = RcptOf(b, t)  BY <1>1 DEF RcptOf
    <2> QED  BY <1>1, <1>2, <2>1 DEF IInv, Reported, Ends, Slot
  <1>8. Ending'
    <2> SUFFICES ASSUME NEW m \in Id, stage[m] = "info", ~HasFile(m), m \notin unclean
                 PROVE  pqdone'[m] > 0 \/ (spc' = "inject" /\ cur' = m)
      BY <1>1 DEF Ending, HasFile
    <2>1. CASE m = i  BY <1>1, <2>1
    <2>2. CASE m # i
      <3>1. pqdone'[m] = pqdone[m]  BY <1>1, <2>2 DEF IInv, Types
      <3> QED  BY <1>1, <3>1 DEF IInv, Ending
    <2> QED  BY <2>1, <2>2
  <1> QED  BY <1>4, <1>5, <1>6, <1>7, <1>8 DEF IInv

(* The bounce is queued before bounce/ goes.                               *)
LEMMA InjectOK == ASSUME IInv, Inject PROVE IInv'
  <1>1. /\ spc = "inject" /\ spc' = "unlink_bounce" /\ bounced' = bounced \cup NotesOf(cur)
        /\ UNCHANGED <<stage, rec, note, pqchan, pqdone, pqfail, pass, jo, del, comm, alive, out,
                        rep, exitasap, cur, old, size, delivered, twice, excused, unclean>>
    BY DEF Inject, files, pqs, spawn, lapse
  <1>2. spc \in Ends /\ spc' \in Ends /\ Told \subseteq Told'  BY <1>1 DEF Ends, Told
  <1>3. /\ JobRefs' /\ Live' /\ Distinct' /\ Placed' /\ Marks' /\ Received' /\ TwiceOnlyExcused'
        /\ Counted' /\ OneStage'
    BY <1>1, <1>2, CurFacts, EndFrame
  <1>4. Types'
    <2>1. bounced' \subseteq Rcpt  BY <1>1 DEF IInv, Types, NotesOf
    <2> QED  BY <1>1, <2>1 DEF IInv, Types, Slot
  <1>5. Files'  BY <1>1, Frame
  <1>6. Accounted'  BY <1>1 DEF IInv, Accounted
  <1>7. Reported'
    <2>1. \A b \in Chan : \A t : RcptOf(b, t)' = RcptOf(b, t)  BY <1>1 DEF RcptOf
    <2>2. NotesOf(cur)' = NotesOf(cur)  BY <1>1 DEF NotesOf
    <2> QED  BY <1>1, <2>1, <2>2 DEF IInv, Reported, Slot
  <1>8. Ending'  BY <1>1 DEF IInv, Ending, HasFile
  <1> QED  BY <1>3, <1>4, <1>5, <1>6, <1>7, <1>8 DEF IInv

(* bounce/ goes when each of its notes has been sent.                      *)
LEMMA UnlinkBounceOK == ASSUME IInv, UnlinkBounce PROVE IInv'
  <1>1. /\ spc = "unlink_bounce" /\ spc' = "unlink_info" /\ note' = note \ NotesOf(cur)
        /\ UNCHANGED <<stage, rec, pqchan, pqdone, pqfail, pass, jo, del, comm, alive, out, rep,
                       exitasap, cur, old, size, delivered, twice, excused, bounced, unclean>>
    BY DEF UnlinkBounce, pqs, spawn, hist, lapse
  <1>2. NotesOf(cur) \subseteq bounced  BY <1>1 DEF IInv, Reported
  <1>3. spc \in Ends /\ spc' \in Ends /\ Told \subseteq Told'  BY <1>1, <1>2 DEF Ends, Told
  <1>4. /\ JobRefs' /\ Live' /\ Distinct' /\ Placed' /\ Marks' /\ Received' /\ TwiceOnlyExcused'
        /\ Counted' /\ OneStage'
    BY <1>1, <1>3, CurFacts, EndFrame
  <1>5. Types'  BY <1>1 DEF IInv, Types, Slot
  <1>6. Files'  BY <1>1, Frame
  <1>7. Accounted'
    <2>1. Told' = delivered \cup note' \cup bounced  BY <1>1 DEF Told
    <2> QED  BY <1>1, <1>3, <2>1 DEF IInv, Accounted, Told
  <1>8. Reported'
    <2>1. \A b \in Chan : \A t : RcptOf(b, t)' = RcptOf(b, t)  BY <1>1 DEF RcptOf
    <2> QED  BY <1>1, <2>1 DEF IInv, Reported, Slot
  <1>9. Ending'  BY <1>1 DEF IInv, Ending, HasFile
  <1> QED  BY <1>4, <1>5, <1>6, <1>7, <1>8, <1>9 DEF IInv

(* info/ goes last, with no file and no note left.                         *)
LEMMA UnlinkInfoOK == ASSUME IInv, UnlinkInfo PROVE IInv'
  <1>01. exitasap \in BOOLEAN  BY DEF IInv, Types
  <1>1. /\ spc = "unlink_info" /\ spc' = "loop" /\ stage' = [stage EXCEPT ![cur] = "gone"]
        /\ exitasap' \in BOOLEAN
        /\ UNCHANGED <<rec, note, pqchan, pqdone, pqfail, pass, jo, del, comm, alive, out, rep,
                        old, size, delivered, twice, excused, bounced, unclean>>
    BY <1>01 DEF UnlinkInfo, pqs, spawn, hist, lapse
  <1>2. spc \in Ends /\ spc' \in Ends \cup {"loop"} /\ spc' \notin Ends /\ Told \subseteq Told'
    BY <1>1 DEF Ends, Told
  <1>3. cur \in Id /\ \A c \in Chan : rec[c][cur] = <<>>  BY <1>2, CurFacts
  <1>4. /\ JobRefs' /\ Live' /\ Distinct' /\ Placed' /\ Marks' /\ Received' /\ TwiceOnlyExcused'
        /\ Counted' /\ OneStage'
    BY <1>1, <1>2, EndFrame
  <1>5. stage'[cur] = "gone" /\ \A m \in Id : m # cur => stage'[m] = stage[m]
    BY <1>1, <1>3 DEF IInv, Types
  <1>6. Types'
    <2>1. stage' \in [Id -> {"todo", "partial", "info", "gone"}]  BY <1>1 DEF IInv, Types
    <2> QED  BY <1>1, <2>1 DEF IInv, Types, Slot
  <1>7. Files'  BY <1>1, <1>3, <1>5 DEF IInv, Files
  <1>8. Accounted'  BY <1>1, Frame
  <1>9. Reported'
    <2>1. \A b \in Chan : \A t : RcptOf(b, t)' = RcptOf(b, t)  BY <1>1 DEF RcptOf
    <2> QED  BY <1>1, <2>1 DEF IInv, Reported, Slot
  <1>10. Ending'  BY <1>1, <1>5 DEF IInv, Ending, HasFile
  <1> QED  BY <1>4, <1>6, <1>7, <1>8, <1>9, <1>10 DEF IInv

(* A failure puts the message back into pqdone.                            *)
LEMMA MessdoneFailOK == ASSUME IInv, MessdoneFail PROVE IInv'
  <1>1. /\ spc \in Ends /\ spc' = "loop" /\ pqdone' = [pqdone EXCEPT ![cur] = @ + 1]
        /\ UNCHANGED <<stage, rec, note, pqchan, pqfail, pass, jo, del, comm, alive, out, rep,
                        exitasap, old, size, delivered, twice, excused, bounced, unclean>>
    BY DEF MessdoneFail, Again, files, spawn, hist, Ends, lapse
  <1>2. spc' \in Ends \cup {"loop"} /\ spc' \notin Ends /\ Told \subseteq Told'
    BY <1>1 DEF Ends, Told
  <1>3. /\ JobRefs' /\ Live' /\ Distinct' /\ Placed' /\ Marks' /\ Received' /\ TwiceOnlyExcused'
        /\ Counted' /\ OneStage'
    BY <1>1, <1>2, EndFrame
  <1>4. Types'
    <2>1. pqdone \in [Id -> Nat] /\ cur \in Id  BY <1>1, CurFacts DEF IInv, Types
    <2>2. pqdone' \in [Id -> Nat]  BY <1>1, <2>1
    <2> QED  BY <1>1, <2>2 DEF IInv, Types, Slot
  <1>5. Files' /\ Accounted'  BY <1>1, Frame
  <1>6. Reported'
    <2>1. \A b \in Chan : \A t : RcptOf(b, t)' = RcptOf(b, t)  BY <1>1 DEF RcptOf
    <2> QED  BY <1>1, <2>1 DEF IInv, Reported, Slot
  <1>7. Ending'
    <2> SUFFICES ASSUME NEW m \in Id, stage[m] = "info", ~HasFile(m), m \notin unclean
                 PROVE  pqdone'[m] > 0
      BY <1>1 DEF Ending, HasFile
    <2>1. pqdone \in [Id -> Nat] /\ cur \in Id  BY <1>1, CurFacts DEF IInv, Types
    <2>2. CASE m = cur
      <3>1. pqdone'[m] = pqdone[m] + 1 /\ pqdone[m] \in Nat  BY <1>1, <2>1, <2>2
      <3> QED  BY <3>1
    <2>3. CASE m # cur
      <3>1. pqdone'[m] = pqdone[m]  BY <1>1, <2>1, <2>3
      <3> QED  BY <1>1, <2>3, <3>1 DEF IInv, Ending, Ends
    <2> QED  BY <2>2, <2>3
  <1> QED  BY <1>3, <1>4, <1>5, <1>6, <1>7 DEF IInv

-----------------------------------------------------------------------------
(* The jobs of one file are one, so a file that changes is of one job.     *)
LEMMA OtherFile ==
  ASSUME IInv, NEW j \in Job, NEW k \in Job, Open(j), Open(k), k # j,
         \A c \in Chan, i \in Id : <<c, i>> # <<jo[j].chan, jo[j].id>> => rec'[c][i] = rec[c][i],
         jo'[k].chan = jo[k].chan, jo'[k].id = jo[k].id
  PROVE  File(k)' = File(k)
  <1>1. jo[k].chan \in Chan /\ jo[k].id \in Id  BY DEF IInv, Live, JobOK
  <1>2. <<jo[k].chan, jo[k].id>> # <<jo[j].chan, jo[j].id>>  BY DEF IInv, Placed
  <1> QED  BY <1>1, <1>2 DEF File

(* markdone changes one letter of one file.                                *)
LEMMA MarkedFile ==
  ASSUME NEW f \in Seq({"T", "D"}), NEW n \in 1 .. Len(f), NEW g, g = [f EXCEPT ![n] = "D"]
  PROVE  /\ g \in Seq({"T", "D"}) /\ Len(g) = Len(f) /\ g[n] = "D" /\ g # <<>>
         /\ \A k \in 1 .. Len(f) : k # n => g[k] = f[k]
  <1>1. Len(f) \in Nat /\ n \in DOMAIN f  OBVIOUS
  <1>2. g \in Seq({"T", "D"}) /\ Len(g) = Len(f)  OBVIOUS
  <1>3. g[n] = "D" /\ \A k \in 1 .. Len(f) : k # n => g[k] = f[k]  OBVIOUS
  <1>4. Len(f) # 0  BY <1>1
  <1>5. g # <<>>  BY <1>2, <1>4
  <1> QED  BY <1>2, <1>3, <1>5

(* markdone, or the failure of markdone, and --numtodo.                    *)
LEMMA MarkOK == ASSUME IInv, Mark PROVE IInv'
  <1>0. PICK c \in Chan : \E s \in Used(c) : cur = <<c, s>> /\ alive[c]
    BY DEF IInv, OneStage, Mark
  <1>1. PICK s \in Used(c) : cur = <<c, s>>  BY <1>0
  <1>2. PICK j \in Job, i \in Id, n \in 1 .. MaxRcpt :
          /\ del[c][s].j = j /\ jo[j].id = i /\ del[c][s].pos = n
          /\ Open(j) /\ jo[j].chan = c /\ File(j) = rec[c][i] /\ n \in 1 .. Len(rec[c][i])
          /\ rec[c][i] # <<>> /\ Len(rec[c][i]) = size[c][i] /\ RcptOf(c, s) = <<c, i, n>>
          /\ stage[i] = "info"
    BY SlotFacts DEF File
  <1>3. /\ spc = "mark" /\ spc' = "close"
        /\ jo' = [jo EXCEPT ![j].numtodo = @ - 1]
        /\ UNCHANGED <<stage, note, pqchan, pqdone, pqfail, pass, del, comm, alive, out, rep,
                        exitasap, cur, old, size, delivered, twice, bounced, unclean>>
    BY <1>1, <1>2 DEF Mark, pqs, spawn, lapse
  <1>4. \/ rec' = [rec EXCEPT ![c][i][n] = "D"] /\ excused' = excused
        \/ rec' = rec /\ excused' = excused \cup {<<c, i, n>>}
    BY <1>1, <1>2 DEF Mark
  <1>5. rec[c][i] \in Seq({"T", "D"}) /\ Len(rec[c][i]) \in Nat  BY DEF IInv, Types
  <1>6. /\ \A b \in Chan, m \in Id : <<b, m>> # <<c, i>> => rec'[b][m] = rec[b][m]
        /\ rec'[c][i] = [rec[c][i] EXCEPT ![n] = "D"] \/ rec'[c][i] = rec[c][i]
    <2>1. rec \in [Chan -> [Id -> Seq({"T", "D"})]]  BY DEF IInv, Types
    <2>2. CASE rec' = rec  BY <2>2
    <2>3. CASE rec' = [rec EXCEPT ![c][i][n] = "D"]
      <3>1. rec' = [rec EXCEPT ![c] = [rec[c] EXCEPT ![i] = [rec[c][i] EXCEPT ![n] = "D"]]]
        BY <2>1, <2>3
      <3> QED  BY <2>1, <3>1
    <2> QED  BY <1>4, <2>2, <2>3
  <1>7. /\ rec'[c][i] \in Seq({"T", "D"}) /\ Len(rec'[c][i]) = Len(rec[c][i])
        /\ rec'[c][i] # <<>>
        /\ \A k \in 1 .. Len(rec[c][i]) : k # n => rec'[c][i][k] = rec[c][i][k]
        /\ rec'[c][i][n] = "D" \/ <<c, i, n>> \in excused'
    <2>1. CASE rec' = [rec EXCEPT ![c][i][n] = "D"] /\ excused' = excused
      <3>1. rec'[c][i] = [rec[c][i] EXCEPT ![n] = "D"]  BY <2>1 DEF IInv, Types
      <3> QED  BY <1>2, <1>5, <3>1, MarkedFile
    <2>2. CASE rec' = rec /\ excused' = excused \cup {<<c, i, n>>}
      BY <1>2, <1>5, <2>2
    <2> QED  BY <1>4, <2>1, <2>2
  <1>8. /\ \A b \in Chan, m \in Id :
             /\ Len(rec'[b][m]) = Len(rec[b][m])
             /\ rec'[b][m] = <<>> <=> rec[b][m] = <<>>
        /\ excused \subseteq excused'
    <2>1. ASSUME NEW b \in Chan, NEW m \in Id
          PROVE  Len(rec'[b][m]) = Len(rec[b][m]) /\ (rec'[b][m] = <<>> <=> rec[b][m] = <<>>)
      <3>1. CASE b = c /\ m = i  BY <1>2, <1>7, <3>1
      <3>2. CASE ~(b = c /\ m = i)
        <4>1. rec'[b][m] = rec[b][m]  BY <1>6, <3>2
        <4> QED  BY <4>1
      <3> QED  BY <3>1, <3>2
    <2>2. excused \subseteq excused'  BY <1>4
    <2> QED  BY <2>1, <2>2
  <1>9. /\ \A b \in Chan : Used(b)' = Used(b)
        /\ \A k \in Job : /\ k # j => jo'[k] = jo[k]
                          /\ jo'[k].id = jo[k].id /\ jo'[k].chan = jo[k].chan
                          /\ jo'[k].eof = jo[k].eof /\ jo'[k].refs = jo[k].refs
                          /\ jo'[k].dying = jo[k].dying
        /\ jo'[j].numtodo = jo[j].numtodo - 1
    BY <1>3 DEF Used, Slot, IInv, Types
  <1>10. /\ \A b \in Chan : \A t \in Used(b) : RcptOf(b, t)' = RcptOf(b, t)
    BY <1>3, <1>9, SlotFacts DEF RcptOf
  <1>11. /\ \A k \in Job : (Open(k)' <=> Open(k)) /\ (Reads(k)' <=> Reads(k))
         /\ \A k \in Job : Open(k) => Len(File(k)') = Len(File(k)) /\ jo[k].chan \in Chan
                                      /\ jo[k].id \in Id
         /\ \A k \in Job : Open(k) /\ k # j => File(k)' = File(k)
    <2>1. \A k \in Job : (Open(k)' <=> Open(k)) /\ (Reads(k)' <=> Reads(k))
      BY <1>3, <1>9 DEF Open, Reads
    <2>2. \A k \in Job : Open(k) => jo[k].chan \in Chan /\ jo[k].id \in Id
      BY DEF IInv, Live, JobOK
    <2>3. \A k \in Job : Open(k) => Len(File(k)') = Len(File(k))
      BY <1>8, <1>9, <2>2 DEF File
    <2>4. \A k \in Job : Open(k) /\ k # j => File(k)' = File(k)
      BY <1>2, <1>6, <1>9, OtherFile
    <2> QED  BY <2>1, <2>2, <2>3, <2>4
  <1>12. Unmarked(c, s) /\ rec[c][i][n] = "T" /\ n \in ToDo(j)
    <2>1. Unmarked(c, s)  BY <1>3 DEF Unmarked
    <2>2. rec[c][i][n] = "T"  BY <1>2, <2>1 DEF IInv, Marks, Used
    <2>3. del[c][s] = [j |-> j, pos |-> n]  BY <1>2 DEF IInv, Types, Used
    <2>4. s \in Slot(c)  BY DEF Used
    <2>5. Waiting(j, n)  BY <1>2, <2>1, <2>2, <2>3, <2>4 DEF Waiting
    <2> QED  BY <1>2, <2>1, <2>2, <2>5 DEF ToDo
  <1>13. \A b \in Chan : \A t \in Slot(b) :
           Unmarked(b, t)' => Unmarked(b, t) /\ t \in Used(b) /\ ~(b = c /\ t = s)
    BY <1>1, <1>3, <1>9 DEF Unmarked
  <1>14. /\ IsFiniteSet(ToDo(j)) /\ Cardinality(ToDo(j)) \in Nat /\ jo[j].numtodo \in Nat
         /\ Cardinality(ToDo(j)) <= jo[j].numtodo
         /\ IsFiniteSet(ToDo(j) \ {n}) /\ Cardinality(ToDo(j) \ {n}) = Cardinality(ToDo(j)) - 1
    <2>1. IsFiniteSet(ToDo(j)) /\ Cardinality(ToDo(j)) \in Nat  BY <1>2, ToDoFinite
    <2>2. jo[j].numtodo \in Nat /\ Cardinality(ToDo(j)) <= jo[j].numtodo
      BY <1>2 DEF IInv, Types, Counted
    <2>3. IsFiniteSet(ToDo(j) \ {n}) /\ Cardinality(ToDo(j) \ {n}) = Cardinality(ToDo(j)) - 1
      BY <1>12, <2>1, FS_RemoveElement
    <2> QED  BY <2>1, <2>2, <2>3
  <1>15. jo[j].numtodo - 1 \in Nat /\ Cardinality(ToDo(j) \ {n}) <= jo[j].numtodo - 1
    <2>1. Cardinality(ToDo(j) \ {n}) \in Nat  BY <1>14, FS_CardinalityType
    <2> QED  BY <1>14, <2>1
  <1>16. Types'
    <2>1. jo' \in [Job -> JobType]
      <3>1. ASSUME NEW b \in JobType, NEW m \in Nat PROVE [b EXCEPT !.numtodo = m] \in JobType
        BY <3>1
      <3>2. jo \in [Job -> JobType]  BY DEF IInv, Types
      <3>3. [jo[j] EXCEPT !.numtodo = @ - 1] \in JobType  BY <1>15, <3>1, <3>2
      <3> HIDE DEF JobType
      <3> QED  BY <1>3, <3>2, <3>3
    <2>2. rec' \in [Chan -> [Id -> Seq({"T", "D"})]]
      <3>1. rec \in [Chan -> [Id -> Seq({"T", "D"})]]  BY DEF IInv, Types
      <3>2. CASE rec' = rec  BY <3>1, <3>2
      <3>3. CASE rec' = [rec EXCEPT ![c][i][n] = "D"]
        <4>1. PICK g \in Seq({"T", "D"}) : g = rec'[c][i]  BY <1>7
        <4>2. rec' = [rec EXCEPT ![c] = [rec[c] EXCEPT ![i] = g]]
          BY <3>1, <3>3, <4>1
        <4> QED  BY <3>1, <4>2
      <3> QED  BY <1>4, <3>2, <3>3
    <2>3. \A b \in Chan, m \in Id : Len(rec'[b][m]) <= MaxRcpt
      BY <1>8 DEF IInv, Types
    <2>4. excused' \subseteq Rcpt  BY <1>4 DEF IInv, Types, Rcpt
    <2> QED  BY <1>3, <2>1, <2>2, <2>3, <2>4 DEF IInv, Types, Slot
  <1>17. JobRefs'
    <2> SUFFICES ASSUME NEW k \in Job
                 PROVE  jo'[k].refs = Cardinality(RefSlots(k)') + Cardinality(RefPasses(k)')
      BY JobRefsStep
    <2>1. RefPasses(k)' = RefPasses(k) /\ RefSlots(k)' = RefSlots(k)
      BY <1>3, <1>9 DEF RefPasses, RefSlots
    <2> QED  BY <1>9, <2>1, RefsOf
  <1>18. Live'
    <2>1. ASSUME NEW k \in Job PROVE IF Open(k)' THEN JobOK(k)' ELSE jo'[k] = NoJob
      <3>1. CASE ~Open(k)  BY <1>2, <1>9, <1>11, <3>1 DEF IInv, Live
      <3>2. CASE Open(k)
        <4>1. JobOK(k)  BY <3>2 DEF IInv, Live
        <4>2. File(k)' # <<>>  BY <1>8, <1>9, <1>11, <3>2, <4>1 DEF JobOK, File
        <4>3. jo'[k].numtodo <= jo[k].numtodo /\ jo[k].numtodo \in Nat /\ jo'[k].numtodo \in Nat
          <5>1. CASE k = j  BY <1>9, <1>14, <1>15, <5>1
          <5>2. CASE k # j  BY <1>9, <5>2 DEF IInv, Types
          <5> QED  BY <5>1, <5>2
        <4>4. Len(File(k)) \in Nat
          BY <1>11, <3>2 DEF IInv, Types, File
        <4>5. jo'[k].numtodo <= Len(File(k))  BY <4>1, <4>3, <4>4 DEF JobOK
        <4>6. Reads(k) => jo'[k].numtodo < pass[jo[k].chan].pos
          <5>1. pass[jo[k].chan].pos \in Nat  BY <1>11, <3>2 DEF IInv, Types
          <5> QED  BY <4>1, <4>3, <5>1 DEF JobOK
        <4>7. pass' = pass /\ jo'[k].chan = jo[k].chan /\ jo'[k].id = jo[k].id
              /\ jo'[k].refs = jo[k].refs /\ jo'[k].eof = jo[k].eof
          BY <1>3, <1>9
        <4>8. Len(File(k)') = Len(File(k)) /\ (Reads(k)' <=> Reads(k)) /\ Open(k)'
          BY <1>11, <3>2
        <4>9. JobOK(k)'  BY <4>1, <4>2, <4>5, <4>6, <4>7, <4>8 DEF JobOK
        <4> QED  BY <4>8, <4>9
      <3> QED  BY <3>1, <3>2
    <2>2. ASSUME NEW b \in Chan, pass'[b] # NoPass PROVE PassOK(b)'
      BY <1>3, <1>9, <1>11, <2>2 DEF IInv, Live, PassOK
    <2>3. ASSUME NEW b \in Chan, NEW t \in Used(b)' PROVE SlotOK(b, t)'
      <3>1. t \in Used(b)  BY <1>9
      <3>2. SlotOK(b, t) /\ del[b][t].j \in Job /\ Open(del[b][t].j)
        BY <3>1, SlotFacts DEF IInv, Live
      <3> QED  BY <1>3, <1>9, <1>11, <3>2 DEF SlotOK
    <2> QED  BY <2>1, <2>2, <2>3 DEF Live
  <1>19. Files' /\ Distinct'
    <2>1. Distinct'  BY <1>3, Frame
    <2>2. Files'  BY <1>3, <1>8 DEF IInv, Files
    <2> QED  BY <2>1, <2>2
  <1>20. Placed'
    BY <1>3, <1>8, <1>9, <1>11 DEF IInv, Placed
  <1>21. OneStage'
    <2>1. \A b \in Chan : \A t : InHand(b, t)' <=> InHand(b, t)  BY <1>3 DEF InHand
    <2>2. cur' = <<c, s>> /\ s \in Used(c)' /\ alive'[c]  BY <1>0, <1>1, <1>3, <1>9
    <2> QED  BY <1>3, <1>9, <2>1, <2>2 DEF IInv, OneStage, Slot
  <1>22. Marks'
    <2> SUFFICES ASSUME NEW b \in Chan, NEW t \in Slot(b), Unmarked(b, t)'
                 PROVE  rec'[b][jo'[del[b][t].j].id][del[b][t].pos] = "T"
      BY <1>3 DEF Marks, Slot
    <2>1. Unmarked(b, t) /\ t \in Used(b) /\ ~(b = c /\ t = s)  BY <1>13
    <2>2. PICK m \in Id, p \in Nat :
            /\ m = jo[del[b][t].j].id /\ p = del[b][t].pos /\ RcptOf(b, t) = <<b, m, p>>
            /\ p \in 1 .. Len(rec[b][m]) /\ jo'[del[b][t].j].id = m
      BY <1>9, <2>1, SlotFacts
    <2>3. rec[b][m][p] = "T"  BY <2>1, <2>2 DEF IInv, Marks
    <2>4. <<b, m, p>> # <<c, i, n>>  BY <1>2, <2>1, <2>2, OneSlotEach
    <2>5. CASE <<b, m>> = <<c, i>>  BY <1>7, <2>2, <2>3, <2>4, <2>5
    <2>6. CASE <<b, m>> # <<c, i>>  BY <1>6, <2>2, <2>3, <2>6
    <2> QED  BY <2>5, <2>6
  <1>23. <<c, i, n>> \in Told
    <2>1. RcptOf(cur[1], cur[2]) \in delivered \cup note  BY <1>3 DEF IInv, Reported
    <2> QED  BY <1>1, <1>2, <2>1 DEF Told
  <1>24. Counted'
    <2> SUFFICES ASSUME NEW k \in Job, Open(k)
                 PROVE  Cardinality(ToDo(k)') <= jo'[k].numtodo
      BY <1>11 DEF Counted
    <2>0. Upto(k)' = Upto(k)
      <3>1. jo'[k].eof = jo[k].eof /\ jo'[k].chan = jo[k].chan /\ pass' = pass
            /\ (Reads(k)' <=> Reads(k)) /\ Len(File(k)') = Len(File(k))
        BY <1>3, <1>9, <1>11
      <3>2. CASE Reads(k)  BY <3>1, <3>2 DEF Upto
      <3>3. CASE ~Reads(k)  BY <3>1, <3>3 DEF Upto
      <3> QED  BY <3>2, <3>3
    <2>00. ASSUME NEW k0 \in 1 .. Len(File(k)), Waiting(k, k0)', ~(k = j /\ k0 = n)
           PROVE  Waiting(k, k0)
      <3>1. File(k)'[k0] = File(k)[k0]
        <4>1. CASE k = j
          <5>1. File(j)' = rec'[c][i]  BY <1>2, <1>9 DEF File
          <5> QED  BY <1>2, <1>7, <2>00, <4>1, <5>1
        <4>2. CASE k # j  BY <1>11, <4>2
        <4> QED  BY <4>1, <4>2
      <3>2. jo'[k].chan = jo[k].chan /\ jo'[k].id = jo[k].id /\ jo[k].chan \in Chan
        BY <1>9, <1>11
      <3>3. \A t \in Slot(jo[k].chan) :
              Unmarked(jo[k].chan, t)' => Unmarked(jo[k].chan, t)
        BY <1>13, <3>2
      <3>4. del' = del /\ Told' = Told /\ excused \subseteq excused'
        BY <1>3, <1>8 DEF Told
      <3> QED  BY <2>0, <2>00, <3>1, <3>2, <3>3, <3>4 DEF Waiting, Slot
    <2>1. CASE k = j
      <3>1. ~Waiting(j, n)'
        <4>1. CASE rec'[c][i][n] = "D"  BY <1>2, <1>9, <4>1 DEF Waiting, File
        <4>2. CASE <<c, i, n>> \in excused'
          <5>1. <<c, i, n>> \in Told'  BY <1>3, <1>23 DEF Told
          <5>2. ASSUME NEW t \in Slot(c), Unmarked(c, t)', del[c][t] = [j |-> j, pos |-> n]
                PROVE  FALSE
            <6>1. t \in Used(c) /\ t # s  BY <1>13, <5>2
            <6>2. del[c][s] = [j |-> j, pos |-> n]  BY <1>2 DEF IInv, Types, Used
            <6> QED  BY <5>2, <6>1, <6>2 DEF IInv, Distinct
          <5> QED  BY <1>2, <1>3, <1>9, <4>2, <5>1, <5>2 DEF Waiting, Slot
        <4> QED  BY <1>7, <4>1, <4>2
      <3>2. ToDo(j)' \subseteq ToDo(j) \ {n}
        BY <1>2, <1>11, <2>00, <2>1, <3>1 DEF ToDo
      <3>3. Cardinality(ToDo(j)') <= Cardinality(ToDo(j) \ {n})
            /\ Cardinality(ToDo(j)') \in Nat /\ Cardinality(ToDo(j) \ {n}) \in Nat
        BY <1>14, <3>2, FS_Subset, FS_CardinalityType
      <3> QED  BY <1>9, <1>15, <2>1, <3>3
    <2>2. CASE k # j
      <3>1. ToDo(k)' \subseteq ToDo(k)  BY <1>11, <2>00, <2>2 DEF ToDo
      <3>2. jo'[k].numtodo = jo[k].numtodo  BY <1>9, <2>2
      <3> QED  BY <3>1, <3>2, FewerOf
    <2> QED  BY <2>1, <2>2
  <1>25. Received'
    <2>1. ASSUME NEW y, Pending(y) PROVE y = <<c, i, n>> \/ Pending(y)'
      <3>1. PICK b \in Chan : \E t \in Used(b) :
              RcptOf(b, t) = y /\ (<<t, "K">> \in rep[b] \/ cur = <<b, t>>)
        BY <2>1 DEF Pending
      <3>2. PICK t \in Used(b) :
              RcptOf(b, t) = y /\ (<<t, "K">> \in rep[b] \/ cur = <<b, t>>)
        BY <3>1
      <3>3. CASE cur = <<b, t>>  BY <1>1, <1>2, <3>2, <3>3
      <3>4. CASE <<t, "K">> \in rep[b]
        <4>1. RcptOf(b, t)' = y /\ t \in Used(b)' /\ <<t, "K">> \in rep'[b]
          BY <1>3, <1>9, <1>10, <3>2, <3>4
        <4> QED  BY <4>1 DEF Pending
      <3> QED  BY <3>2, <3>3, <3>4
    <2> SUFFICES ASSUME NEW b \in Chan, NEW m \in Id, NEW k \in 1 .. MaxRcpt,
                        <<b, m, k>> \in delivered
                 PROVE  /\ k \in 1 .. size[b][m]
                        /\ \/ <<b, m, k>> \in excused' \/ rec'[b][m] = <<>>
                           \/ rec'[b][m][k] = "D" \/ Pending(<<b, m, k>>)'
      BY <1>3 DEF Received
    <2>2. /\ k \in 1 .. size[b][m]
          /\ \/ <<b, m, k>> \in excused \/ rec[b][m] = <<>>
             \/ rec[b][m][k] = "D" \/ Pending(<<b, m, k>>)
      BY DEF IInv, Received
    <2>3. CASE <<b, m, k>> = <<c, i, n>>  BY <1>7, <2>2, <2>3
    <2>4. CASE <<b, m, k>> # <<c, i, n>>
      <3>1. rec[b][m][k] = "D" => rec'[b][m][k] = "D"
        <4>1. CASE <<b, m>> = <<c, i>>  BY <1>2, <1>7, <2>2, <2>4, <4>1
        <4>2. CASE <<b, m>> # <<c, i>>  BY <1>6, <4>2
        <4> QED  BY <4>1, <4>2
      <3> QED  BY <1>8, <2>1, <2>2, <2>4, <3>1
    <2> QED  BY <2>3, <2>4
  <1>26. TwiceOnlyExcused'  BY <1>3, <1>8 DEF IInv, TwiceOnlyExcused
  <1>27. Reported'
    <2>1. \A b \in Chan : \A t \in Slot(b) : <<t, "K">> \in rep[b] => RcptOf(b, t)' \in delivered
      BY <1>10, RepFacts DEF IInv, Reported, Result
    <2> QED  BY <1>3, <2>1 DEF Reported, Slot
  <1>28. Accounted'
    <2> SUFFICES ASSUME NEW b \in Chan, NEW m \in Id, NEW k \in 1 .. size[b][m]
                 PROVE  \/ rec'[b][m] # <<>> /\ rec'[b][m][k] = "T"
                        \/ <<b, m, k>> \in Told
      BY <1>3 DEF Accounted, Told
    <2>1. CASE <<b, m, k>> = <<c, i, n>>  BY <1>23, <2>1
    <2>2. CASE <<b, m, k>> # <<c, i, n>>
      <3>1. (rec[b][m] # <<>> /\ rec[b][m][k] = "T") \/ <<b, m, k>> \in Told
        BY DEF IInv, Accounted, Told
      <3>2. rec[b][m][k] = "T" => rec'[b][m][k] = "T"
        <4>1. CASE <<b, m>> = <<c, i>>  BY <1>2, <1>7, <2>2, <4>1
        <4>2. CASE <<b, m>> # <<c, i>>  BY <1>6, <4>2
        <4> QED  BY <4>1, <4>2
      <3> QED  BY <1>8, <3>1, <3>2
    <2> QED  BY <2>1, <2>2
  <1>29. Ending'  BY <1>3, <1>8 DEF IInv, Ending, HasFile
  <1> QED
    BY <1>16, <1>17, <1>18, <1>19, <1>20, <1>21, <1>22, <1>24, <1>25, <1>26, <1>27, <1>28,
       <1>29 DEF IInv

-----------------------------------------------------------------------------
(* job_close.  The table jobs is jo but for flaghiteof of j.               *)
JobsFor(jobs, j) ==
  /\ jobs \in [Job -> JobType] /\ \A k \in Job : k # j => jobs[k] = jo[k]
  /\ jobs[j].refs = jo[j].refs /\ jobs[j].id = jo[j].id /\ jobs[j].chan = jo[j].chan
  /\ jobs[j].numtodo = jo[j].numtodo

(* What is left of a job, its file and the queues.                         *)
JobClosed(jobs, j, c, i) ==
  /\ jo' \in [Job -> JobType] /\ \A k \in Job : k # j => jo'[k] = jo[k]
  /\ \/ /\ Open(j)' /\ jo'[j].refs = jo[j].refs - 1 /\ jo'[j].id = i /\ jo'[j].chan = c
        /\ jo'[j].numtodo = jo[j].numtodo /\ jo'[j].eof = jobs[j].eof
        /\ UNCHANGED <<rec, pqchan>>
     \/ /\ ~Open(j)' /\ jo'[j] = NoJob /\ jo[j].refs = 1
        /\ rec' = rec /\ pqchan'[c][i] = 1
     \/ /\ ~Open(j)' /\ jo'[j] = NoJob /\ jo[j].refs = 1
        /\ rec'[c][i] = <<>> /\ pqchan'[c][i] = 0
        /\ jobs[j].eof /\ jo[j].numtodo = 0
  /\ \A b \in Chan, m \in Id : <<b, m>> # <<c, i>> =>
       rec'[b][m] = rec[b][m] /\ pqchan'[b][m] = pqchan[b][m]
  /\ rec' \in [Chan -> [Id -> Seq({"T", "D"})]] /\ pqchan' \in [Chan -> [Id -> Nat]]
  /\ pqdone' \in [Id -> Nat] /\ \A m \in Id : pqdone[m] > 0 => pqdone'[m] > 0
  /\ HasFile(i)' \/ pqdone'[i] > 0

(* What job_close() does, whoever calls it.                                *)
LEMMA JobCloseFacts ==
  ASSUME IInv, NEW j \in Job, NEW c, NEW i, Open(j), jo[j].chan = c, jo[j].id = i,
         NEW jobs, JobsFor(jobs, j), NEW n, JobClose(jobs, j, n)
  PROVE  /\ c \in Chan /\ i \in Id /\ rec[c][i] # <<>> /\ pqchan[c][i] = 0
         /\ JobClosed(jobs, j, c, i)
  <1>1. c \in Chan /\ i \in Id /\ rec[c][i] # <<>> /\ pqchan[c][i] = 0
    BY DEF IInv, Live, JobOK, Placed, File
  <1>2. /\ rec \in [Chan -> [Id -> Seq({"T", "D"})]] /\ pqchan \in [Chan -> [Id -> Nat]]
        /\ pqdone \in [Id -> Nat] /\ jo \in [Job -> JobType] /\ jo[j].refs \in Nat
    BY DEF IInv, Types
  <1>3. ASSUME jo[j].refs > 1 PROVE JobClosed(jobs, j, c, i)
    <2>1. jo' = [jobs EXCEPT ![j].refs = @ - 1] /\ UNCHANGED <<rec, pqchan, pqdone>>
      BY <1>3 DEF JobClose, JobsFor
    <2>2. jo[j].refs - 1 \in Nat /\ jo[j].refs - 1 > 0  BY <1>2, <1>3
    <2>3. jo' \in [Job -> JobType]
      <3>1. ASSUME NEW b \in JobType, NEW r \in Nat PROVE [b EXCEPT !.refs = r] \in JobType
        BY <3>1
      <3>2. jobs \in [Job -> JobType] /\ jobs[j].refs - 1 \in Nat  BY <2>2 DEF JobsFor
      <3>3. [jobs[j] EXCEPT !.refs = @ - 1] \in JobType  BY <3>1, <3>2
      <3> HIDE DEF JobType
      <3> QED  BY <2>1, <3>2, <3>3
    <2>4. /\ jo'[j].refs = jo[j].refs - 1 /\ jo'[j].id = i /\ jo'[j].chan = c
          /\ jo'[j].numtodo = jo[j].numtodo /\ jo'[j].eof = jobs[j].eof
          /\ \A k \in Job : k # j => jo'[k] = jo[k]
      BY <2>1 DEF JobsFor
    <2>5. Open(j)'  BY <2>2, <2>4 DEF Open
    <2>6. HasFile(i)'  BY <1>1, <2>1 DEF HasFile
    <2> HIDE DEF JobType
    <2> QED  BY <1>2, <2>1, <2>3, <2>4, <2>5, <2>6 DEF JobClosed
  <1>4. ASSUME ~(jo[j].refs > 1) PROVE JobClosed(jobs, j, c, i)
    <2>1. jo[j].refs = 1  BY <1>2, <1>4 DEF Open
    <2>2. jo' = [jobs EXCEPT ![j] = NoJob]  BY <1>4 DEF JobClose, JobsFor
    <2>3. /\ jo'[j] = NoJob /\ \A k \in Job : k # j => jo'[k] = jo[k]
          /\ jo' \in [Job -> JobType]
      <3>1. NoJob \in JobType  BY DEF NoJob
      <3> HIDE DEF JobType
      <3> QED  BY <2>2, <3>1 DEF JobsFor
    <2>4. ~Open(j)'  BY <2>3 DEF Open, NoJob
    <2>5. ASSUME Requeue(jobs[j]) PROVE JobClosed(jobs, j, c, i)
      <3>1. pqchan' = [pqchan EXCEPT ![c][i] = @ + 1] /\ rec' = rec /\ pqdone' = pqdone
        BY <2>5 DEF Requeue, JobsFor
      <3>2. pqchan' = [pqchan EXCEPT ![c] = [pqchan[c] EXCEPT ![i] = @ + 1]]
        BY <1>1, <1>2, <3>1
      <3>3. pqchan'[c][i] = 1 /\ pqchan' \in [Chan -> [Id -> Nat]]
            /\ \A b \in Chan, m \in Id : <<b, m>> # <<c, i>> => pqchan'[b][m] = pqchan[b][m]
        BY <1>1, <1>2, <3>2
      <3>4. HasFile(i)'  BY <1>1, <3>1 DEF HasFile
      <3> HIDE DEF JobType
      <3> QED  BY <1>2, <2>1, <2>3, <2>4, <3>1, <3>3, <3>4 DEF JobClosed
    <2>6. ASSUME AllDone(jobs[j]), Remove(jobs[j], n) PROVE JobClosed(jobs, j, c, i)
      <3>1. /\ rec' = [rec EXCEPT ![c][i] = <<>>] /\ pqchan' = pqchan
            /\ \/ pqdone' = IF \E b \in Chan \ {c} : rec[b][i] # <<>>
                              THEN pqdone ELSE [pqdone EXCEPT ![i] = @ + 1]
               \/ pqdone' = [pqdone EXCEPT ![i] = @ + 1]
        BY <2>6 DEF Remove, JobsFor
      <3>2. rec' = [rec EXCEPT ![c] = [rec[c] EXCEPT ![i] = <<>>]]
        BY <1>1, <1>2, <3>1
      <3>3. rec'[c][i] = <<>> /\ rec' \in [Chan -> [Id -> Seq({"T", "D"})]]
            /\ \A b \in Chan, m \in Id : <<b, m>> # <<c, i>> => rec'[b][m] = rec[b][m]
        BY <1>1, <1>2, <3>2
      <3>4. jobs[j].eof /\ jo[j].numtodo = 0  BY <2>6 DEF AllDone, JobsFor
      <3>5. pqdone' \in [Id -> Nat] /\ \A m \in Id : pqdone[m] > 0 => pqdone'[m] > 0
        <4>1. pqdone' = pqdone \/ pqdone' = [pqdone EXCEPT ![i] = @ + 1]  BY <3>1
        <4>2. \A m \in Id : pqdone'[m] = pqdone[m] \/ (m = i /\ pqdone'[m] = pqdone[m] + 1)
          BY <1>1, <1>2, <4>1
        <4>3. pqdone' \in [Id -> Nat]
          <5>1. pqdone \in [Id -> Nat]  BY <1>2
          <5> QED  BY <4>1, <5>1
        <4>4. \A m \in Id : pqdone[m] \in Nat  BY <1>2
        <4>5. \A m \in Id : pqdone[m] > 0 => pqdone'[m] > 0
          BY <4>2, <4>4
        <4> QED  BY <4>3, <4>5
      <3>6. HasFile(i)' \/ pqdone'[i] > 0
        <4>1. CASE \E b \in Chan \ {c} : rec[b][i] # <<>>  BY <1>1, <3>3, <4>1 DEF HasFile
        <4>2. CASE ~\E b \in Chan \ {c} : rec[b][i] # <<>>
          <5>1. pqdone' = [pqdone EXCEPT ![i] = @ + 1]  BY <3>1, <4>2
          <5>2. pqdone'[i] = pqdone[i] + 1 /\ pqdone[i] \in Nat  BY <1>1, <1>2, <5>1
          <5> QED  BY <5>2
        <4> QED  BY <4>1, <4>2
      <3> HIDE DEF JobType
      <3> QED  BY <1>1, <1>2, <2>1, <2>3, <2>4, <3>1, <3>3, <3>4, <3>5, <3>6 DEF JobClosed
    <2>7. Requeue(jobs[j]) \/ (AllDone(jobs[j]) /\ Remove(jobs[j], n))
      BY <1>4 DEF JobClose, JobsFor
    <2> QED  BY <2>5, <2>6, <2>7
  <1> QED  BY <1>1, <1>3, <1>4

(* When flaghiteof is set and numtodo is 0, no record of the file is lost. *)
LEMMA NothingLeft ==
  ASSUME IInv, NEW j \in Job, Open(j), jo[j].numtodo = 0, Upto(j) = Len(File(j)),
         NEW k \in 1 .. Len(File(j)), File(j)[k] = "T"
  PROVE  <<jo[j].chan, jo[j].id, k>> \in excused \cap Told
  <1>1. IsFiniteSet(ToDo(j)) /\ Cardinality(ToDo(j)) \in Nat /\ Cardinality(ToDo(j)) <= 0
    BY ToDoFinite DEF IInv, Counted
  <1>2. ToDo(j) = {}
    <2>1. Cardinality(ToDo(j)) = 0  BY <1>1
    <2> QED  BY <1>1, <2>1, FS_EmptySet
  <1>3. ~Waiting(j, k)  BY <1>2 DEF ToDo
  <1>4. Len(File(j)) \in Nat  BY DEF IInv, Types, File, Live, JobOK
  <1>5. k <= Upto(j)  BY <1>4
  <1> QED  BY <1>3, <1>5 DEF Waiting

(* A reference to j is given back: what the three callers of job_close     *)
(* have in common.                                                         *)
LEMMA ReleaseOK ==
  ASSUME IInv, NEW j \in Job, NEW c, NEW i, Open(j), jo[j].chan = c, jo[j].id = i,
         NEW jobs, JobsFor(jobs, j), NEW n, JobClose(jobs, j, n),
         jobs[j].eof => Upto(j) = Len(File(j)) /\ (Open(j)' => ~Reads(j)'),
         spc \in {"loop", "close"}, spc' = "loop",
         UNCHANGED <<stage, note, pqfail, comm, alive, out, rep, exitasap, old,
                     size, delivered, twice, excused, bounced, unclean>>,
         pass' \in [Chan -> PassType],
         \A b \in Chan : pass'[b] = pass[b] \/ (pass'[b] = NoPass /\ pass[b].j = j),
         DOMAIN del' = Chan, \A b \in Chan : del'[b] \in [Slot(b) -> DelType],
         \A b \in Chan : \A t \in Used(b)' :
           t \in Used(b) /\ del'[b][t] = del[b][t] /\ ~InHand(b, t),
         \A b \in Chan : \A t \in Used(b) : t \in Used(b)' \/ InHand(b, t),
         \A k \in Job : Cardinality(RefSlots(k)') + Cardinality(RefPasses(k)')
                          = IF k = j THEN jo[k].refs - 1 ELSE jo[k].refs
  PROVE  IInv'
  <1>1. c \in Chan /\ i \in Id /\ rec[c][i] # <<>> /\ pqchan[c][i] = 0 /\ JobClosed(jobs, j, c, i)
    BY JobCloseFacts
  <1>2. \A k \in Job : k # j => jo'[k] = jo[k] /\ (Open(k)' <=> Open(k))
    BY <1>1 DEF JobClosed, Open
  <1>3. \/ /\ Open(j)' /\ jo'[j].refs = jo[j].refs - 1 /\ jo'[j].id = i /\ jo'[j].chan = c
           /\ jo'[j].numtodo = jo[j].numtodo /\ jo'[j].eof = jobs[j].eof
           /\ UNCHANGED <<rec, pqchan>>
        \/ /\ ~Open(j)' /\ jo'[j] = NoJob /\ jo[j].refs = 1 /\ rec' = rec /\ pqchan'[c][i] = 1
        \/ /\ ~Open(j)' /\ jo'[j] = NoJob /\ jo[j].refs = 1 /\ rec'[c][i] = <<>>
           /\ pqchan'[c][i] = 0 /\ jobs[j].eof /\ jo[j].numtodo = 0
    BY <1>1 DEF JobClosed
  <1>4. \A b \in Chan, m \in Id : <<b, m>> # <<c, i>> =>
          rec'[b][m] = rec[b][m] /\ pqchan'[b][m] = pqchan[b][m]
    BY <1>1 DEF JobClosed
  <1>5. \A k \in Job : Open(k) =>
          /\ jo[k].chan \in Chan /\ jo[k].id \in Id
          /\ k # j => File(k)' = File(k) /\ <<jo[k].chan, jo[k].id>> # <<c, i>>
    <2> SUFFICES ASSUME NEW k \in Job, Open(k)
                 PROVE  /\ jo[k].chan \in Chan /\ jo[k].id \in Id
                        /\ k # j => File(k)' = File(k) /\ <<jo[k].chan, jo[k].id>> # <<c, i>>
      OBVIOUS
    <2>1. jo[k].chan \in Chan /\ jo[k].id \in Id  BY DEF IInv, Live, JobOK
    <2>2. k # j => <<jo[k].chan, jo[k].id>> # <<c, i>>  BY DEF IInv, Placed
    <2> QED  BY <1>2, <1>4, <2>1, <2>2 DEF File
  <1>6. \A k \in Job : Open(k)' => Open(k) /\ File(k)' = File(k)
                                    /\ jo'[k].chan = jo[k].chan /\ jo'[k].id = jo[k].id
    <2> SUFFICES ASSUME NEW k \in Job, Open(k)'
                 PROVE  Open(k) /\ File(k)' = File(k)
                        /\ jo'[k].chan = jo[k].chan /\ jo'[k].id = jo[k].id
      OBVIOUS
    <2>1. CASE k = j  BY <1>3, <2>1 DEF File
    <2>2. CASE k # j  BY <1>2, <1>5, <2>2
    <2> QED  BY <2>1, <2>2
  <1>7. ~Open(j)' => RefSlots(j)' = {} /\ RefPasses(j)' = {}
    <2> SUFFICES ASSUME ~Open(j)' PROVE RefSlots(j)' = {} /\ RefPasses(j)' = {}
      OBVIOUS
    <2>1. Cardinality(RefSlots(j)') + Cardinality(RefPasses(j)') = 0  BY <1>3
    <2>2. IsFiniteSet(Chan)  BY ConstAssumption
    <2>3. IsFiniteSet(Chan \X (1 .. NumJobs))
      <3>1. IsFiniteSet(1 .. NumJobs)  BY JobsFinite
      <3> QED  BY <2>2, <3>1, FS_Product
    <2>4. RefSlots(j)' \subseteq Chan \X (1 .. NumJobs) /\ RefPasses(j)' \subseteq Chan
      BY DEF RefSlots, RefPasses
    <2>5. /\ IsFiniteSet(RefSlots(j)') /\ Cardinality(RefSlots(j)') \in Nat
          /\ IsFiniteSet(RefPasses(j)') /\ Cardinality(RefPasses(j)') \in Nat
      BY <2>2, <2>3, <2>4, FS_Subset, FS_CardinalityType
    <2>6. Cardinality(RefSlots(j)') = 0 /\ Cardinality(RefPasses(j)') = 0
      BY <2>1, <2>5
    <2> QED  BY <2>5, <2>6, FS_EmptySet
  <1>8. \A b \in Chan : \A t \in Used(b)' :
          /\ t \in Used(b) /\ del'[b][t] = del[b][t] /\ del[b][t].j \in Job
          /\ Open(del[b][t].j)' /\ Unmarked(b, t)
    <2> SUFFICES ASSUME NEW b \in Chan, NEW t \in Used(b)'
                 PROVE  /\ t \in Used(b) /\ del'[b][t] = del[b][t] /\ del[b][t].j \in Job
                        /\ Open(del[b][t].j)' /\ Unmarked(b, t)
      OBVIOUS
    <2>1. t \in Used(b) /\ del'[b][t] = del[b][t] /\ ~InHand(b, t)  OBVIOUS
    <2>2. del[b][t].j \in Job /\ Open(del[b][t].j) /\ t \in Slot(b)  BY <2>1, SlotFacts
    <2>3. Unmarked(b, t)  BY <2>1 DEF Unmarked, InHand
    <2>4. CASE del[b][t].j = j
      <3>1. t \in 1 .. NumJobs  BY <2>2, ConstAssumption DEF Slot
      <3>2. <<b, t>> \in RefSlots(j)'  BY <2>1, <2>4, <3>1 DEF RefSlots
      <3> QED  BY <1>7, <2>1, <2>3, <2>4, <3>2
    <2>5. CASE del[b][t].j # j  BY <1>2, <2>1, <2>2, <2>3, <2>5
    <2> QED  BY <2>4, <2>5
  <1>9. \A b \in Chan : pass'[b] # NoPass => pass'[b] = pass[b] /\ pass[b] # NoPass
                          /\ pass[b].j \in Job /\ Open(pass[b].j)'
    <2> SUFFICES ASSUME NEW b \in Chan, pass'[b] # NoPass
                 PROVE  /\ pass'[b] = pass[b] /\ pass[b] # NoPass
                        /\ pass[b].j \in Job /\ Open(pass[b].j)'
      OBVIOUS
    <2>1. pass'[b] = pass[b] /\ pass[b] # NoPass  OBVIOUS
    <2>2. pass[b].j \in Job /\ Open(pass[b].j)  BY <2>1, PassFacts
    <2>3. CASE pass[b].j = j
      <3>1. b \in RefPasses(j)'  BY <2>1, <2>3 DEF RefPasses
      <3> QED  BY <1>7, <2>1, <2>3, <3>1
    <2>4. CASE pass[b].j # j  BY <1>2, <2>1, <2>2, <2>4
    <2> QED  BY <2>3, <2>4
  <1>10. \A k \in Job : Open(k)' =>
           /\ Reads(k)' => Reads(k) /\ pass'[jo[k].chan] = pass[jo[k].chan]
           /\ k # j => (Reads(k) <=> Reads(k)')
    <2> SUFFICES ASSUME NEW k \in Job, Open(k)'
                 PROVE  /\ Reads(k)' => Reads(k) /\ pass'[jo[k].chan] = pass[jo[k].chan]
                        /\ k # j => (Reads(k) <=> Reads(k)')
      OBVIOUS
    <2>1. jo[k].chan \in Chan /\ jo'[k].chan = jo[k].chan  BY <1>5, <1>6
    <2>2. k # NoPass.j  BY DEF Job, NoPass
    <2> QED  BY <2>1, <2>2 DEF Reads
  <1>11. Types'
    <2> HIDE DEF JobType, DelType, PassType
    <2>1. \A b \in Chan, m \in Id : Len(rec'[b][m]) <= MaxRcpt
      <3> SUFFICES ASSUME NEW b \in Chan, NEW m \in Id PROVE Len(rec'[b][m]) <= MaxRcpt
        OBVIOUS
      <3>1. Len(rec[b][m]) <= MaxRcpt  BY DEF IInv, Types
      <3>2. rec'[b][m] = rec[b][m] \/ rec'[b][m] = <<>>  BY <1>3, <1>4
      <3> QED  BY <3>1, <3>2, ConstAssumption
    <2> QED  BY <1>1, <2>1 DEF IInv, Types, JobClosed, Slot
  <1>12. JobRefs'
    <2> SUFFICES ASSUME NEW k \in Job
                 PROVE  jo'[k].refs = Cardinality(RefSlots(k)') + Cardinality(RefPasses(k)')
      BY JobRefsStep
    <2> QED  BY <1>2, <1>3 DEF NoJob
  <1>13. Live'
    <2>1. ASSUME NEW k \in Job PROVE IF Open(k)' THEN JobOK(k)' ELSE jo'[k] = NoJob
      <3>1. CASE ~Open(k)'  BY <1>2, <1>3, <3>1 DEF IInv, Live
      <3>2. CASE Open(k)'
        <4>1. JobOK(k) /\ Open(k)  BY <1>6, <3>2 DEF IInv, Live
        <4>2. CASE k # j  BY <1>2, <1>6, <1>10, <3>2, <4>1, <4>2 DEF JobOK
        <4>3. CASE k = j
          <5>1. /\ jo'[j].refs = jo[j].refs - 1 /\ jo[j].refs \in Nat
                /\ jo'[j].numtodo = jo[j].numtodo /\ jo'[j].eof = jobs[j].eof
            BY <1>3, <3>2, <4>3 DEF IInv, Types
          <5>2. Reads(j)' => /\ ~jo'[j].eof /\ Reads(j) /\ pass'[c] = pass[c]
            BY <1>10, <3>2, <4>3, <5>1
          <5>3. Len(File(j)) \in Nat  BY <1>1 DEF IInv, Types, File
          <5>4. jo'[j].refs <= Len(File(j)) + 1  BY <4>1, <4>3, <5>1, <5>3 DEF JobOK
          <5>5. Reads(j) => jo'[j].refs <= pass[c].pos
            <6>1. pass[c].pos \in Nat  BY <1>1 DEF IInv, Types
            <6> QED  BY <4>1, <4>3, <5>1, <6>1 DEF JobOK
          <5> QED  BY <1>6, <3>2, <4>1, <4>3, <5>1, <5>2, <5>4, <5>5 DEF JobOK
        <4> QED  BY <3>2, <4>2, <4>3
      <3> QED  BY <3>1, <3>2
    <2>2. ASSUME NEW b \in Chan, pass'[b] # NoPass PROVE PassOK(b)'
      <3>1. pass'[b] = pass[b] /\ pass[b].j \in Job /\ Open(pass[b].j)' /\ PassOK(b)
        BY <1>9, <2>2 DEF IInv, Live
      <3> QED  BY <1>6, <3>1 DEF PassOK
    <2>3. ASSUME NEW b \in Chan, NEW t \in Used(b)' PROVE SlotOK(b, t)'
      <3>1. /\ del'[b][t] = del[b][t] /\ del[b][t].j \in Job /\ Open(del[b][t].j)'
            /\ SlotOK(b, t)
        BY <1>8 DEF IInv, Live
      <3> QED  BY <1>6, <1>10, <3>1 DEF SlotOK
    <2> QED  BY <2>1, <2>2, <2>3 DEF Live
  <1>14. Files'  BY <1>3, <1>4 DEF IInv, Files
  <1>15. Distinct'  BY <1>8 DEF IInv, Distinct
  <1>16. Placed'
    <2>1. ASSUME NEW b \in Chan, NEW m \in Id
          PROVE  /\ pqchan'[b][m] <= 1 /\ (pqchan'[b][m] = 1 => rec'[b][m] # <<>>)
                 /\ rec'[b][m] # <<>> /\ m \notin unclean => \/ pqchan'[b][m] = 1
                                        \/ \E k \in Job : /\ Open(k)' /\ jo'[k].chan = b
                                                          /\ jo'[k].id = m
      <3>1. CASE <<b, m>> = <<c, i>>  BY <1>1, <1>3, <3>1
      <3>2. CASE <<b, m>> # <<c, i>>
        <4>1. rec'[b][m] = rec[b][m] /\ pqchan'[b][m] = pqchan[b][m]  BY <1>4, <3>2
        <4>2. rec[b][m] # <<>> /\ m \notin unclean => \/ pqchan[b][m] = 1
                                 \/ \E k \in Job : Open(k) /\ jo[k].chan = b /\ jo[k].id = m
          BY DEF IInv, Placed
        <4>3. ASSUME NEW k \in Job, Open(k), jo[k].chan = b, jo[k].id = m
              PROVE  Open(k)' /\ jo'[k].chan = b /\ jo'[k].id = m
          BY <1>2, <3>2, <4>3
        <4> QED  BY <4>1, <4>2, <4>3 DEF IInv, Placed
      <3> QED  BY <3>1, <3>2
    <2>2. ASSUME NEW k \in Job, Open(k)' PROVE pqchan'[jo'[k].chan][jo'[k].id] = 0
      <3>1. CASE k = j  BY <1>1, <1>3, <2>2, <3>1
      <3>2. CASE k # j
        <4>1. Open(k) /\ pqchan[jo[k].chan][jo[k].id] = 0  BY <1>6, <2>2 DEF IInv, Placed
        <4> QED  BY <1>2, <1>4, <1>5, <3>2, <4>1
      <3> QED  BY <3>1, <3>2
    <2>3. ASSUME NEW k \in Job, NEW l \in Job, Open(k)', Open(l)', jo'[k].chan = jo'[l].chan,
                 jo'[k].id = jo'[l].id
          PROVE  k = l
      BY <1>6, <2>3 DEF IInv, Placed
    <2> QED  BY <2>1, <2>2, <2>3 DEF Placed
  <1>17. OneStage'
    <2>1. \A b \in Chan : \A t : ~InHand(b, t)'  BY DEF InHand
    <2>2. \A b \in Chan : comm[b] # 0 =>
            /\ comm[b] \in Used(b)' /\ comm[b] \notin out[b]
            /\ \A q \in Result : <<comm[b], q>> \notin rep[b]
      BY DEF IInv, OneStage
    <2>3. \A b \in Chan : \A t \in out[b] :
            t \in Used(b)' /\ \A q \in Result : <<t, q>> \notin rep[b]
      BY DEF IInv, OneStage
    <2>4. \A b \in Chan : \A t \in Slot(b) : \A p, q \in Result : <<t, q>> \in rep[b] =>
            t \in Used(b)' /\ (<<t, p>> \in rep[b] => p = q)
      BY DEF IInv, OneStage
    <2>5. \A b \in Chan : ~alive[b] => out[b] = {} /\ rep[b] = {}  BY DEF IInv, OneStage
    <2> QED  BY <2>1, <2>2, <2>3, <2>4, <2>5 DEF OneStage, Slot
  <1>18. Marks'
    <2> SUFFICES ASSUME NEW b \in Chan, NEW t \in Slot(b), Unmarked(b, t)'
                 PROVE  rec'[b][jo'[del'[b][t].j].id][del'[b][t].pos] = "T"
      BY DEF Marks, Slot
    <2>1. t \in Used(b)'  BY DEF Unmarked
    <2>2. /\ t \in Used(b) /\ del'[b][t] = del[b][t] /\ del[b][t].j \in Job
          /\ Open(del[b][t].j)' /\ Unmarked(b, t)
      BY <1>8, <2>1
    <2>3. rec[b][jo[del[b][t].j].id][del[b][t].pos] = "T"  BY <2>2 DEF IInv, Marks
    <2>4. PICK k \in Job : k = del[b][t].j  BY <2>2
    <2>5. jo[k].chan = b  BY <2>2, <2>4, SlotFacts
    <2>6. File(k)' = File(k) /\ jo'[k].chan = b /\ jo'[k].id = jo[k].id
      BY <1>6, <2>2, <2>4, <2>5
    <2>7. rec'[b][jo[k].id] = rec[b][jo[k].id]  BY <2>5, <2>6 DEF File
    <2> QED  BY <2>2, <2>3, <2>4, <2>6, <2>7
  <1>19. Counted'
    <2> SUFFICES ASSUME NEW k \in Job, Open(k)'
                 PROVE  Cardinality(ToDo(k)') <= jo'[k].numtodo
      BY DEF Counted
    <2>1. /\ Open(k) /\ File(k)' = File(k) /\ jo'[k].chan = jo[k].chan /\ jo'[k].id = jo[k].id
          /\ jo[k].chan \in Chan
      BY <1>5, <1>6
    <2>2. jo'[k].numtodo = jo[k].numtodo  BY <1>2, <1>3
    <2>3. Len(File(k)) \in Nat
      <3>1. jo[k].id \in Id  BY <1>5, <2>1
      <3>2. rec \in [Chan -> [Id -> Seq({"T", "D"})]]  BY DEF IInv, Types
      <3> QED  BY <2>1, <3>1, <3>2 DEF File
    <2>4. \A k0 \in 1 .. Len(File(k)) : k0 <= Upto(k)' => k0 <= Upto(k)
      <3>1. CASE Reads(k)'
        <4>1. Reads(k) /\ pass'[jo[k].chan] = pass[jo[k].chan]  BY <1>10, <3>1
        <4>2. Upto(k) = pass[jo[k].chan].pos - 1  BY <4>1 DEF Upto
        <4>3. Upto(k)' = pass[jo[k].chan].pos - 1  BY <2>1, <3>1, <4>1 DEF Upto
        <4> QED  BY <4>2, <4>3
      <3>2. CASE ~Reads(k)' /\ ~jo'[k].eof
        <4>1. Upto(k)' = 0  BY <3>2 DEF Upto
        <4> QED  BY <4>1
      <3>3. CASE ~Reads(k)' /\ jo'[k].eof
        <4>1. Upto(k)' = Len(File(k))  BY <2>1, <3>3 DEF Upto
        <4>2. CASE k = j  BY <1>3, <3>3, <4>1, <4>2
        <4>3. CASE k # j
          <5>1. ~Reads(k) /\ jo[k].eof  BY <1>2, <1>10, <3>3, <4>3
          <5> QED  BY <4>1, <5>1 DEF Upto
        <4> QED  BY <4>2, <4>3
      <3> QED  BY <3>1, <3>2, <3>3
    <2>5. \A t \in Slot(jo[k].chan) : \A p : Unmarked(jo[k].chan, t)'
            /\ del'[jo[k].chan][t] = p => Unmarked(jo[k].chan, t) /\ del[jo[k].chan][t] = p
      <3>1. \A t \in Slot(jo[k].chan) : Unmarked(jo[k].chan, t)' => t \in Used(jo[k].chan)'
        BY <2>1 DEF Unmarked
      <3> QED  BY <1>8, <2>1, <3>1
    <2>6. ToDo(k)' \subseteq ToDo(k)
      <3> SUFFICES ASSUME NEW k0 \in 1 .. Len(File(k)), Waiting(k, k0)' PROVE Waiting(k, k0)
        BY <2>1 DEF ToDo
      <3> QED  BY <2>1, <2>4, <2>5 DEF Waiting, Told, Slot
    <2> QED  BY <2>1, <2>2, <2>6, FewerOf
  <1>20. \A b \in Chan : \A t \in Used(b)' : RcptOf(b, t)' = RcptOf(b, t)
    BY <1>6, <1>8 DEF RcptOf
  <1>21. Received'
    <2>1. ASSUME NEW y, Pending(y) PROVE Pending(y)'
      <3>1. PICK b \in Chan : \E t \in Used(b) : RcptOf(b, t) = y /\ <<t, "K">> \in rep[b]
        BY <2>1 DEF Pending
      <3>2. PICK t \in Used(b) : RcptOf(b, t) = y /\ <<t, "K">> \in rep[b]
        BY <3>1
      <3>3. ~InHand(b, t)  BY <3>2, RepFacts DEF Result
      <3>4. t \in Used(b)'  BY <3>3
      <3>5. RcptOf(b, t)' = y  BY <1>20, <3>2, <3>4
      <3> QED  BY <3>2, <3>4, <3>5 DEF Pending
    <2> SUFFICES ASSUME NEW b \in Chan, NEW m \in Id, NEW k \in 1 .. MaxRcpt,
                        <<b, m, k>> \in delivered
                 PROVE  /\ k \in 1 .. size[b][m]
                        /\ \/ <<b, m, k>> \in excused \/ rec'[b][m] = <<>>
                           \/ rec'[b][m][k] = "D" \/ Pending(<<b, m, k>>)'
      BY DEF Received
    <2>2. /\ k \in 1 .. size[b][m]
          /\ \/ <<b, m, k>> \in excused \/ rec[b][m] = <<>>
             \/ rec[b][m][k] = "D" \/ Pending(<<b, m, k>>)
      BY DEF IInv, Received
    <2>3. rec'[b][m] = rec[b][m] \/ rec'[b][m] = <<>>  BY <1>3, <1>4
    <2> QED  BY <2>1, <2>2, <2>3
  <1>22. Reported'
    <2>1. ASSUME NEW b \in Chan, NEW t \in Slot(b), <<t, "K">> \in rep[b]
          PROVE  RcptOf(b, t)' \in delivered
      <3>1. t \in Used(b) /\ ~InHand(b, t)  BY <2>1, RepFacts DEF Result
      <3>2. RcptOf(b, t) \in delivered  BY <2>1 DEF IInv, Reported
      <3> QED  BY <1>20, <3>1, <3>2
    <2> QED  BY <2>1 DEF Reported, Slot
  <1>23. Accounted'
    <2> SUFFICES ASSUME NEW b \in Chan, NEW m \in Id, NEW k \in 1 .. size[b][m]
                 PROVE  (rec'[b][m] # <<>> /\ rec'[b][m][k] = "T") \/ <<b, m, k>> \in Told
      BY DEF Accounted, Told
    <2>1. (rec[b][m] # <<>> /\ rec[b][m][k] = "T") \/ <<b, m, k>> \in Told
      BY DEF IInv, Accounted, Told
    <2>2. CASE rec'[b][m] = rec[b][m]  BY <2>1, <2>2
    <2>3. CASE rec'[b][m] # rec[b][m]
      <3>1. b = c /\ m = i /\ jobs[j].eof /\ jo[j].numtodo = 0  BY <1>3, <1>4, <2>3
      <3>2. Upto(j) = Len(File(j)) /\ File(j) = rec[c][i] /\ Len(rec[c][i]) = size[c][i]
        BY <1>1, <3>1 DEF File, IInv, Files
      <3>3. k \in 1 .. Len(File(j)) /\ (File(j)[k] = "T" \/ <<b, m, k>> \in Told)
        BY <2>1, <3>1, <3>2
      <3>4. File(j)[k] = "T" => <<c, i, k>> \in Told  BY <3>1, <3>2, <3>3, NothingLeft
      <3> QED  BY <3>1, <3>3, <3>4
    <2> QED  BY <2>2, <2>3
  <1>24. Ending'
    <2> SUFFICES ASSUME NEW m \in Id, stage[m] = "info", ~HasFile(m)', m \notin unclean
                 PROVE  pqdone'[m] > 0
      BY DEF Ending
    <2>1. CASE m = i  BY <1>1, <2>1 DEF JobClosed
    <2>2. CASE m # i
      <3>1. ~HasFile(m)  BY <1>4, <2>2 DEF HasFile
      <3>2. pqdone[m] > 0  BY <3>1 DEF IInv, Ending
      <3> QED  BY <1>1, <3>2 DEF JobClosed
    <2> QED  BY <2>1, <2>2
  <1> QED
    BY <1>11, <1>12, <1>13, <1>14, <1>15, <1>16, <1>17, <1>18, <1>19, <1>21, <1>22, <1>23, <1>24
    DEF IInv, TwiceOnlyExcused

(* The end of a pass gives its reference back.                             *)
LEMMA PassGone ==
  ASSUME IInv, NEW c \in Chan, pass[c] # NoPass, NEW j \in Job, pass[c].j = j,
         pass' = [pass EXCEPT ![c] = NoPass], UNCHANGED del
  PROVE  /\ pass' \in [Chan -> PassType] /\ pass'[c].j # j
         /\ \A b \in Chan : pass'[b] = pass[b] \/ (pass'[b] = NoPass /\ pass[b].j = j)
         /\ \A b \in Chan : Used(b)' = Used(b)
         /\ \A k \in Job : Cardinality(RefSlots(k)') + Cardinality(RefPasses(k)')
                             = IF k = j THEN jo[k].refs - 1 ELSE jo[k].refs
  <1>1. /\ pass'[c] = NoPass /\ \A b \in Chan : b # c => pass'[b] = pass[b]
        /\ pass'[c].j = 0 /\ j # 0
    BY DEF IInv, Types, NoPass, Job
  <1>2. pass' \in [Chan -> PassType]
    <2>1. NoPass \in PassType  BY ConstAssumption DEF NoPass
    <2> HIDE DEF PassType
    <2> QED  BY <2>1 DEF IInv, Types
  <1>3. \A b \in Chan : Used(b)' = Used(b)  BY DEF Used, Slot
  <1>4. ASSUME NEW k \in Job
        PROVE  Cardinality(RefSlots(k)') + Cardinality(RefPasses(k)')
                 = IF k = j THEN jo[k].refs - 1 ELSE jo[k].refs
    <2>1. RefSlots(k)' = RefSlots(k)  BY <1>3 DEF RefSlots
    <2>2. CASE k = j
      <3>1. RefPasses(j)' = RefPasses(j) \ {c} /\ c \in RefPasses(j)  BY <1>1 DEF RefPasses
      <3>2. Cardinality(RefPasses(j)') = Cardinality(RefPasses(j)) - 1
        BY <3>1, RefsFinite, FS_RemoveElement
      <3> QED  BY <2>1, <2>2, <3>2, RefsOf
    <2>3. CASE k # j
      <3>1. RefPasses(k)' = RefPasses(k)
        <4>1. \A b \in Chan : pass'[b].j = k <=> pass[b].j = k  BY <1>1, <2>3 DEF Job
        <4> QED  BY <4>1 DEF RefPasses
      <3> QED  BY <2>1, <2>3, <3>1, RefsOf
    <2> QED  BY <2>2, <2>3
  <1> QED  BY <1>1, <1>2, <1>3, <1>4

(* Setting flaghiteof keeps every other field of every job.                *)
LEMMA EofJobs ==
  ASSUME IInv, NEW j \in Job, NEW jobs, jobs = [jo EXCEPT ![j].eof = TRUE]
  PROVE  JobsFor(jobs, j)
  <1>1. jobs \in [Job -> JobType]
    <2>1. ASSUME NEW b \in JobType PROVE [b EXCEPT !.eof = TRUE] \in JobType
      BY <2>1
    <2>2. jo \in [Job -> JobType]  BY DEF IInv, Types
    <2>3. [jo[j] EXCEPT !.eof = TRUE] \in JobType  BY <2>1, <2>2
    <2> HIDE DEF JobType
    <2> QED  BY <2>2, <2>3
  <1> QED  BY <1>1 DEF JobsFor, IInv, Types

(* The end of the file ends the pass and closes its reference.             *)
LEMMA ReadEndOK == ASSUME IInv, NEW c \in Chan, ReadEnd(c) PROVE IInv'
  <1>01. PICK j \in Job, i \in Id : pass[c].j = j /\ pass[c].id = i  BY PassFacts DEF ReadEnd
  <1>02. PICK jobs : jobs = [jo EXCEPT ![j].eof = TRUE]  OBVIOUS
  <1>0. pass[c].j = j /\ pass[c].id = i /\ jobs = [jo EXCEPT ![j].eof = TRUE]
    BY <1>01, <1>02
  <1>1. /\ spc = "loop" /\ pass[c] # NoPass /\ pass[c].pos > Len(rec[c][i])
        /\ JobClose(jobs, j, 0)
        /\ pass' = [pass EXCEPT ![c] = NoPass]
        /\ UNCHANGED <<stage, note, pqfail, del, comm, alive, out, rep, exitasap, spc, cur, old,
                        size, delivered, twice, excused, bounced, unclean>>
    BY <1>0 DEF ReadEnd, spawn, loop, hist, lapse
  <1>2. /\ Open(j) /\ jo[j].chan = c /\ jo[j].id = i /\ Reads(j)
        /\ pass[c].pos \in 1 .. Len(rec[c][i]) + 1 /\ Len(rec[c][i]) \in Nat
        /\ File(j) = rec[c][i]
    BY <1>0, <1>1, PassFacts DEF File
  <1>3. JobsFor(jobs, j)  BY <1>0, EofJobs
  <1>4. Upto(j) = Len(File(j))
    <2>1. pass[c].pos = Len(rec[c][i]) + 1  BY <1>1, <1>2
    <2> QED  BY <1>2, <2>1 DEF Upto
  <1>5. Open(j)' => ~Reads(j)'
    <2>1. Open(j)' => jo'[j].chan = c  BY <1>1, <1>2, <1>3, JobCloseFacts DEF JobClosed
    <2> QED  BY <1>0, <1>1, <2>1, PassGone DEF Reads
  <1>6. /\ pass' \in [Chan -> PassType]
        /\ \A b \in Chan : pass'[b] = pass[b] \/ (pass'[b] = NoPass /\ pass[b].j = j)
        /\ \A b \in Chan : Used(b)' = Used(b)
        /\ \A k \in Job : Cardinality(RefSlots(k)') + Cardinality(RefPasses(k)')
                            = IF k = j THEN jo[k].refs - 1 ELSE jo[k].refs
    BY <1>0, <1>1, PassGone
  <1>7. \A b \in Chan : \A t : ~InHand(b, t)  BY <1>1 DEF InHand
  <1>8. DOMAIN del' = Chan /\ \A b \in Chan : del'[b] \in [Slot(b) -> DelType]
    BY <1>1 DEF IInv, Types
  <1> HIDE DEF JobType, DelType, PassType
  <1> QED  BY <1>1, <1>2, <1>3, <1>4, <1>5, <1>6, <1>7, <1>8, ReleaseOK

(* A read error ends the pass; the file stays and is tried again.          *)
LEMMA ReadFailOK == ASSUME IInv, NEW c \in Chan, ReadFail(c) PROVE IInv'
  <1>01. PICK j \in Job, i \in Id : pass[c].j = j /\ pass[c].id = i  BY PassFacts DEF ReadFail
  <1>02. PICK jobs : jobs = jo  OBVIOUS
  <1>0. pass[c].j = j /\ pass[c].id = i /\ jobs = jo  BY <1>01, <1>02
  <1>1. /\ spc = "loop" /\ pass[c] # NoPass /\ JobClose(jobs, j, 1)
        /\ pass' = [pass EXCEPT ![c] = NoPass]
        /\ UNCHANGED <<stage, note, pqfail, del, comm, alive, out, rep, exitasap, spc, cur, old,
                        size, delivered, twice, excused, bounced, unclean>>
    BY <1>0 DEF ReadFail, spawn, loop, hist, lapse
  <1>2. Open(j) /\ jo[j].chan = c /\ jo[j].id = i /\ ~jobs[j].eof
    BY <1>0, <1>1, PassFacts
  <1>3. JobsFor(jobs, j)  BY <1>0 DEF JobsFor, IInv, Types
  <1>6. /\ pass' \in [Chan -> PassType]
        /\ \A b \in Chan : pass'[b] = pass[b] \/ (pass'[b] = NoPass /\ pass[b].j = j)
        /\ \A b \in Chan : Used(b)' = Used(b)
        /\ \A k \in Job : Cardinality(RefSlots(k)') + Cardinality(RefPasses(k)')
                            = IF k = j THEN jo[k].refs - 1 ELSE jo[k].refs
    BY <1>0, <1>1, PassGone
  <1>7. \A b \in Chan : \A t : ~InHand(b, t)  BY <1>1 DEF InHand
  <1>8. DOMAIN del' = Chan /\ \A b \in Chan : del'[b] \in [Slot(b) -> DelType]
    BY <1>1 DEF IInv, Types
  <1> HIDE DEF JobType, DelType, PassType
  <1> QED  BY <1>1, <1>2, <1>3, <1>6, <1>7, <1>8, ReleaseOK

(* A slot that is free again gives its reference back.                     *)
LEMMA CloseOK == ASSUME IInv, Close PROVE IInv'
  <1>0. PICK c \in Chan : \E s \in Used(c) : cur = <<c, s>>
    BY DEF IInv, OneStage, Close
  <1>1. PICK s \in Used(c) : cur = <<c, s>>  BY <1>0
  <1>01. PICK j \in Job, i \in Id :
           /\ del[c][s].j = j /\ Open(j) /\ jo[j].chan = c /\ jo[j].id = i /\ s \in Slot(c)
    BY SlotFacts
  <1>02. PICK jobs : jobs = jo  OBVIOUS
  <1>2. /\ del[c][s].j = j /\ Open(j) /\ jo[j].chan = c /\ jo[j].id = i /\ jobs = jo
        /\ s \in Slot(c)
    BY <1>01, <1>02
  <1>3. /\ spc = "close" /\ spc' = "loop" /\ JobClose(jobs, j, 0)
        /\ del' = [del EXCEPT ![c][s] = NoDel]
        /\ UNCHANGED <<stage, note, pqfail, pass, comm, alive, out, rep, exitasap, old,
                        size, delivered, twice, excused, bounced, unclean>>
    BY <1>1, <1>2 DEF Close, spawn, hist, lapse
  <1>4. JobsFor(jobs, j)  BY <1>2 DEF JobsFor, IInv, Types
  <1>5. /\ del'[c][s] = NoDel /\ \A t \in Slot(c) : t # s => del'[c][t] = del[c][t]
        /\ \A b \in Chan : b # c => del'[b] = del[b]
        /\ DOMAIN del' = Chan /\ \A b \in Chan : del'[b] \in [Slot(b) -> DelType]
    <2>1. NoDel \in DelType  BY ConstAssumption DEF NoDel
    <2> HIDE DEF DelType
    <2> QED  BY <1>2, <1>3, <2>1 DEF IInv, Types, Slot
  <1>6. Used(c)' = Used(c) \ {s} /\ \A b \in Chan : b # c => Used(b)' = Used(b)
    <2>1. \A t \in Slot(c) : t \in Used(c)' <=> t \in Used(c) /\ t # s
      BY <1>2, <1>5 DEF Used, NoDel, Slot
    <2> QED  BY <1>5, <2>1 DEF Used, Slot
  <1>7. \A b \in Chan : \A t : InHand(b, t) <=> (b = c /\ t = s)
    BY <1>1, <1>3 DEF InHand
  <1>8. /\ \A b \in Chan : \A t \in Used(b)' :
             t \in Used(b) /\ del'[b][t] = del[b][t] /\ ~InHand(b, t)
        /\ \A b \in Chan : \A t \in Used(b) : t \in Used(b)' \/ InHand(b, t)
    <2>1. \A b \in Chan : \A t \in Used(b) : t \in Slot(b)  BY DEF Used
    <2> QED  BY <1>5, <1>6, <1>7, <2>1
  <1>9. jobs[j].eof => Upto(j) = Len(File(j)) /\ (Open(j)' => ~Reads(j)')
    <2>1. jo[j].eof => ~Reads(j)  BY <1>2 DEF IInv, Live, JobOK
    <2>2. Open(j)' => jo'[j].chan = c  BY <1>2, <1>3, <1>4, JobCloseFacts DEF JobClosed
    <2>3. Open(j)' => (Reads(j)' <=> Reads(j))  BY <1>2, <1>3, <2>2 DEF Reads
    <2> QED  BY <1>2, <2>1, <2>3 DEF Upto
  <1>10. ASSUME NEW k \in Job
         PROVE  Cardinality(RefSlots(k)') + Cardinality(RefPasses(k)')
                  = IF k = j THEN jo[k].refs - 1 ELSE jo[k].refs
    <2>1. RefPasses(k)' = RefPasses(k)  BY <1>3 DEF RefPasses
    <2>2. CASE k = j
      <3>1. <<c, s>> \in RefSlots(j)
        <4>1. s \in 1 .. NumJobs  BY <1>2, ConstAssumption DEF Slot
        <4> QED  BY <1>2, <4>1 DEF RefSlots
      <3>2. RefSlots(j)' = RefSlots(j) \ {<<c, s>>}
        <4>1. \A b \in Chan, t \in 1 .. NumJobs :
                (t \in Used(b)' /\ del'[b][t].j = j)
                  <=> (t \in Used(b) /\ del[b][t].j = j) /\ <<b, t>> # <<c, s>>
          BY <1>6, <1>7, <1>8
        <4> QED  BY <4>1 DEF RefSlots
      <3>3. IsFiniteSet(RefSlots(j))  BY RefsFinite
      <3>4. Cardinality(RefSlots(j) \ {<<c, s>>}) = Cardinality(RefSlots(j)) - 1
        BY <3>1, <3>3, FS_RemoveElement
      <3> QED  BY <2>1, <2>2, <3>2, <3>4, RefsOf
    <2>3. CASE k # j
      <3>1. RefSlots(k)' = RefSlots(k)
        <4>1. \A b \in Chan, t \in 1 .. NumJobs :
                (t \in Used(b)' /\ del'[b][t].j = k) <=> (t \in Used(b) /\ del[b][t].j = k)
          BY <1>2, <1>6, <1>7, <1>8, <2>3
        <4> QED  BY <4>1 DEF RefSlots
      <3> QED  BY <2>1, <2>3, <3>1, RefsOf
    <2> QED  BY <2>2, <2>3
  <1>11. /\ pass' \in [Chan -> PassType]
         /\ \A b \in Chan : pass'[b] = pass[b] \/ (pass'[b] = NoPass /\ pass[b].j = j)
    <2> HIDE DEF PassType
    <2> QED  BY <1>3 DEF IInv, Types
  <1> HIDE DEF JobType, DelType, PassType
  <1> QED  BY <1>2, <1>3, <1>4, <1>5, <1>8, <1>9, <1>10, <1>11, ReleaseOK

-----------------------------------------------------------------------------
(* A stuttering step.                                                      *)
LEMMA UnchangedOK == ASSUME IInv, UNCHANGED vars PROVE IInv'
  <1>1. UNCHANGED <<stage, rec, note, pqchan, pqdone, pqfail, pass, jo, del, comm, alive, out,
                    rep, exitasap, spc, cur, old, size, delivered, twice, excused, bounced,
                    unclean>>
    BY DEF vars, files, pqs, spawn, loop, hist, lapse
  <1>2. Types'  BY <1>1 DEF IInv, Types, Slot
  <1>3. Counted'  BY <1>1, FrameCounted DEF Told, Unmarked, Used, Slot
  <1>4. TwiceOnlyExcused'  BY <1>1 DEF IInv, TwiceOnlyExcused
  <1> QED  BY <1>1, <1>2, <1>3, <1>4, Frame DEF IInv

(* The invariant holds in every state.                                     *)
THEOREM Invariance == ASSUME ~PqAddFails PROVE Spec => []IInv
  <1>1. Init => IInv  BY InitOK
  <1>2. ASSUME IInv, [Next]_vars PROVE IInv'
    <2>1. CASE Start  BY <1>2, <2>1, StartOK
    <2>2. CASE Mark  BY <1>2, <2>2, MarkOK
    <2>3. CASE Close  BY <1>2, <2>3, CloseOK
    <2>4. CASE Inject  BY <1>2, <2>4, InjectOK
    <2>5. CASE UnlinkBounce  BY <1>2, <2>5, UnlinkBounceOK
    <2>6. CASE UnlinkInfo  BY <1>2, <2>6, UnlinkInfoOK
    <2>7. CASE MessdoneFail  BY <1>2, <2>7, MessdoneFailOK
    <2>8. CASE Term \/ Sleep \/ \E i \in Id : Expire(i)  BY <1>2, <2>8, OutsideOK
    <2>9. CASE Exit  BY <1>2, <2>9, ExitOK
    <2>10. CASE Crash  BY <1>2, <2>10, CrashOK
    <2>11. CASE \E i \in Id : RunPqFail(i)  BY <1>2, <2>11, RunPqFailOK
    <2>12. CASE \E i \in Id : TodoDo(i)  BY <1>2, <2>12, TodoDoOK
    <2>13. CASE \E i \in Id : TodoPartial(i)  BY <1>2, <2>13, TodoPartialOK
    <2>25. CASE \E i \in Id : TodoCleanDied(i)  BY <1>2, <2>25, TodoCleanDiedOK
    <2>14. CASE \E i \in Id : Messdone(i)  BY <1>2, <2>14, MessdoneOK
    <2>15. CASE \E c \in Chan : ReadT(c)  BY <1>2, <2>15, ReadTOK
    <2>16. CASE \E c \in Chan : ReadD(c)  BY <1>2, <2>16, ReadDOK
    <2>17. CASE \E c \in Chan : ReadEnd(c)  BY <1>2, <2>17, ReadEndOK
    <2>18. CASE \E c \in Chan : ReadFail(c)  BY <1>2, <2>18, ReadFailOK
    <2>19. CASE \E c \in Chan : CommDo(c)  BY <1>2, <2>19, CommDoOK
    <2>20. CASE \E c \in Chan : SpawnDied(c)  BY <1>2, <2>20, SpawnDiedOK
    <2>21. CASE \E c \in Chan, i \in Id : OpenPass(c, i)  BY <1>2, <2>21, OpenPassOK
    <2>22. CASE \E c \in Chan, r \in Result : \E s \in Slot(c) : SpawnReport(c, s, r)
      BY <1>2, <2>22, SpawnReportOK
    <2>23. CASE \E c \in Chan, r \in Result : \E s \in Slot(c) : Report(c, s, r)
      BY <1>2, <2>23, ReportOK
    <2>24. CASE UNCHANGED vars  BY <1>2, <2>24, UnchangedOK
    <2> HIDE DEF IInv
    <2> QED
      BY <1>2, <2>1, <2>2, <2>3, <2>4, <2>5, <2>6, <2>7, <2>8, <2>9, <2>10, <2>11, <2>12, <2>13,
         <2>14, <2>15, <2>16, <2>17, <2>18, <2>19, <2>20, <2>21, <2>22, <2>23, <2>24, <2>25
      DEF Next
  <1> QED  BY <1>1, <1>2, PTL DEF Spec

(* A message that qmail-clean was lost with is in no queue and no job, and *)
(* qmail-send is on its way out; no stat() has failed.                     *)
Astray ==
  /\ blind = {} /\ unclean \subseteq Id
  /\ unclean # {} => exitasap /\ spc # "down"
  /\ \A i \in unclean : /\ \A c \in Chan : pqchan[c][i] = 0
                         /\ \A j \in Job : Open(j) => jo[j].id # i

LEMMA AstrayKept ==
  ASSUME Astray, spc' # "down", unclean' = unclean, blind' = blind,
         \/ ~exitasap
         \/ spc = "down"
         \/ /\ exitasap' /\ pqchan' = pqchan
            /\ \A j \in Job : Open(j)' => Open(j) /\ jo'[j].id = jo[j].id
  PROVE  Astray'
  BY DEF Astray

(* So it is: what todo_do of a qmail-send that has lost its qmail-clean had  *)
(* preprocessed is untouched by anybody until the restart.                   *)
THEOREM AstrayHolds == ASSUME ~PqAddFails PROVE Spec => []Astray
  <1>1. Init => Astray  BY DEF Init, Astray
  <1>2. ASSUME IInv, Astray, [Next]_vars PROVE Astray'
    <2> USE DEF lapse
    <2>1. CASE Start
      <3>1. blind' = {} /\ unclean = {} /\ unclean' = {}  BY <1>2, <2>1 DEF Start, Astray
      <3> QED  BY <3>1 DEF Astray
    <2>2. CASE Exit \/ Crash
      <3>1. blind' = {} /\ unclean' = {}  BY <2>2 DEF Exit, Crash, Blank
      <3> QED  BY <3>1 DEF Astray
    <2>3. CASE \E i \in Id : TodoCleanDied(i)
      <3>1. PICK i \in Id : TodoCleanDied(i)  BY <2>3
      <3>2. /\ stage[i] # "info" /\ exitasap' /\ spc' # "down"
            /\ blind' = blind /\ unclean = {} /\ unclean' \subseteq {i}
            /\ pqchan' = pqchan /\ jo' = jo
        BY <1>2, <3>1 DEF TodoCleanDied, Astray, pqs, loop
      <3>3. /\ \A c \in Chan : pqchan[c][i] = 0
            /\ \A j \in Job : Open(j) => jo[j].id # i
        BY <1>2, <3>2, NoJobOutside
      <3> QED  BY <1>2, <3>2, <3>3 DEF Astray, Open
    <2>4. CASE \/ \E i \in Id : TodoDo(i) \/ TodoPartial(i)
               \/ \E c \in Chan : ReadT(c) \/ ReadD(c) \/ ReadEnd(c) \/ ReadFail(c)
               \/ \E c \in Chan, i \in Id : OpenPass(c, i)
      <3>1. ~exitasap /\ spc' # "down" /\ unclean' = unclean /\ blind' = blind
        BY <2>4 DEF TodoDo, TodoPartial, ReadT, ReadD, ReadEnd, ReadFail, OpenPass, loop
      <3> QED  BY <1>2, <3>1, AstrayKept
    <2>5. CASE Close
      <3>1. PICK c \in Chan : \E s \in Used(c) : cur = <<c, s>>
        BY <1>2, <2>5 DEF IInv, OneStage, Close
      <3>2. PICK s \in Used(c) : cur = <<c, s>>  BY <3>1
      <3>3. PICK j \in Job : del[c][s].j = j /\ Open(j)  BY <1>2, SlotFacts
      <3>4. PICK jobs, b, m : jobs = jo /\ b = jo[j].chan /\ m = jo[j].id  OBVIOUS
      <3>5. JobClose(jobs, j, 0)  BY <2>5, <3>2, <3>3, <3>4 DEF Close
      <3>6. JobsFor(jobs, j)  BY <1>2, <3>4 DEF JobsFor, IInv, Types
      <3>7. JobClosed(jobs, j, b, m)  BY <1>2, <3>3, <3>4, <3>5, <3>6, JobCloseFacts
      <3>8. spc' # "down" /\ exitasap' = exitasap /\ unclean' = unclean /\ blind' = blind
        BY <2>5 DEF Close
      <3>9. ASSUME NEW i \in unclean
            PROVE  /\ \A d \in Chan : pqchan'[d][i] = 0
                   /\ \A k \in Job : Open(k)' => jo'[k].id # i
        <4>1. i # m /\ i \in Id  BY <1>2, <3>3, <3>4, <3>9 DEF Astray
        <4>2. \A d \in Chan : pqchan'[d][i] = pqchan[d][i]
          BY <3>7, <4>1 DEF JobClosed
        <4>3. \A k \in Job : Open(k)' => Open(k) /\ jo'[k].id = jo[k].id
          BY <3>3, <3>4, <3>7 DEF JobClosed, Open
        <4> QED  BY <1>2, <3>9, <4>2, <4>3 DEF Astray
      <3> QED  BY <1>2, <3>8, <3>9 DEF Astray
    <2>6. CASE Mark
      <3>1. PICK j : jo' = [jo EXCEPT ![j].numtodo = @ - 1]  BY <2>6 DEF Mark
      <3>2. /\ spc' # "down" /\ exitasap' = exitasap /\ unclean' = unclean /\ blind' = blind
            /\ pqchan' = pqchan
        BY <2>6 DEF Mark, pqs
      <3>3. jo \in [Job -> JobType]  BY <1>2 DEF IInv, Types
      <3>4. \A k \in Job : jo'[k].refs = jo[k].refs /\ jo'[k].id = jo[k].id  BY <3>1, <3>3
      <3> QED  BY <1>2, <3>2, <3>4, AstrayKept DEF Open, Astray
    <2>7. CASE \E i \in Id : RunPqFail(i)  BY <1>2, <2>7, RunPqFailOK
    <2>8. CASE \/ Inject \/ UnlinkBounce \/ UnlinkInfo \/ MessdoneFail \/ Term \/ Sleep
               \/ UNCHANGED vars
               \/ \E i \in Id : Messdone(i) \/ Expire(i)
               \/ \E c \in Chan : CommDo(c) \/ SpawnDied(c)
               \/ \E c \in Chan, r \in Result : \E s \in Slot(c) :
                    SpawnReport(c, s, r) \/ Report(c, s, r)
      <3>1. /\ pqchan' = pqchan /\ jo' = jo /\ unclean' = unclean /\ blind' = blind
            /\ spc = "down" \/ spc' # "down"
            /\ exitasap' = exitasap \/ exitasap' = TRUE
        BY <2>8 DEF Inject, UnlinkBounce, UnlinkInfo, MessdoneFail, Term, Sleep, vars, Messdone,
                    Expire, CommDo, SpawnDied, SpawnReport, Report, pqs, loop
      <3> QED  BY <1>2, <3>1 DEF Astray, Open
    <2> HIDE DEF lapse
    <2> QED  BY <1>2, <2>1, <2>2, <2>3, <2>4, <2>5, <2>6, <2>7, <2>8 DEF Next
  <1>3. Spec => []IInv  BY Invariance
  <1> QED  BY <1>1, <1>2, <1>3, PTL DEF Spec

(* Every variable has its type, and numtodo and refs keep the bounds that  *)
(* the length of the file gives them.                                      *)
THEOREM TypeCorrect == ASSUME ~PqAddFails PROVE Spec => []TypeOK
  <1>1. ASSUME IInv, Astray PROVE TypeOK
    <2>1. rec \in [Chan -> [Id -> UNION {[1 .. n -> {"T", "D"}] : n \in 0 .. MaxRcpt}]]
      <3>1. ASSUME NEW f \in Seq({"T", "D"}), Len(f) <= MaxRcpt
            PROVE  f \in UNION {[1 .. n -> {"T", "D"}] : n \in 0 .. MaxRcpt}
        <4>1. Len(f) \in 0 .. MaxRcpt  BY <3>1, ConstAssumption
        <4>2. f \in [1 .. Len(f) -> {"T", "D"}]  OBVIOUS
        <4> QED  BY <4>1, <4>2
      <3> DEFINE R == UNION {[1 .. n -> {"T", "D"}] : n \in 0 .. MaxRcpt}
      <3>2. /\ rec \in [Chan -> [Id -> Seq({"T", "D"})]]
            /\ \A c \in Chan, i \in Id : Len(rec[c][i]) <= MaxRcpt
        BY <1>1 DEF IInv, Types
      <3>3. \A c \in Chan, i \in Id : rec[c][i] \in R  BY <3>1, <3>2
      <3> HIDE DEF R
      <3>4. rec \in [Chan -> [Id -> R]]  BY <3>2, <3>3
      <3> QED  BY <3>4 DEF R
    <2>2. ASSUME NEW c \in Chan
          PROVE  pass[c] = NoPass \/ (pass[c].id \in Id /\ pass[c].j \in Job)
      BY <1>1, PassFacts
    <2>3. ASSUME NEW j \in Job
          PROVE  jo[j].numtodo \in 0 .. MaxRcpt /\ jo[j].refs \in 0 .. MaxRcpt + 1
      <3>1. CASE Open(j)
        <4>1. JobOK(j)  BY <1>1, <3>1 DEF IInv, Live
        <4>2. Len(File(j)) \in Nat /\ Len(File(j)) <= MaxRcpt
          BY <1>1, <4>1 DEF IInv, Types, JobOK, File
        <4>3. jo[j].numtodo \in Nat /\ jo[j].refs \in Nat  BY <1>1 DEF IInv, Types
        <4> QED  BY <4>1, <4>2, <4>3, ConstAssumption DEF JobOK
      <3>2. CASE ~Open(j)
        <4>1. jo[j] = NoJob  BY <1>1, <3>2 DEF IInv, Live
        <4> QED  BY <4>1, ConstAssumption DEF NoJob
      <3> QED  BY <3>1, <3>2
    <2>4. ASSUME NEW c \in Chan, NEW s \in Slot(c) PROVE del[c][s].j \in 0 .. NumJobs
      BY <1>1 DEF IInv, Types
    <2>5. \A c \in Chan : comm[c] \in 0 .. Conc[c] /\ out[c] \subseteq Used(c)
      BY <1>1 DEF IInv, Types, OneStage
    <2>6. delivered \cup twice \cup excused \cup bounced \subseteq Rcpt
      BY <1>1 DEF IInv, Types
    <2>7. pqfail \in [Id -> Nat]  BY <1>1 DEF IInv, Types
    <2>8. /\ stage \in [Id -> {"todo", "partial", "info", "gone"}] /\ note \subseteq Rcpt
          /\ pqchan \in [Chan -> [Id -> Nat]] /\ pqdone \in [Id -> Nat]
          /\ alive \in [Chan -> BOOLEAN] /\ exitasap \in BOOLEAN
          /\ old \cup unclean \cup blind \subseteq Id
      BY <1>1 DEF IInv, Types, Astray
    <2> QED  BY <2>1, <2>2, <2>3, <2>4, <2>5, <2>6, <2>7, <2>8 DEF TypeOK
  <1> QED  BY <1>1, Invariance, AstrayHolds, PTL

(* job_close, job_open, del_start: the use count of a job is the number of *)
(* its slots and passes, and no recipient is in two slots.                 *)
THEOREM NoTwoDeliveries == ASSUME ~PqAddFails PROVE Spec => []OneDelivery
  <1>1. ASSUME IInv PROVE OneDelivery
    <2>1. JobRefs  BY <1>1 DEF IInv
    <2>2. ASSUME NEW c \in Chan, NEW s \in Used(c), NEW t \in Used(c),
                 RcptOf(c, s) = RcptOf(c, t)
          PROVE  s = t
      BY <1>1, <2>2, OneSlotEach
    <2> QED  BY <2>1, <2>2 DEF OneDelivery
  <1> QED  BY <1>1, Invariance, PTL

(* del_dochan and markdone: the message is delivered again only where a    *)
(* report or a mark was lost.                                              *)
THEOREM TwiceExcused == ASSUME ~PqAddFails PROVE Spec => []TwiceOnlyExcused
  <1>1. IInv => TwiceOnlyExcused  BY DEF IInv
  <1> QED  BY <1>1, Invariance, PTL

(* INTERNALS, section 5: no recipient is lost, whatever qmail-send and the *)
(* spawn programs die of.                                                  *)
THEOREM NobodyLost == ASSUME ~PqAddFails PROVE Spec => []Accounted
  <1>1. IInv => Accounted  BY DEF IInv
  <1> QED  BY <1>1, Invariance, PTL

(* pqchan, pqdone and the jobs: each file with recipients is in one place, *)
(* each message without one waits for messdone; only a message that        *)
(* qmail-clean died with is in none, and then qmail-send is to exit.       *)
THEOREM InOnePlace == ASSUME ~PqAddFails PROVE Spec => []OnePlace
  <1>1. ASSUME IInv, Astray PROVE OnePlace
    <2>1. DoneRemembered
      <3> SUFFICES ASSUME spc # "down", NEW i \in Id, stage[i] = "info", ~HasFile(i), cur # i,
                          i \notin unclean
                   PROVE  pqdone[i] + pqfail[i] > 0
        BY DEF DoneRemembered
      <3>1. pqdone[i] > 0  BY <1>1 DEF IInv, Ending
      <3>2. pqfail[i] = 0 /\ pqdone[i] \in Nat  BY <1>1 DEF IInv, Types
      <3> QED  BY <3>1, <3>2
    <2>2. ASSUME spc # "down", NEW c \in Chan, NEW i \in Id
          PROVE  Places(c, i)
                   = IF stage[i] = "info" /\ rec[c][i] # <<>> /\ i \notin unclean THEN 1 ELSE 0
      <3> DEFINE J == {j \in Job : jo[j].refs > 0 /\ jo[j].id = i /\ jo[j].chan = c}
      <3>0. Places(c, i) = pqchan[c][i] + Cardinality(J)  BY DEF Places
      <3>1. \A j \in J : j \in Job /\ Open(j) /\ jo[j].id = i /\ jo[j].chan = c
        BY DEF Open
      <3>2. pqchan[c][i] \in 0 .. 1
        <4>1. pqchan[c][i] \in Nat /\ pqchan[c][i] <= 1  BY <1>1 DEF IInv, Types, Placed
        <4> QED  BY <4>1
      <3>3. CASE rec[c][i] = <<>>
        <4>1. pqchan[c][i] = 0  BY <1>1, <3>2, <3>3 DEF IInv, Placed
        <4>2. J = {}  BY <1>1, <3>1, <3>3 DEF IInv, Live, JobOK, File
        <4>3. Cardinality(J) = 0  BY <4>2, FS_EmptySet
        <4> HIDE DEF J
        <4>4. pqchan[c][i] + Cardinality(J) = 0  BY <4>1, <4>3
        <4> QED  BY <3>0, <3>3, <4>4 DEF J
      <3>5. CASE i \in unclean
        <4>1. pqchan[c][i] = 0  BY <1>1, <3>5 DEF Astray
        <4>2. J = {}  BY <1>1, <3>1, <3>5 DEF Astray
        <4>3. Cardinality(J) = 0  BY <4>2, FS_EmptySet
        <4> HIDE DEF J
        <4>4. pqchan[c][i] + Cardinality(J) = 0  BY <4>1, <4>3
        <4> QED  BY <3>0, <3>5, <4>4 DEF J
      <3>4. CASE rec[c][i] # <<>> /\ i \notin unclean
        <4>1. stage[i] = "info"  BY <1>1, <3>4 DEF IInv, Files
        <4>2. CASE pqchan[c][i] = 1
          <5>1. J = {}  BY <1>1, <3>1, <4>2 DEF IInv, Placed
          <5>2. Cardinality(J) = 0  BY <5>1, FS_EmptySet
          <5> HIDE DEF J
          <5>3. pqchan[c][i] + Cardinality(J) = 1  BY <4>2, <5>2
          <5> QED  BY <3>0, <3>4, <4>1, <5>3 DEF J
        <4>3. CASE pqchan[c][i] = 0
          <5>1. PICK j \in Job : Open(j) /\ jo[j].chan = c /\ jo[j].id = i
            BY <1>1, <2>2, <3>4, <4>3 DEF IInv, Placed
          <5>2. J = {j}
            <6>1. j \in J  BY <5>1 DEF Open
            <6>2. \A k \in J : k = j  BY <1>1, <3>1, <5>1 DEF IInv, Placed
            <6> HIDE DEF J
            <6> QED  BY <6>1, <6>2
          <5>3. Cardinality(J) = 1  BY <5>2, FS_Singleton
          <5> HIDE DEF J
          <5>4. pqchan[c][i] + Cardinality(J) = 1  BY <4>3, <5>3
          <5> QED  BY <3>0, <3>4, <4>1, <5>4 DEF J
        <4> QED  BY <3>2, <4>2, <4>3
      <3> QED  BY <3>3, <3>4, <3>5
    <2>3. unclean # {} => exitasap  BY <1>1 DEF Astray
    <2> QED  BY <2>1, <2>2, <2>3 DEF OnePlace
  <1> QED  BY <1>1, Invariance, AstrayHolds, PTL

(* job_close removes a file when each of its records is DONE or was lost   *)
(* by markdone, and nothing else removes one.                              *)
THEOREM RemovedOnlyDone == ASSUME ~PqAddFails PROVE Spec => RemovedWhenDone
  <1> DEFINE Step == \A c \in Chan, i \in Id : rec[c][i] # <<>> /\ rec'[c][i] = <<>> =>
               \A k \in 1 .. Len(rec[c][i]) : rec[c][i][k] = "D" \/ <<c, i, k>> \in excused
  <1>1. ASSUME IInv, [Next]_vars PROVE [Step]_vars
    <2>1. ASSUME NEW j \in Job, NEW jobs, NEW n, Open(j), JobsFor(jobs, j), JobClose(jobs, j, n),
                 jobs[j].eof => Upto(j) = Len(File(j))
          PROVE  Step
      <3> SUFFICES ASSUME NEW c \in Chan, NEW i \in Id, rec[c][i] # <<>>, rec'[c][i] = <<>>,
                          NEW k \in 1 .. Len(rec[c][i]), rec[c][i][k] # "D"
                   PROVE  <<c, i, k>> \in excused
        OBVIOUS
      <3>1. PICK b, m : b = jo[j].chan /\ m = jo[j].id  OBVIOUS
      <3>2. JobClosed(jobs, j, b, m)  BY <1>1, <2>1, <3>1, JobCloseFacts
      <3>3. b = c /\ m = i /\ jobs[j].eof /\ jo[j].numtodo = 0
        BY <3>2 DEF JobClosed
      <3>4. File(j) = rec[c][i]  BY <3>1, <3>3 DEF File
      <3>5. rec[c][i][k] = "T"
        <4>1. rec[c][i] \in Seq({"T", "D"})  BY <1>1 DEF IInv, Types
        <4> QED  BY <4>1
      <3> QED  BY <1>1, <2>1, <3>1, <3>3, <3>4, <3>5, NothingLeft
    <2>2. ASSUME NEW c \in Chan, ReadEnd(c) PROVE Step
      <3>01. PICK j \in Job, i \in Id : pass[c].j = j /\ pass[c].id = i
        BY <1>1, <2>2, PassFacts DEF ReadEnd
      <3>02. PICK jobs : jobs = [jo EXCEPT ![j].eof = TRUE]  OBVIOUS
      <3>0. pass[c].j = j /\ pass[c].id = i /\ jobs = [jo EXCEPT ![j].eof = TRUE]
        BY <3>01, <3>02
      <3>1. pass[c] # NoPass /\ pass[c].pos > Len(rec[c][i]) /\ JobClose(jobs, j, 0)
        BY <2>2, <3>0 DEF ReadEnd
      <3>2. /\ Open(j) /\ jo[j].chan = c /\ jo[j].id = i /\ Reads(j)
            /\ pass[c].pos \in 1 .. Len(rec[c][i]) + 1 /\ Len(rec[c][i]) \in Nat
            /\ File(j) = rec[c][i]
        BY <1>1, <3>0, <3>1, PassFacts DEF File
      <3>3. pass[c].pos = Len(rec[c][i]) + 1  BY <3>1, <3>2
      <3>4. Upto(j) = Len(File(j))  BY <3>2, <3>3 DEF Upto
      <3> HIDE DEF Step
      <3> QED  BY <1>1, <2>1, <3>0, <3>1, <3>2, <3>4, EofJobs
    <2>3. ASSUME NEW c \in Chan, ReadFail(c) PROVE Step
      <3>01. PICK j \in Job : pass[c].j = j  BY <1>1, <2>3, PassFacts DEF ReadFail
      <3>02. PICK jobs : jobs = jo  OBVIOUS
      <3>0. pass[c].j = j /\ jobs = jo  BY <3>01, <3>02
      <3>1. pass[c] # NoPass /\ JobClose(jobs, j, 1)  BY <2>3, <3>0 DEF ReadFail
      <3>2. Open(j) /\ ~jo[j].eof  BY <1>1, <3>0, <3>1, PassFacts
      <3>3. JobsFor(jobs, j)  BY <1>1, <3>0 DEF JobsFor, IInv, Types
      <3> HIDE DEF Step
      <3> QED  BY <2>1, <3>0, <3>1, <3>2, <3>3
    <2>4. ASSUME Close PROVE Step
      <3>1. PICK c \in Chan : \E s \in Used(c) : cur = <<c, s>>
        BY <1>1, <2>4 DEF IInv, OneStage, Close
      <3>2. PICK s \in Used(c) : cur = <<c, s>>  BY <3>1
      <3>31. PICK j \in Job : del[c][s].j = j /\ Open(j)  BY <1>1, SlotFacts
      <3>32. PICK jobs : jobs = jo  OBVIOUS
      <3>3. del[c][s].j = j /\ Open(j) /\ jobs = jo  BY <3>31, <3>32
      <3>4. JobClose(jobs, j, 0)  BY <2>4, <3>2, <3>3 DEF Close
      <3>5. JobsFor(jobs, j)  BY <1>1, <3>3 DEF JobsFor, IInv, Types
      <3>6. jo[j].eof => Upto(j) = Len(File(j))
        BY <1>1, <3>3 DEF IInv, Live, JobOK, Upto
      <3> HIDE DEF Step
      <3> QED  BY <2>1, <3>3, <3>4, <3>5, <3>6
    <2>5. ASSUME Mark PROVE Step
      <3> SUFFICES ASSUME NEW b \in Chan, NEW m \in Id, rec[b][m] # <<>> PROVE rec'[b][m] # <<>>
        OBVIOUS
      <3>1. PICK c, i, n : rec' = [rec EXCEPT ![c][i][n] = "D"] \/ rec' = rec
        BY <2>5 DEF Mark
      <3>2. rec \in [Chan -> [Id -> Seq({"T", "D"})]]  BY <1>1 DEF IInv, Types
      <3>3. CASE b = c /\ m = i /\ rec' # rec
        <4>1. rec'[b][m] = [rec[b][m] EXCEPT ![n] = "D"]  BY <3>1, <3>2, <3>3
        <4>2. rec[b][m] \in Seq({"T", "D"})  BY <3>2
        <4>3. Len(rec[b][m]) \in Nat /\ Len(rec[b][m]) # 0  BY <4>2, EmptySeq
        <4>4. 1 \in 1 .. Len(rec[b][m])  BY <4>3
        <4>5. DOMAIN rec'[b][m] = 1 .. Len(rec[b][m])  BY <4>1, <4>2
        <4>6. 1 \in DOMAIN rec'[b][m]  BY <4>4, <4>5
        <4> QED  BY <4>6
      <3>4. CASE ~(b = c /\ m = i /\ rec' # rec)
        <4>1. rec'[b][m] = rec[b][m]  BY <3>1, <3>2, <3>4
        <4> QED  BY <4>1
      <3> QED  BY <3>3, <3>4
    <2>6. ASSUME NEW m \in Id, TodoDo(m) \/ TodoCleanDied(m) PROVE Step
      <3> SUFFICES ASSUME NEW c \in Chan, NEW i \in Id, rec[c][i] # <<>> PROVE rec'[c][i] # <<>>
        OBVIOUS
      <3>1. i # m  BY <1>1, <2>6 DEF IInv, Files, TodoDo, TodoCleanDied
      <3>2. PICK n : \/ rec' = [b \in Chan |-> [rec[b] EXCEPT ![m] = [k \in 1 .. n[b] |-> "T"]]]
                     \/ rec' = rec
        BY <2>6 DEF TodoDo, TodoCleanDied, Preprocess
      <3>3. rec'[c][i] = rec[c][i]  BY <1>1, <3>1, <3>2 DEF IInv, Types
      <3> QED  BY <3>3
    <2>7. ASSUME rec' = rec PROVE Step  BY <2>7
    <2>8. \/ \E c \in Chan : ReadEnd(c) \/ ReadFail(c)
          \/ Close \/ Mark \/ \E m \in Id : TodoDo(m) \/ TodoCleanDied(m)
          \/ rec' = rec
      <3>1. CASE UNCHANGED vars  BY <3>1 DEF vars, files
      <3>2. CASE Next
        <4> USE DEF files, vars
        <4>1. Start \/ Inject \/ UnlinkBounce \/ UnlinkInfo \/ MessdoneFail => rec' = rec
          BY DEF Start, Inject, UnlinkBounce, UnlinkInfo, MessdoneFail
        <4>2. Term \/ Exit \/ Crash \/ Sleep => rec' = rec
          BY DEF Term, Exit, Crash, Sleep
        <4>3. \A i \in Id : RunPqFail(i) \/ TodoPartial(i) \/ Messdone(i) \/ Expire(i) => rec' = rec
          BY DEF RunPqFail, TodoPartial, Messdone, Expire
        <4>4. \A c \in Chan : ReadT(c) \/ ReadD(c) \/ CommDo(c) \/ SpawnDied(c) => rec' = rec
          BY DEF ReadT, ReadD, CommDo, SpawnDied
        <4>5. \A c \in Chan, i \in Id : OpenPass(c, i) => rec' = rec  BY DEF OpenPass
        <4>6. \A c \in Chan, r \in Result : \A s \in Slot(c) :
                SpawnReport(c, s, r) \/ Report(c, s, r) => rec' = rec
          BY DEF SpawnReport, Report
        <4> QED  BY <3>2, <4>1, <4>2, <4>3, <4>4, <4>5, <4>6 DEF Next
      <3> QED  BY <1>1, <3>1, <3>2
    <2> HIDE DEF Step
    <2> QED  BY <2>2, <2>3, <2>4, <2>5, <2>6, <2>7, <2>8
  <1> HIDE DEF Step
  <1>2. Spec => []IInv  BY Invariance
  <1>3. Spec => [][Step]_vars  BY <1>1, <1>2, PTL DEF Spec
  <1> QED  BY <1>3 DEF Step, RemovedWhenDone

=============================================================================
