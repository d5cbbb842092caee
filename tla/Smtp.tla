-------------------------------- MODULE Smtp --------------------------------
(***************************************************************************)
(* One message from qmail-remote to qmail-smtpd (netqmail-1.06), into the  *)
(* qmail-queue that qmail.c runs there, and back as the report that        *)
(* qmail-rspawn makes of it.  The connection may be cut with anything      *)
(* still in flight, every process may be killed, and every wait may end    *)
(* in a time-out.                                                          *)
(*                                                                         *)
(* Addresses and wordings are left out.  A text is a sequence of bytes:    *)
(* "n" is a newline, "r" a carriage return, "." a dot, "a" another byte.   *)
(***************************************************************************)
EXTENDS Integers, Sequences

CONSTANTS Text,        \* the texts of messages
          Rcpt,        \* the recipients, a sequence
          Good,        \* those that qmail-smtpd takes mail for
          databytes    \* its limit for a text; 0 is none

SmtpAssumption == /\ Rcpt # << >> /\ databytes \in Nat
                  /\ Text \subseteq Seq({"a", ".", "r", "n"})
                  /\ Rcpt \in Seq({Rcpt[k] : k \in DOMAIN Rcpt})
ASSUME SmtpAssumption

VARIABLES
  cpc, i, out, critical, given,           \* qmail-remote
  warned,                                 \* its report says "Possible duplicate!"
  heard,                                  \* history: a 250 for the text had come when it ended
  sent, replies, cut,                     \* the connection
  spc, seenmail, barf, rcptto, took,      \* qmail-smtpd
  qq, flagerr, inTodo, verdict,           \* qmail-queue; qmail-rspawn
  lostExit                                \* history: qmail-queue was killed after link()

clientVars == <<cpc, i, out, critical, given, warned, heard>>
netVars    == <<sent, replies, cut>>
serverVars == <<spc, seenmail, barf, rcptto, took>>
queueVars  == <<qq, flagerr, inTodo, lostExit>>
smtpVars   == <<clientVars, netVars, serverVars, queueVars, verdict>>

SmtpInit ==
  /\ cpc = "greet" /\ i = 1 /\ out = << >> /\ critical = FALSE /\ given = << >>
  /\ warned = FALSE /\ heard = FALSE
  /\ sent = << >> /\ replies = << >> /\ cut = FALSE
  /\ spc = "greet" /\ seenmail = FALSE /\ barf = FALSE /\ rcptto = {} /\ took = << >>
  /\ qq = "none" /\ flagerr = "no" /\ inTodo = << >> /\ lostExit = FALSE
  /\ verdict = "none"

-----------------------------------------------------------------------------
(* blast() of qmail-remote: what goes out for the text t, which is whole   *)
(* if it is empty or ends with a newline.                                  *)
Newline(o) == o = << >> \/ o[Len(o)] = "n"

Stuff(o, ch) == o \o (IF ch = "." /\ Newline(o) THEN <<".">> ELSE << >>)
                  \o (IF ch = "n" THEN <<"r", "n">> ELSE <<ch>>)

StuffedNot(t) ==                                                    \* mutant
  LET o[k \in 0 .. Len(t)] ==
        IF k = 0 THEN << >> ELSE o[k - 1] \o (IF t[k] = "n" THEN <<"r", "n">> ELSE <<t[k]>>)
  IN  o[Len(t)]
Stuffed(t) ==
  LET o[k \in 0 .. Len(t)] == IF k = 0 THEN << >> ELSE Stuff(o[k - 1], t[k])
  IN  o[Len(t)]

Dot == <<".", "r", "n">>

Whole(t) == t # << >> => Newline(t)

(* blast() of qmail-smtpd: the state after the byte ch, and what is put.   *)
Ended == 5
Stray == 6

After(s, ch) ==
  CASE ch = "n" -> (CASE s \in {0, 1, 2} -> Stray [] s = 3 -> Ended [] s = 4 -> 1)
    [] ch = "r" -> (IF s = 2 THEN 3 ELSE 4)
    [] ch = "." /\ s = 1 -> 2
    [] OTHER -> 0

Put(s, ch) ==
  CASE s = 0 -> (IF ch = "r" THEN << >> ELSE <<ch>>)
    [] s = 1 -> (IF ch \in {".", "r"} THEN << >> ELSE <<ch>>)
    [] s = 2 -> (IF ch = "r" THEN << >> ELSE <<ch>>)
    [] s = 3 -> (IF ch = "n" THEN << >>
                 ELSE IF ch = "r" THEN <<".", "r">> ELSE <<".", "r", ch>>)
    [] s = 4 -> (IF ch \in {"n", "r"} THEN <<ch>> ELSE <<"r", ch>>)

Read(s, ch) ==
  IF s.at \in {Ended, Stray} THEN s
  ELSE [at |-> After(s.at, ch), text |-> s.text \o Put(s.at, ch)]

Blasted(w) ==
  LET s[k \in 0 .. Len(w)] ==
        IF k = 0 THEN [at |-> 1, text |-> << >>] ELSE Read(s[k - 1], w[k])
  IN  s[Len(w)]

(* report() of qmail-rspawn: the letter for the (first) recipient.         *)
Result(o) ==
  LET f == {k \in DOMAIN o : o[k] \in {"K", "Z", "D"}}
  IN  IF f = {} THEN "D" ELSE o[CHOOSE k \in f : \A j \in f : k <= j]
Report(o) == CASE o = << >> -> "Z"
               [] o # << >> /\ o[1] = "s" -> "Z"
               [] o # << >> /\ o[1] = "h" -> "D"
               [] OTHER -> Result(o)

-----------------------------------------------------------------------------
(* qmail-remote.  quit(), dropped(), temp_read() and perm_partialline()    *)
(* write the last letter and exit.                                         *)
End(l) == /\ cpc' = "done" /\ out' = Append(out, l) /\ verdict' = Report(out')
Send(verb, arg) == sent' = IF cut THEN sent ELSE Append(sent, [verb |-> verb, arg |-> arg])

Reading == {"greet", "helo", "mail", "rcpt", "data", "end"}

(* smtpcode(), and quit() unless it is one the place asks for.  quit()     *)
(* writes QUIT first: where that fails, dropped() makes the report.        *)
Code(c) == replies # << >> /\ Head(replies) = c /\ replies' = Tail(replies)
Quit(l) == \/ End(l) /\ Send("QUIT", 0)
           \/ End("Z") /\ UNCHANGED sent

Greeted ==
  \/ /\ cpc = "greet" /\ Code(2) /\ cpc' = "helo" /\ Send("HELO", 0)
     /\ UNCHANGED <<out, verdict>>
  \/ /\ cpc = "helo" /\ Code(2) /\ cpc' = "mail" /\ Send("MAIL", 0)
     /\ UNCHANGED <<out, verdict>>
  \/ cpc \in {"greet", "helo"} /\ \E c \in {4, 5} : Code(c) /\ Quit("Z")

MailAnswered ==
  /\ cpc = "mail"
  /\ \/ Code(5) /\ Quit("D")
     \/ Code(4) /\ Quit("Z")
     \/ Code(2) /\ cpc' = "rcpt" /\ Send("RCPT", Rcpt[1]) /\ UNCHANGED <<out, verdict>>

(* flagbother is whether one recipient has been taken.                     *)
RcptAnswered ==
  /\ cpc = "rcpt"
  /\ \E c \in {2, 4, 5} :
       LET said == Append(out, CASE c = 2 -> "r" [] c = 4 -> "s" [] c = 5 -> "h") IN
       /\ Code(c)
       /\ i' = i + 1
       /\ \/ /\ i < Len(Rcpt)
             /\ out' = said /\ Send("RCPT", Rcpt[i + 1]) /\ UNCHANGED <<cpc, verdict>>
          \/ /\ i = Len(Rcpt) /\ \E k \in DOMAIN said : said[k] = "r"
             /\ out' = said /\ cpc' = "data" /\ Send("DATA", 0) /\ UNCHANGED verdict
          \/ /\ i = Len(Rcpt) /\ \A k \in DOMAIN said : said[k] # "r"
             /\ \/ out' = Append(said, "D") /\ Send("QUIT", 0)
                \/ out' = Append(said, "Z") /\ UNCHANGED sent
             /\ cpc' = "done" /\ verdict' = Report(out')

DataAnswered ==
  /\ cpc = "data"
  /\ \/ Code(5) /\ Quit("D")
     \/ Code(4) /\ Quit("Z")
     \/ Code(2) /\ cpc' = "blast" /\ UNCHANGED <<sent, out, verdict>>

(* blast(): the whole text and the dot; flagcritical is set before the dot *)
(* can leave the buffer.                                                   *)
Critical == TRUE

BlastText(t) ==
  /\ cpc = "blast" /\ Whole(t)
  /\ given' = t /\ Send("TEXT", Stuffed(t) \o Dot)
  /\ critical' = Critical /\ cpc' = "end"
  /\ UNCHANGED <<i, out, verdict, warned, heard>>

(* The text cannot be read to its end, or ends within a line; some of what *)
(* is in the buffer may have been written.                                 *)
BlastFails(t) ==
  /\ cpc = "blast"
  /\ given' = t
  /\ \/ End("Z")
     \/ ~ Whole(t) /\ End("D")
  /\ \E n \in 0 .. Len(Stuffed(t)) : Send("TEXT", SubSeq(Stuffed(t), 1, n))
  /\ UNCHANGED <<i, critical, warned, heard>>

EndAnswered ==
  /\ cpc = "end"
  /\ critical' = FALSE /\ UNCHANGED warned
  /\ \/ Code(5) /\ Quit("D")
     \/ Code(4) /\ Quit("Z")
     \/ Code(2) /\ Quit("K")
  /\ heard' = (Head(replies) = 2)

(* dropped(): the connection is gone, or nothing comes within timeout.     *)
(* Its report says "Possible duplicate!" if critical.                      *)
Dropped ==
  /\ cpc \in Reading \cup {"blast"} /\ End("Z")
  /\ warned' = critical
  /\ UNCHANGED <<i, critical, given, heard, netVars>>

(* smtptext cannot grow while a reply comes in: temp_nomem() says nothing  *)
(* of a duplicate.                                                         *)
NoMemory ==
  /\ cpc \in Reading /\ replies # << >> /\ End("Z")
  /\ heard' = (cpc = "end" /\ Head(replies) = 2)
  /\ UNCHANGED <<i, critical, given, warned, netVars>>

(* qmail-remote is killed; qmail-rspawn sees that it crashed.              *)
RemoteKilled ==
  /\ cpc # "done" /\ cpc' = "done" /\ verdict' = "crash"
  /\ UNCHANGED <<i, out, critical, given, warned, heard, netVars>>

ClientStep ==
  /\ \/ /\ Greeted \/ MailAnswered \/ DataAnswered
        /\ UNCHANGED <<i, critical, given, cut, warned, heard>>
     \/ RcptAnswered /\ UNCHANGED <<critical, given, cut, warned, heard>>
     \/ EndAnswered /\ UNCHANGED <<i, given, cut>>
     \/ \E t \in Text : BlastText(t) /\ UNCHANGED <<replies, cut>>
     \/ \E t \in Text : BlastFails(t) /\ UNCHANGED <<replies, cut>>
     \/ Dropped
     \/ NoMemory
     \/ RemoteKilled
  /\ UNCHANGED <<serverVars, queueVars>>

-----------------------------------------------------------------------------
(* qmail-smtpd.                                                            *)
Answer(c) == replies' = IF cut THEN replies ELSE Append(replies, c)
Hears(verb) == /\ spc = "command" /\ sent # << >> /\ Head(sent).verb = verb
               /\ sent' = Tail(sent)

Greet == /\ spc = "greet" /\ spc' = "command" /\ Answer(2)
         /\ UNCHANGED <<sent, seenmail, barf, rcptto, took, qq, flagerr>>

Helo == /\ Hears("HELO") /\ Answer(2) /\ seenmail' = FALSE
        /\ UNCHANGED <<spc, barf, rcptto, took, qq, flagerr>>

(* An address of more than 900 bytes is a syntax error; barf says whether  *)
(* the sender is in badmailfrom.                                           *)
MailFrom ==
  /\ Hears("MAIL")
  /\ \/ Answer(5) /\ UNCHANGED <<seenmail, barf, rcptto>>
     \/ /\ Answer(2) /\ seenmail' = TRUE /\ rcptto' = {} /\ barf' \in BOOLEAN
  /\ UNCHANGED <<spc, took, qq, flagerr>>

Refused(r) == ~ seenmail \/ barf \/ r \notin Good

RcptTo ==
  /\ Hears("RCPT")
  /\ LET r == Head(sent).arg IN
     \/ Refused(r) /\ Answer(5) /\ UNCHANGED rcptto
     \/ ~ Refused(r) /\ Answer(2) /\ rcptto' = rcptto \cup {r}
  /\ UNCHANGED <<spc, seenmail, barf, took, qq, flagerr>>

(* smtp_data() up to its 354; qmail_open() may fail.                       *)
DataBegins ==
  /\ Hears("DATA") /\ seenmail /\ rcptto # {}
  /\ seenmail' = FALSE
  /\ \/ Answer(4) /\ UNCHANGED <<spc, qq, flagerr>>
     \/ Answer(2) /\ spc' = "text" /\ qq' = "reads" /\ flagerr' = "no"
  /\ UNCHANGED <<barf, rcptto, took>>

Tells == /\ Hears("QUIT") /\ spc' = "gone" /\ Answer(2)
         /\ UNCHANGED <<seenmail, barf, rcptto, took, qq, flagerr>>

(* bytestooverflow: put() fails the message at byte databytes + 1.         *)
Overflow(t) == databytes # 0 /\ Len(t) > databytes

(* blast() returns after the dot; qmail_from() and rcptto follow, unless   *)
(* there are too many hops, the text is too long or a write failed.        *)
TextEnds ==
  /\ spc = "text" /\ sent # << >> /\ Head(sent).verb = "TEXT"
  /\ Blasted(Head(sent).arg).at = Ended
  /\ took' = Blasted(Head(sent).arg).text
  /\ sent' = Tail(sent) /\ spc' = "close"
  /\ \E hops, failed \in BOOLEAN :
       flagerr' = IF hops \/ Overflow(took') THEN "limit" ELSE IF failed THEN "write" ELSE "no"
  /\ qq' = IF flagerr' = "no" /\ qq = "reads" THEN "all" ELSE qq
  /\ UNCHANGED <<replies, seenmail, barf, rcptto>>

(* die_read(): there is nothing more to read, and nothing will come.       *)
ServerEof ==
  /\ spc \in {"command", "text"} /\ (cut \/ cpc = "done")
  /\ \/ sent = << >>
     \/ /\ spc = "text" /\ sent # << >> /\ Head(sent).verb = "TEXT"
        /\ Blasted(Head(sent).arg).at # Ended
  /\ spc' = "gone"
  /\ UNCHANGED <<sent, replies, seenmail, barf, rcptto, took, qq, flagerr>>

(* die_alarm(), die_nomem(), die_control(), straynewline(): a 4xx and the  *)
(* end; or qmail-smtpd is killed.                                          *)
ServerDies ==
  /\ spc \in {"greet", "command", "text", "close"} /\ spc' = "gone"
  /\ \/ spc # "close" /\ Answer(4)
     \/ UNCHANGED replies
  /\ UNCHANGED <<sent, seenmail, barf, rcptto, took, qq, flagerr>>

(* qmail_close() has waited for qmail-queue, which ended with exit code w: *)
(* 0, a temporary one, a permanent one, or no code, when it was killed.    *)
Closed(w) ==
  /\ spc = "close" /\ qq = w
  /\ spc' = "command" /\ qq' = "none"
  /\ Answer(CASE w = "0" /\ flagerr = "no" -> 2
              [] flagerr = "limit" \/ w = "permanent" -> 5
              [] OTHER -> 4)
  /\ UNCHANGED <<sent, seenmail, barf, rcptto, took, flagerr>>

ServerStep ==
  /\ \/ Greet \/ Helo \/ MailFrom \/ RcptTo \/ DataBegins \/ Tells
     \/ TextEnds \/ ServerEof \/ ServerDies
     \/ \E w \in {"0", "temporary", "permanent", "killed"} : Closed(w)
  /\ UNCHANGED <<clientVars, cut, verdict, inTodo, lostExit>>

-----------------------------------------------------------------------------
(* qmail-queue: it links the message into todo/ once it has the text, the  *)
(* envelope and the empty address after them; an end of file before that   *)
(* is a read error.                                                        *)
Complete == qq = "all"

QqLink ==
  /\ Complete /\ qq' = "linked"
  /\ inTodo' = Append(inTodo, [text |-> took, to |-> rcptto])
  /\ UNCHANGED lostExit

QqEnds ==
  /\ \/ qq = "linked" /\ qq' = "0" /\ UNCHANGED lostExit
     \/ qq = "linked" /\ qq' = "killed" /\ lostExit' = TRUE
     \/ /\ qq \in {"reads", "all"} /\ qq' \in {"temporary", "permanent", "killed"}
        /\ UNCHANGED lostExit
  /\ UNCHANGED inTodo

QueueStep == (QqLink \/ QqEnds) /\ UNCHANGED <<clientVars, netVars, serverVars, flagerr, verdict>>

(* The connection breaks: what is in flight arrives up to some point.      *)
Cut ==
  /\ ~ cut /\ cut' = TRUE
  /\ \E n \in 0 .. Len(replies) : replies' = SubSeq(replies, 1, n)
  /\ \/ UNCHANGED sent
     \/ sent' = << >>
     \/ /\ sent # << >> /\ sent[1].verb = "TEXT"
        /\ \E n \in 0 .. Len(sent[1].arg) - 1 :
             sent' = <<[sent[1] EXCEPT !.arg = SubSeq(@, 1, n)]>>
  /\ UNCHANGED <<clientVars, serverVars, queueVars, verdict>>

SmtpNext == ClientStep \/ ServerStep \/ QueueStep \/ Cut

SmtpSpec == SmtpInit /\ [][SmtpNext]_smtpVars

-----------------------------------------------------------------------------
(***************************************************************************)
(* Properties.                                                             *)
(***************************************************************************)

SmtpTypeOK ==
  /\ cpc \in Reading \cup {"blast", "done"} /\ i \in 1 .. Len(Rcpt) + 1
  /\ critical \in BOOLEAN /\ given \in Text \cup {<< >>}
  /\ spc \in {"greet", "command", "text", "close", "gone"}
  /\ rcptto \subseteq Good
  /\ flagerr \in {"no", "limit", "write"}
  /\ verdict \in {"none", "K", "Z", "D", "crash"}

Here == \E k \in DOMAIN inTodo : Rcpt[1] \in inTodo[k].to

\* Whatever is cut, killed or late: success means that the message was queued
\* at the other side, for this recipient; failure that it was not.  A deferral
\* without the words "Possible duplicate!" means the same as failure, with two
\* exceptions: somebody was killed who had just queued the message, or the 250
\* had come already, and then QUIT could not be written or there was no memory
\* for the rest of the reply.
VerdictTrue ==
  /\ verdict = "K" => Here
  /\ verdict = "D" => ~ Here
  /\ verdict = "Z" /\ ~ warned => ~ Here \/ lostExit \/ heard

\* What is queued is queued once, byte for byte the text that qmail-remote was
\* given, whatever its dots and carriage returns, whole, and within the limit.
QueuedWhole ==
  /\ Len(inTodo) <= 1
  /\ \A k \in DOMAIN inTodo :
       /\ inTodo[k].text = given /\ Whole(given)
       /\ databytes # 0 => Len(given) <= databytes
       /\ inTodo[k].to # {} /\ inTodo[k].to \subseteq Good

\* Both.
SmtpSafe == SmtpTypeOK /\ VerdictTrue /\ QueuedWhole
=============================================================================
