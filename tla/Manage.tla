------------------------------- MODULE Manage -------------------------------
(***************************************************************************)
(* ezmlm-manage (ezmlm-idx-7.0.2): who is subscribed to a list is changed  *)
(* by mail.  A request is answered by a cookie mailed to the one who has   *)
(* to agree, the subscriber or the moderators as the options say, and      *)
(* bound by a hash to its date, the list, the address and the first letter *)
(* of the action; it works until it expires, as often as it is mailed      *)
(* back.  Senders are not to be trusted.  Texts of the list are edited     *)
(* likewise, with a cookie over the text that is replaced.                 *)
(***************************************************************************)
EXTENDS Integers, FiniteSets

CONSTANTS
  Person, Mod,   \* addresses; the moderators and remote administrators among them
  List,          \* the list and its digest: workdir, and the key of its cookies
  Option,        \* the flags to check: [public, remote, modsub, subconf,
                 \* unsubconf, unsubmod -> BOOLEAN]
  Valid,         \* 1000000 seconds, in units of the clock
  Text, Editor,  \* contents of a file in text/; editors, remote administrators
  EditValid,     \* 100000 seconds
  MaxCookie, MaxDate, MaxEditDeath   \* bounds

ASSUME ManageAssumption ==
  /\ Mod \subseteq Person
  /\ Option \subseteq [public : BOOLEAN, remote : BOOLEAN, modsub : BOOLEAN,
                       subconf : BOOLEAN, unsubconf : BOOLEAN, unsubmod : BOOLEAN]
  /\ {Valid, EditValid, MaxCookie, MaxDate, MaxEditDeath} \subseteq Nat
  /\ "none" \notin Editor

VARIABLES
  date,      \* now()
  opt,       \* the flags of ezmlm-manage
  members,   \* [List -> SUBSET Person]
  mailed,    \* the cookies in mail so far: [to, list, act, who, date]
  agreed,    \* history: who mailed back which: [by, list, act, who]
  changed,   \* history: the changes: [list, who, add]
  page,      \* the file
  temp,      \* [text, whole]: the file with "_" added
  editLock,  \* the editor that holds dir/lock, or "none"
  editing,   \* [Editor -> [step, old, new, date]]: old and date are his cookie's
  lost,      \* history: an edit replaced a text its author had not seen
  editDeaths

memberVars == <<opt, members, mailed, agreed, changed>>
textVars == <<page, temp, editLock, editing, lost, editDeaths>>
manageVars == <<date, memberVars, textVars>>

Joins  == {"sc", "tc", "rc"}
Leaves == {"uc", "vc", "wc"}

ManageInit ==
  /\ date = 0 /\ opt \in Option
  /\ members \in {[l \in List |-> {}], [l \in List |-> Person]}
  /\ mailed = {} /\ agreed = {} /\ changed = {}
  /\ page = CHOOSE t \in Text : TRUE
  /\ temp = [text |-> page, whole |-> FALSE] /\ editLock = "none"
  /\ editing = [e \in Editor |-> [step |-> "idle", old |-> page, new |-> page, date |-> 0]]
  /\ lost = FALSE /\ editDeaths = 0

\* doconfirm(): cookies for act go to the people in to.  If qmail_close fails
\* nothing goes out and the request comes again, as any request may.
Confirm(l, act, who, to) ==
  /\ mailed' = mailed \union
       {[to |-> p, list |-> l, act |-> act, who |-> who, date |-> date] : p \in to}
  /\ Cardinality(mailed') <= MaxCookie
  /\ UNCHANGED <<members, changed>>

\* geton() and getoff().
Change(l, who, add) ==
  /\ members' = [members EXCEPT ![l] = IF add THEN @ \union {who} ELSE @ \ {who}]
  /\ changed' = IF members' = members THEN changed
                ELSE changed \union {[list |-> l, who |-> who, add |-> add]}
  /\ UNCHANGED mailed

\* hashok(), for the cookie k of a request; the mutant forgets flagdig.
HashokNot(k, l, act, who) ==
  k.act = act /\ k.who = who /\ k.date <= date /\ k.date + Valid >= date
Hashok(k, l, act, who) ==
  /\ k.list = l /\ k.act = act /\ k.who = who
  /\ k.date <= date /\ k.date + Valid >= date

\* ismod, by the sender s, and whom the list serves.
IsMod(s)  == (opt.modsub \/ opt.remote) /\ s \in Mod
Served(s) == opt.public \/ (IsMod(s) /\ opt.remote)

AskJoin(s, l, who) ==
  /\ Served(s)
  /\ IF IsMod(s) /\ opt.remote THEN Confirm(l, "rc", who, {s})
     ELSE IF opt.subconf THEN Confirm(l, "sc", who, {who})
     ELSE IF opt.modsub THEN Confirm(l, "tc", who, Mod)
     ELSE Change(l, who, TRUE)
  /\ UNCHANGED <<opt, agreed>>

AskLeave(s, l, who) ==
  /\ Served(s)
  /\ IF opt.unsubconf /\ IsMod(s) /\ opt.remote THEN Confirm(l, "wc", who, {s})
     ELSE IF opt.unsubconf THEN Confirm(l, "uc", who, {who})
     ELSE IF opt.unsubmod /\ opt.modsub THEN Confirm(l, "vc", who, Mod)
     ELSE Change(l, who, FALSE)
  /\ UNCHANGED <<opt, agreed>>

\* A cookie comes back to the list l with the sender s from one it was mailed to.
Returned(k, s, l) ==
  /\ Served(s)
  /\ agreed' = agreed \union {[by |-> k.to, list |-> k.list, act |-> k.act, who |-> k.who]}
  /\ UNCHANGED opt

SubConfirm(k, s, l) ==
  /\ k.act = "sc" /\ Returned(k, s, l)
  /\ IF ~ Hashok(k, l, "sc", k.who) THEN Confirm(l, "sc", k.who, {k.who})
     ELSE IF opt.modsub /\ ~ (IsMod(s) /\ s = k.who) THEN Confirm(l, "tc", k.who, Mod)
     ELSE Change(l, k.who, TRUE)

UnsubConfirm(k, s, l) ==
  /\ k.act = "uc" /\ Returned(k, s, l)
  /\ IF ~ Hashok(k, l, "uc", k.who) THEN Confirm(l, "uc", k.who, {k.who})
     ELSE IF opt.unsubmod /\ opt.modsub THEN Confirm(l, "vc", k.who, Mod)
     ELSE Change(l, k.who, FALSE)

\* -rc, -tc, -vc and -wc: from a bad one a remote administrator gets a good one.
ModConfirm(k, s, l) ==
  /\ k.act \in {"rc", "tc", "vc", "wc"} /\ Returned(k, s, l)
  /\ IF Hashok(k, l, k.act, k.who) THEN Change(l, k.who, k.act \in Joins)
     ELSE IsMod(s) /\ opt.remote /\ Confirm(l, k.act, k.who, {s})

\* Anyone may mail an action with a cookie that is no cookie.
BadConfirm(act, s, l, who) ==
  /\ Served(s)
  /\ IF act \in {"sc", "uc"} THEN Confirm(l, act, who, {who})
     ELSE IsMod(s) /\ opt.remote /\ Confirm(l, act, who, {s})
  /\ UNCHANGED <<opt, agreed>>

Tick ==
  /\ date < MaxDate /\ date' = date + 1
  /\ UNCHANGED <<memberVars, textVars>>

MembersNext ==
  \/ \E s \in Person, l \in List :
       \/ \E who \in Person :
            \/ AskJoin(s, l, who) \/ AskLeave(s, l, who)
            \/ \E act \in Joins \union Leaves : BadConfirm(act, s, l, who)
       \/ \E k \in mailed :
            SubConfirm(k, s, l) \/ UnsubConfirm(k, s, l) \/ ModConfirm(k, s, l)

\* -edit: the text and a cookie over it are mailed to the administrator, who
\* changes what he got.
EditAsk(e, new) ==
  /\ editing[e].step = "idle" /\ new # page
  /\ editing' = [editing EXCEPT
       ![e] = [step |-> "asked", old |-> page, new |-> new, date |-> date]]
  /\ UNCHANGED <<page, temp, editLock, lost, editDeaths>>

Edits(e, from, to) ==
  editing[e].step = from /\ editing' = [editing EXCEPT ![e].step = to]

\* -ed: the lock, the file is read, the cookie compared, the new file opened; a
\* reply may come again, or too late.
EditLock(e) ==
  /\ editLock = "none"
  /\ editing[e].step \in {"asked", "done"} /\ editing[e].date + EditValid >= date
  /\ IF page = editing[e].old
     THEN /\ editLock' = e /\ editing' = [editing EXCEPT ![e].step = "writing"]
          /\ temp' = [text |-> editing[e].new, whole |-> FALSE]
     ELSE /\ editing' = [editing EXCEPT ![e].step = "idle"] /\ UNCHANGED <<editLock, temp>>
  /\ UNCHANGED <<page, lost, editDeaths>>

\* The marks of the text are there and it is on the disk, or the edit is refused.
EditWrite(e) ==
  /\ Edits(e, "writing", "written")
  /\ temp' = [temp EXCEPT !.whole = TRUE]
  /\ UNCHANGED <<page, editLock, lost, editDeaths>>

EditRefuse(e) ==
  /\ Edits(e, "writing", "idle") /\ editLock' = "none"
  /\ UNCHANGED <<page, temp, lost, editDeaths>>

\* rename, unlock; the answer may fail and the mail with the edit come again.
EditRename(e) ==
  /\ Edits(e, "written", "done") /\ editLock' = "none"
  /\ page' = temp.text
  /\ lost' = (lost \/ page # editing[e].old \/ temp # [text |-> editing[e].new, whole |-> TRUE])
  /\ UNCHANGED <<temp, editDeaths>>

EditDies(e) ==
  /\ editing[e].step \in {"writing", "written"}
  /\ editDeaths < MaxEditDeath /\ editDeaths' = editDeaths + 1
  /\ editLock' = "none" /\ editing' = [editing EXCEPT ![e].step = "asked"]
  /\ UNCHANGED <<page, temp, lost>>

EditNext == \E e \in Editor :
  \/ \E new \in Text : EditAsk(e, new)
  \/ EditLock(e) \/ EditWrite(e) \/ EditRefuse(e) \/ EditRename(e) \/ EditDies(e)

ManageNext == \/ MembersNext /\ UNCHANGED <<date, textVars>>
              \/ EditNext /\ UNCHANGED <<date, memberVars>>
              \/ Tick

ManageSpec == ManageInit /\ [][ManageNext]_manageVars

(***************************************************************************)
(* Properties.                                                             *)
(***************************************************************************)
\* p has mailed back a cookie for a change of who on l.
Said(p, c, acts) ==
  \E a \in agreed : a.by = p /\ a.list = c.list /\ a.who = c.who /\ a.act \in acts
ModSaid(c, acts) == \E m \in Mod : Said(m, c, acts)
SelfSaid(c, acts) == Said(c.who, c, acts)

\* Nobody is subscribed or removed without the consent the options ask for,
\* whoever the requests claim to be from, however they are repeated, delayed or
\* sent to the other list.  Where subscribers and moderators must both agree and
\* moderators do not administer by mail, both have.  Where removal is moderated
\* a moderator's cookie must come back even for a moderator who removes himself
\* with a cookie of his own (c.who \in Mod, SelfSaid), although the comment at
\* ezmlm-manage.c:847-848 excepts him.
JoinAgreed == \A c \in changed : c.add =>
  /\ opt.modsub => ModSaid(c, {"tc", "rc"}) \/ (c.who \in Mod /\ SelfSaid(c, {"sc"}))
  /\ opt.subconf /\ ~ opt.modsub => SelfSaid(c, {"sc"}) \/ (opt.remote /\ ModSaid(c, {"tc", "rc"}))
  /\ opt.subconf /\ opt.modsub /\ ~ opt.remote => SelfSaid(c, {"sc"})

LeaveAgreed == \A c \in changed : ~ c.add =>
  /\ opt.unsubmod /\ opt.modsub => ModSaid(c, {"vc", "wc"})
  /\ opt.unsubconf => SelfSaid(c, {"uc"}) \/ (opt.remote /\ ModSaid(c, {"vc", "wc"}))

\* An edit replaces the text its author saw, by all of what he wrote.
EditsKept == ~ lost

ManageSafe == JoinAgreed /\ LeaveAgreed /\ EditsKept
=============================================================================
