------------------------------- MODULE MCMail -------------------------------
(***************************************************************************)
(* For TLC: when a message is tried, how it goes to another host, and how  *)
(* it is delivered here, each on its own small instance.  They share       *)
(* nothing: part, chosen at the start, says whose behaviour it is.         *)
(***************************************************************************)
EXTENDS Schedule, Smtp, Local, TLC

MCText == UNION {[1 .. n -> {"a", ".", "r", "n"}] : n \in 0 .. 3}
MCRcpt == <<1, 2>>
MCCmds == {<<"mbox">>, <<"forward", "mbox">>, <<"forward", "program">>,
           <<"maildir", "program", "#">>, <<"+list", "mbox">>}

VARIABLE part

MailInit == /\ part \in {"schedule", "smtp", "local"}
            /\ Init /\ SmtpInit
            /\ IF part = "local" THEN LocalInit
               ELSE LocalInit /\ cmds = <<"mbox">> /\ ~ xbit /\ ~ nolocks

MailNext ==
  \/ part = "schedule" /\ Next /\ UNCHANGED <<part, smtpVars, localVars>>
  \/ part = "smtp" /\ SmtpNext /\ UNCHANGED <<part, vars, localVars>>
  \/ part = "local" /\ LocalNext /\ UNCHANGED <<part, vars, smtpVars>>

MailSpec == MailInit /\ [][MailNext]_<<part, vars, smtpVars, localVars>>

Symmetry == Permutations(Id) \cup Permutations(Delivery)
=============================================================================
