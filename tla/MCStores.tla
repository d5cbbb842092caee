------------------------------ MODULE MCStores -----------------------------
(***************************************************************************)
(* For TLC: ten tables, files and directories that several processes or   *)
(* clients use, each on its own small instance.  They share nothing, so    *)
(* that a behaviour is one of theirs: part, chosen at the start, says      *)
(* whose, and the variables of the others keep their initial values.       *)
(***************************************************************************)
EXTENDS Tcpto, Maildir, Multilog, Cache, Qmerge, EzmlmSend, EzmlmBounce,
        Moderate, Manage

CONSTANTS p1, p2             \* two qmail-remote processes

MCHold == [q \in Remote |-> IF q = p1 THEN 2 ELSE 3]

MCKeyLen  == [k \in Key |-> 10 + k]
MCKeyHash == [k \in Key |-> IF k = 3 THEN 4 ELSE 0]
MCDataLen == [k \in Data |-> IF k = 1 THEN 5 ELSE 40]

MCFileOf == [a \in Addr |-> IF a = "c" THEN 2 ELSE 1]

MCOption ==
  {[public |-> TRUE, remote |-> TRUE, modsub |-> FALSE, subconf |-> TRUE,
    unsubconf |-> TRUE, unsubmod |-> FALSE],
   [public |-> TRUE, remote |-> FALSE, modsub |-> TRUE, subconf |-> TRUE,
    unsubconf |-> TRUE, unsubmod |-> TRUE],
   [public |-> FALSE, remote |-> TRUE, modsub |-> TRUE, subconf |-> FALSE,
    unsubconf |-> FALSE, unsubmod |-> TRUE]}

MCOnly == CHOOSE o \in MCOption : o.modsub

VARIABLE part

StoresInit ==
  /\ part \in {"tcpto", "maildir", "multilog", "cache", "qmerge", "ezmlm-send",
               "ezmlm-bounce", "moderate", "subscribe", "edit"}
  /\ TcptoInit /\ MaildirInit /\ MultilogInit /\ CacheInit /\ QmergeInit
  /\ EzmlmSendInit /\ EzmlmBounceInit
  /\ IF part = "moderate" THEN ModerateInit ELSE ModerateInit /\ returning
  /\ IF part = "subscribe" THEN ManageInit
     ELSE ManageInit /\ opt = MCOnly /\ members = [l \in List |-> {}]

StoresNext ==
  \/ /\ part = "tcpto" /\ TcptoNext
     /\ UNCHANGED <<part, mdVars, mlVars, cacheVars, qmergeVars, ezVars,
                     ebVars, modVars, manageVars>>
  \/ /\ part = "maildir" /\ MaildirNext
     /\ UNCHANGED <<part, tcptoVars, mlVars, cacheVars, qmergeVars, ezVars,
                     ebVars, modVars, manageVars>>
  \/ /\ part = "multilog" /\ MultilogNext
     /\ UNCHANGED <<part, tcptoVars, mdVars, cacheVars, qmergeVars, ezVars,
                     ebVars, modVars, manageVars>>
  \/ /\ part = "cache" /\ CacheNext
     /\ UNCHANGED <<part, tcptoVars, mdVars, mlVars, qmergeVars, ezVars,
                     ebVars, modVars, manageVars>>
  \/ /\ part = "qmerge" /\ QmergeNext
     /\ UNCHANGED <<part, tcptoVars, mdVars, mlVars, cacheVars, ezVars,
                     ebVars, modVars, manageVars>>
  \/ /\ part = "ezmlm-send" /\ EzmlmSendNext
     /\ UNCHANGED <<part, tcptoVars, mdVars, mlVars, cacheVars, qmergeVars,
                     ebVars, modVars, manageVars>>
  \/ /\ part = "ezmlm-bounce" /\ EzmlmBounceNext
     /\ UNCHANGED <<part, tcptoVars, mdVars, mlVars, cacheVars, qmergeVars,
                     ezVars, modVars, manageVars>>
  \/ /\ part = "moderate" /\ ModerateNext
     /\ UNCHANGED <<part, tcptoVars, mdVars, mlVars, cacheVars, qmergeVars,
                     ezVars, ebVars, manageVars>>
  \/ /\ \/ part = "subscribe" /\ ((MembersNext /\ UNCHANGED <<date, textVars>>) \/ Tick)
        \/ part = "edit" /\ ((EditNext /\ UNCHANGED <<date, memberVars>>) \/ Tick)
     /\ UNCHANGED <<part, tcptoVars, mdVars, mlVars, cacheVars, qmergeVars,
                     ezVars, ebVars, modVars>>

StoresSpec == StoresInit /\ [][StoresNext]_<<part, tcptoVars, mdVars, mlVars, cacheVars,
                               qmergeVars, ezVars, ebVars, modVars, manageVars>>
=============================================================================
