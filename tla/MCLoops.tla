------------------------------ MODULE MCLoops ------------------------------
(***************************************************************************)
(* For TLC: seven loops that wait for several things at once, each on its   *)
(* own small instance.  They share nothing, so that a behaviour is one of  *)
(* theirs: part, chosen at the start, says whose, and the variables of the *)
(* others keep one of their initial values.                                *)
(***************************************************************************)
EXTENDS Trigger, Supervise, Spawn, Tcpserver, Transmit, Query, Svscan

VARIABLE part

trVars == vars

LoopsInit ==
  /\ part \in {"trigger", "supervise", "spawn", "tcpserver", "transmit", "query", "svscan"}
  /\ Init /\ SuperviseInit /\ SpawnInit /\ TcpserverInit /\ TransmitInit /\ QueryInit
  /\ SvscanInit
  /\ part # "supervise" => flagwantup /\ status = Now
  /\ part # "svscan" => service = {}
  /\ part # "transmit" => rounds = 0 /\ \A s \in DOMAIN nature : nature[s] = "works"

LoopsNext ==
  \/ /\ part = "trigger" /\ Next
     /\ UNCHANGED <<part, svVars, spawnVars, tcpserverVars, transmitVars, queryVars, svscanVars>>
  \/ /\ part = "supervise" /\ SuperviseNext
     /\ UNCHANGED <<part, trVars, spawnVars, tcpserverVars, transmitVars, queryVars, svscanVars>>
  \/ /\ part = "spawn" /\ SpawnNext
     /\ UNCHANGED <<part, trVars, svVars, tcpserverVars, transmitVars, queryVars, svscanVars>>
  \/ /\ part = "tcpserver" /\ TcpserverNext
     /\ UNCHANGED <<part, trVars, svVars, spawnVars, transmitVars, queryVars, svscanVars>>
  \/ /\ part = "transmit" /\ TransmitNext
     /\ UNCHANGED <<part, trVars, svVars, spawnVars, tcpserverVars, queryVars, svscanVars>>
  \/ /\ part = "query" /\ QueryNext
     /\ UNCHANGED <<part, trVars, svVars, spawnVars, tcpserverVars, transmitVars, svscanVars>>
  \/ /\ part = "svscan" /\ SvscanNext
     /\ UNCHANGED <<part, trVars, svVars, spawnVars, tcpserverVars, transmitVars, queryVars>>

(* Trigger!Fairness, SuperviseFairness, SpawnFairness, TcpserverFair,      *)
(* TransmitFair, QueryFair and that of svscan, each asked for only while   *)
(* its part runs.                                                          *)
LoopsFairness ==
  /\ WF_trVars(part = "trigger" /\ Start) /\ WF_trVars(part = "trigger" /\ Wake)
  /\ WF_trVars(part = "trigger" /\ TriggerClose) /\ WF_trVars(part = "trigger" /\ TriggerOpen)
  /\ WF_trVars(part = "trigger" /\ OpenDir) /\ WF_trVars(part = "trigger" /\ EndOfDir)
  /\ WF_trVars(part = "trigger" /\ TimeOut)
  /\ \A m \in Msg :
       /\ WF_trVars(part = "trigger" /\ m \in left /\ ReadDir(m))
       /\ WF_trVars(part = "trigger" /\ (WriteTrigger(m) \/ CloseTrigger(m)))
  /\ WF_spawnVars(part = "spawn" /\ SpawnStep) /\ WF_spawnVars(part = "spawn" /\ SigchldD)
  /\ WF_spawnVars(part = "spawn" /\ Hear)
  /\ \A n \in Del : /\ WF_spawnVars(part = "spawn" /\ KidClose(n))
                    /\ WF_spawnVars(part = "spawn" /\ KidEnds(n))
  /\ WF_svVars(part = "supervise" /\ SuperviseStep)
  /\ \A k \in Kid : WF_svVars(part = "supervise" /\ k \in termed /\ KidExit(k))
  /\ WF_tcpserverVars(part = "tcpserver" /\ Look)
  /\ WF_tcpserverVars(part = "tcpserver" /\ Sigchld)
  /\ \A c \in Client : /\ SF_tcpserverVars(part = "tcpserver" /\ Accept(c))
                       /\ WF_tcpserverVars(part = "tcpserver" /\ Fork(c))
                       /\ WF_tcpserverVars(part = "tcpserver" /\ ChildEnds(c))
  /\ WF_transmitVars(part = "transmit" /\ StartQuestion)
  /\ WF_transmitVars(part = "transmit" /\ Timeout)
  /\ WF_queryVars(part = "query" /\ QueryNext)
  /\ WF_svscanVars(part = "svscan" /\ SvscanStep)

LoopsSpec == LoopsInit /\ [][LoopsNext]_<<part, trVars, svVars, spawnVars,
                             tcpserverVars, transmitVars, queryVars, svscanVars>>
             /\ LoopsFairness

(* Nobody who has begun waits for ever: a message in todo/ is found, a     *)
(* service told to go down goes down (Supervise), each delivery is         *)
(* reported (Spawn), a client of tcpserver is taken although the loop may  *)
(* be at its limit, a question of dnscache ends (Transmit and Query), and  *)
(* a directory in /service is supervised (Svscan).                         *)
WaitEnds ==
  /\ part = "trigger" => FoundInTime
  /\ part = "spawn" => Answered
  /\ part = "supervise" => DownObeyed
  /\ part = "tcpserver" => Taken
  /\ part = "transmit" => QuestionEnds
  /\ part = "query" => QueryEnds
  /\ part = "svscan" => Supervised
=============================================================================
