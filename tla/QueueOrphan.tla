----------------------------- MODULE QueueOrphan ----------------------------
(***************************************************************************)
(* QueueDir without the assumption that a qmail-clean has read its pipe to *)
(* the end before the next qmail-send is at work.  Nothing in the code     *)
(* provides it: lock/sendmutex is held by qmail-send alone, and goes with  *)
(* it, while a request that it has written stays in the pipe for a         *)
(* qmail-clean that the system has not let run yet.                        *)
(***************************************************************************)
EXTENDS QueueDir

VARIABLES opc, oreq, oid    \* the qmail-clean that outlived its qmail-send

ovars == <<opc, oreq, oid>>
allvars == <<vars, ovars>>

OrphanInit == Init /\ opc = "gone" /\ oreq = "foop" /\ oid = None

(* A new qmail-send, with a qmail-clean of its own; the old one has a request. *)
StartAgain ==
  /\ spc = "down" /\ cpc \in {"first", "second"} /\ opc = "gone"
  /\ opc' = cpc /\ oreq' = creq /\ oid' = cid
  /\ Begin("scan", None) /\ unscanned' = {i \in Id : info[i] # None}
  /\ cpc' = "idle" /\ exitasap' = FALSE
  /\ UNCHANGED <<qvars, dirs, fage, disk, sroute, todofd, pqchan, pqdone, creq, cid, creply,
                 faults, hist>>

(* The old qmail-clean comes to its unlinks; its answer finds no reader. *)
OrphanIntd ==
  /\ opc = "first" /\ opc' = "second"
  /\ intd' = [intd EXCEPT ![oid] = None]
  /\ UNCHANGED <<qvars, pidf, mess, todo, info, chan, bounce, fage, disk, svars, cvars,
                 faults, hist, oreq, oid>>

OrphanLast ==
  /\ opc = "second" /\ opc' = "gone"
  /\ IF oreq = "foop" THEN mess' = [mess EXCEPT ![oid] = None] /\ UNCHANGED todo
                      ELSE todo' = [todo EXCEPT ![oid] = None] /\ UNCHANGED mess
  /\ UNCHANGED <<qvars, pidf, intd, info, chan, bounce, fage, disk, svars, cvars, faults,
                 hist, oreq, oid>>

OrphanSpec ==
  OrphanInit /\ [][ \/ Next /\ UNCHANGED ovars
                    \/ StartAgain \/ OrphanIntd \/ OrphanLast ]_allvars

(* BLURB: "a message, once accepted into the system, will never be lost."    *)
(* Its mess/ file goes only when no channel has a recipient left.            *)
NeverLost ==
  \A m \in accepted : mess[ino[m]] = m \/ (m \in committed /\ routed[m] \subseteq finished[m])
=============================================================================
