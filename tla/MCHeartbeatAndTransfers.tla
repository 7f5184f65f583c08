------------------------ MODULE MCHeartbeatAndTransfers ------------------------
(***************************************************************************)
(* A small instance for TLC of the tasks that run for as long as a device  *)
(* answers: the heartbeats of its wireless connections, and transfers.     *)
(* Neither reads what the other writes, so one of them moves in each       *)
(* behaviour; the other rests in its initial state, where it owes no step. *)
(***************************************************************************)
EXTENDS Heartbeat, FileTransfers

CONSTANTS u1, t1, t2

VARIABLE running   \* the one that moves

MCUdid == {u1}
MCTransfer == {t1, t2}

(* The second item of a gallery export finds the name of the first taken,  *)
(* and the other job's gallery export competes for it; the other job may   *)
(* also be a plain export, the first an import.                            *)
MCMaxItem ==
  [t \in MCTransfer |-> [kind \in Kind |->
     CASE t = t1 /\ kind = "gallery" -> 2
       [] t = t1 /\ kind = "export" -> 0
       [] t = t2 /\ kind = "import" -> 0
       [] OTHER -> 1]]

MCInit ==
  /\ Init /\ TransfersInit
  /\ running \in {"heartbeats", "transfers"}
  /\ running # "transfers" => \A n \in Name : folder[n] = NoFile

MCNext ==
  /\ \/ running = "heartbeats" /\ Next /\ UNCHANGED transferVars
     \/ running = "transfers" /\ TransfersNext /\ UNCHANGED vars
  /\ UNCHANGED running

mcVars == <<vars, transferVars, running>>

MCSpec == MCInit /\ [][MCNext]_mcVars /\ Fairness /\ TransfersFairness

MCTypeOK == HeartbeatTypeOK /\ TransfersTypeOK
=============================================================================
