------------------------------ MODULE MCExports ------------------------------
(* A small instance of FileTransfers for TLC: two exports of one file each *)
(* into a folder that is empty.                                            *)
EXTENDS FileTransfers

CONSTANTS t1, t2

MCTransfer == {t1, t2}

MCMaxItem == [t \in MCTransfer |-> [kind \in Kind |-> IF kind = "export" THEN 1 ELSE 0]]

ExportsSpec ==
  /\ TransfersInit /\ (\A n \in Name : folder[n] = NoFile)
  /\ [][TransfersNext]_transferVars
=============================================================================
