---------------------------- MODULE FileTransfers ----------------------------
(***************************************************************************)
(* Transfers between the computer and a device, src/io_manager.rs: every   *)
(* job is a task of the runtime that handles its items one after another,  *)
(* polls its cancel flag and reports to the row the status window has for  *)
(* it.  With it stands the question ClosingHandler.qml asks before the     *)
(* program quits.  All exports go to one folder and all items have the     *)
(* same file name, so that every two of them compete.  A file is the chunks *)
(* written to it; progress and per-item signals only move counters that    *)
(* the final report overwrites, and exports of directories are left out.   *)
(***************************************************************************)
EXTENDS Naturals, Sequences, FiniteSets

Kind == {"export", "gallery", "import"}

CONSTANTS
  Transfer,   \* the job ids
  MaxItem,    \* bound: the items of each job, by its kind
  MaxChunk,   \* the chunks of a device file
  MaxIndex    \* the last " (index)" a name is tried with, 999

ASSUME TransferAssumption ==
  /\ {"user", "nobody"} \cap Transfer = {}
  /\ MaxItem \in [Transfer -> [Kind -> Nat]] /\ MaxChunk \in Nat \ {0} /\ MaxIndex \in Nat

VARIABLES
  flags,      \* jobs: the cancel flag of every registered job
  transfer,   \* the tasks
  parts,      \* the jobs whose staged .part file exists
  folder,     \* the destination folder
  reports,    \* finished signals that wait for the Qt thread
  rows,       \* the status window
  closing     \* ClosingHandler: a close under way, the program's end

transferVars == <<flags, transfer, parts, folder, reports, rows, closing>>

(* Plain exports keep the device's file name, gallery exports put the date *)
(* in front.                                                               *)
Name == {"plain", "dated"} \X (0 .. MaxIndex)

NoFile == [owner |-> "nobody", got |-> 0]
File == [owner : Transfer \cup {"user"}, got : 0 .. MaxChunk]

(* "connecting": no AFC client yet; "next": between two items; "chosen":   *)
(* an output path is chosen and not yet created; "received": the reading   *)
(* loop of a gallery export ended; "placing", "copying": its finalising;   *)
(* "done": the item is where it belongs, and the flag is read once more;   *)
(* "ending": the finished signal is queued.                                *)
ItemStage == {"chosen", "receiving", "received", "placing", "copying", "done"}
TransferStage == ItemStage \cup {"unused", "connecting", "next", "ending", "over"}

Task == [kind : Kind, stage : TransferStage, total : Nat, items : Nat, index : 0 .. MaxIndex + 1,
         got : 0 .. MaxChunk, ok : Nat, failed : Nat]

Report == [id : Transfer, cancelled : BOOLEAN, failed : Nat]

TransfersTypeOK ==
  /\ flags \in [Transfer -> {"none", "run", "cancel"}]
  /\ transfer \in [Transfer -> Task]
  /\ parts \subseteq {t \in Transfer : transfer[t].kind = "gallery"
                                        /\ transfer[t].stage \in ItemStage}
  /\ folder \in [Name -> File \cup {NoFile}]
  /\ reports \in Seq(Report)
  /\ rows \in [Transfer -> {"none", "Running", "Completed", "Failed", "Cancelled"}]
  /\ closing \in {"no", "approved", "quit"}

(* The user's own files may hold the first names.                          *)
TransfersInit ==
  /\ flags = [t \in Transfer |-> "none"]
  /\ transfer = [t \in Transfer |->
       [kind |-> "export", stage |-> "unused", total |-> 0, items |-> 0, index |-> 0,
        got |-> 0, ok |-> 0, failed |-> 0]]
  /\ parts = {}
  /\ \E taken \in 0 .. MaxIndex + 1 :
       folder = [n \in Name |-> IF n[2] < taken THEN [owner |-> "user", got |-> MaxChunk]
                                ELSE NoFile]
  /\ reports = <<>>
  /\ rows = [t \in Transfer |-> "none"]
  /\ closing = "no"

At(t, kind, stage) ==
  transfer[t].kind = kind /\ transfer[t].stage = stage /\ closing # "quit"

SetTransfer(t, stage) == transfer' = [transfer EXCEPT ![t].stage = stage]

Cancelled(t) == flags[t] = "cancel"

-----------------------------------------------------------------------------
(* The Qt thread.                                                          *)

(* Mutant of StartTransfer: the task registers its job once it has its     *)
(* client.                                                                 *)
StartUnregistered(t, kind, items) ==
  /\ closing = "no"
  /\ transfer[t].stage = "unused"
  /\ transfer' = [transfer EXCEPT ![t].kind = kind, ![t].stage = "connecting",
                                  ![t].total = items, ![t].items = items]
  /\ rows' = [rows EXCEPT ![t] = "Running"]
  /\ UNCHANGED <<flags, parts, folder, reports, closing>>

(* addProcess, then start_export and its like with a fresh id.             *)
StartTransfer(t, kind, items) ==
  /\ closing = "no"
  /\ transfer[t].stage = "unused"
  /\ flags' = [flags EXCEPT ![t] = "run"]
  /\ transfer' = [transfer EXCEPT ![t].kind = kind, ![t].stage = "connecting",
                                  ![t].total = items, ![t].items = items]
  /\ rows' = [rows EXCEPT ![t] = "Running"]
  /\ UNCHANGED <<parts, folder, reports, closing>>

(* The cancel button of a row that runs; an unknown job is only logged.    *)
CancelJob(t) ==
  /\ closing # "quit"
  /\ rows[t] = "Running"
  /\ flags[t] # "none"
  /\ flags' = [flags EXCEPT ![t] = "cancel"]
  /\ UNCHANGED <<transfer, parts, folder, reports, rows, closing>>

(* finishProcess.                                                          *)
FinishProcess ==
  /\ closing # "quit"
  /\ reports # <<>>
  /\ LET r == Head(reports)
     IN rows' = [rows EXCEPT ![r.id] = IF r.cancelled THEN "Cancelled"
                                       ELSE IF r.failed > 0 THEN "Failed" ELSE "Completed"]
  /\ reports' = Tail(reports)
  /\ UNCHANGED <<flags, transfer, parts, folder, closing>>

HasActiveTasks == \E t \in Transfer : flags[t] # "none"

(* The window closes at once when nothing runs; else the user is asked,    *)
(* and may cancel_all_jobs.                                                *)
ApproveClose ==
  /\ closing = "no"
  /\ HasActiveTasks
  /\ flags' = [t \in Transfer |-> IF flags[t] = "none" THEN "none" ELSE "cancel"]
  /\ closing' = "approved"
  /\ UNCHANGED <<transfer, parts, folder, reports, rows>>

Close ==
  /\ closing = "approved" \/ (closing = "no" /\ ~HasActiveTasks)
  /\ closing' = "quit"
  /\ UNCHANGED <<flags, transfer, parts, folder, reports, rows>>

-----------------------------------------------------------------------------
(* A job.                                                                  *)

Reported(t, cancelled) ==
  reports' = Append(reports, [id |-> t, cancelled |-> cancelled, failed |-> transfer[t].failed])

(* Mutant of ClientFails: nobody is told.                                  *)
ClientFailsSilently(t) ==
  /\ transfer[t].stage = "connecting" /\ closing # "quit"
  /\ SetTransfer(t, "ending")
  /\ UNCHANGED <<flags, parts, folder, reports, rows, closing>>

(* create_afc_client: the device is gone, or refuses.                      *)
ClientFails(t) ==
  /\ transfer[t].stage = "connecting" /\ closing # "quit"
  /\ Reported(t, TRUE)
  /\ SetTransfer(t, "ending")
  /\ UNCHANGED <<flags, parts, folder, rows, closing>>

ClientReady(t) ==
  /\ transfer[t].stage = "connecting" /\ closing # "quit"
  /\ SetTransfer(t, "next")
  /\ UNCHANGED <<flags, parts, folder, reports, rows, closing>>

(* An item ends with Ok and success, and its locals are dropped, and with  *)
(* them the staged file.                                                   *)
ItemSucceeds(t) ==
  /\ transfer' = [transfer EXCEPT
       ![t].stage = "next", ![t].items = @ - 1, ![t].index = 0, ![t].got = 0,
       ![t].ok = @ + 1]
  /\ parts' = parts \ {t}

(* Mutant of ItemFails: the failure is not counted.                        *)
ItemFailsUncounted(t) ==
  /\ transfer' = [transfer EXCEPT
       ![t].stage = "next", ![t].items = @ - 1, ![t].index = 0, ![t].got = 0]
  /\ parts' = parts \ {t}

(* It ends with Ok without success, or with an error.                      *)
ItemFails(t) ==
  /\ transfer' = [transfer EXCEPT
       ![t].stage = "next", ![t].items = @ - 1, ![t].index = 0, ![t].got = 0,
       ![t].failed = @ + 1]
  /\ parts' = parts \ {t}

Free(kind) == {i \in 0 .. MaxIndex : folder[<<kind, i>>] = NoFile}

(* unique_output_path: the first name that is free, or the name itself     *)
(* when none is.                                                           *)
UniqueOutput(i) ==
  IF Free("plain") = {} THEN i = 0
  ELSE i \in Free("plain") /\ \A k \in Free("plain") : i <= k

HasNext(t) == transfer[t].items > 0 /\ ~Cancelled(t)

BeginExport(t) ==
  /\ At(t, "export", "next") /\ HasNext(t)
  /\ \E i \in 0 .. MaxIndex :
       /\ UniqueOutput(i)
       /\ transfer' = [transfer EXCEPT ![t].stage = "chosen", ![t].index = i]
  /\ UNCHANGED <<flags, parts, folder, reports, rows, closing>>

(* StagedFile::create_in.                                                  *)
BeginGallery(t) ==
  /\ At(t, "gallery", "next") /\ HasNext(t)
  /\ parts' = parts \cup {t}
  /\ SetTransfer(t, "receiving")
  /\ UNCHANGED <<flags, folder, reports, rows, closing>>

(* An import writes over the file of that name on the device.              *)
BeginImport(t) ==
  /\ At(t, "import", "next") /\ HasNext(t)
  /\ SetTransfer(t, "receiving")
  /\ UNCHANGED <<flags, parts, folder, reports, rows, closing>>

(* File::create empties whatever is there by now.                          *)
CreateOutput(t) ==
  /\ At(t, "export", "chosen")
  /\ folder' = [folder EXCEPT ![<<"plain", transfer[t].index>>] = [owner |-> t, got |-> 0]]
  /\ SetTransfer(t, "receiving")
  /\ UNCHANGED <<flags, parts, reports, rows, closing>>

Larger(a, b) == IF a > b THEN a ELSE b

(* One turn of the loop that reads and writes chunks.                      *)
Receive(t) ==
  LET got == transfer[t].got + 1
  IN /\ transfer[t].stage = "receiving" /\ closing # "quit"
     /\ ~Cancelled(t) /\ got <= MaxChunk
     /\ transfer' = [transfer EXCEPT ![t].got = got]
     /\ folder' = IF transfer[t].kind = "export"
                  THEN [folder EXCEPT ![<<"plain", transfer[t].index>>].got = Larger(@, got)]
                  ELSE folder
     /\ UNCHANGED <<flags, parts, reports, rows, closing>>

(* The end of the file, before all that was announced when the device's    *)
(* file shrank, or the flag.                                               *)
ReceiveEnds(t) ==
  /\ transfer[t].stage = "receiving" /\ closing # "quit"
  /\ SetTransfer(t, IF transfer[t].kind = "gallery" THEN "received" ELSE "done")
  /\ UNCHANGED <<flags, parts, folder, reports, rows, closing>>

(* Resolving, opening, creating, reading, writing: whatever fails ends the *)
(* item.  What a plain export has written stays.                           *)
ItemErrs(t) ==
  /\ \/ transfer[t].stage = "next" /\ HasNext(t)
     \/ transfer[t].stage \in {"chosen", "receiving", "placing"}
  /\ closing # "quit"
  /\ ItemFails(t)
  /\ UNCHANGED <<flags, folder, reports, rows, closing>>

(* The item counts as a success unless the flag is set by now.             *)
ItemDone(t) ==
  /\ transfer[t].stage = "done" /\ closing # "quit"
  /\ IF Cancelled(t) THEN ItemFails(t) ELSE ItemSucceeds(t)
  /\ UNCHANGED <<flags, folder, reports, rows, closing>>

(* Mutant of StagedReceived: an end of file counts as the end of the item. *)
StagedReceivedUnmeasured(t) ==
  /\ At(t, "gallery", "received")
  /\ \/ Cancelled(t) /\ ItemFails(t)
     \/ ~Cancelled(t) /\ SetTransfer(t, "placing") /\ UNCHANGED parts
  /\ UNCHANGED <<flags, folder, reports, rows, closing>>

(* A gallery download that was cancelled or is incomplete is not placed.   *)
StagedReceived(t) ==
  /\ At(t, "gallery", "received")
  /\ IF Cancelled(t) \/ transfer[t].got < MaxChunk THEN ItemFails(t)
     ELSE SetTransfer(t, "placing") /\ UNCHANGED parts
  /\ UNCHANGED <<flags, folder, reports, rows, closing>>

-----------------------------------------------------------------------------
(* gallery_export_finalize.                                                *)

Candidate(t) == <<"dated", transfer[t].index>>

PlacingStops(t) ==
  /\ At(t, "gallery", "placing")
  /\ Cancelled(t) \/ transfer[t].index > MaxIndex
  /\ ItemFails(t)
  /\ UNCHANGED <<flags, folder, reports, rows, closing>>

NameTaken(t) ==
  /\ At(t, "gallery", "placing")
  /\ ~Cancelled(t) /\ transfer[t].index <= MaxIndex
  /\ folder[Candidate(t)] # NoFile
  /\ transfer' = [transfer EXCEPT ![t].index = @ + 1]
  /\ UNCHANGED <<flags, parts, folder, reports, rows, closing>>

(* Mutant of Place: a rename, which replaces what is there.                *)
PlaceByRename(t) ==
  /\ At(t, "gallery", "placing")
  /\ ~Cancelled(t) /\ transfer[t].index <= MaxIndex
  /\ \/ /\ folder' = [folder EXCEPT ![Candidate(t)] = [owner |-> t, got |-> transfer[t].got]]
        /\ SetTransfer(t, "done")
     \/ /\ folder[Candidate(t)] = NoFile
        /\ folder' = [folder EXCEPT ![Candidate(t)] = [owner |-> t, got |-> 0]]
        /\ transfer' = [transfer EXCEPT ![t].stage = "copying", ![t].got = 0]
  /\ UNCHANGED <<flags, parts, reports, rows, closing>>

(* A hard link gives the file its name; where links are not supported, the *)
(* name is reserved with create_new and the bytes are copied.              *)
Place(t) ==
  /\ At(t, "gallery", "placing")
  /\ ~Cancelled(t) /\ transfer[t].index <= MaxIndex
  /\ folder[Candidate(t)] = NoFile
  /\ \/ /\ folder' = [folder EXCEPT ![Candidate(t)] = [owner |-> t, got |-> transfer[t].got]]
        /\ SetTransfer(t, "done")
     \/ /\ folder' = [folder EXCEPT ![Candidate(t)] = [owner |-> t, got |-> 0]]
        /\ transfer' = [transfer EXCEPT ![t].stage = "copying", ![t].got = 0]
  /\ UNCHANGED <<flags, parts, reports, rows, closing>>

CopyChunk(t) ==
  LET got == transfer[t].got + 1
  IN /\ At(t, "gallery", "copying")
     /\ ~Cancelled(t) /\ got <= MaxChunk
     /\ transfer' = [transfer EXCEPT ![t].got = got]
     /\ folder' = [folder EXCEPT ![Candidate(t)].got = got]
     /\ UNCHANGED <<flags, parts, reports, rows, closing>>

Copied(t) ==
  /\ At(t, "gallery", "copying")
  /\ ~Cancelled(t) /\ transfer[t].got = MaxChunk
  /\ SetTransfer(t, "done")
  /\ UNCHANGED <<flags, parts, folder, reports, rows, closing>>

(* Mutant of CopyFails: the reserved name stays.                           *)
CopyAbandoned(t) ==
  /\ At(t, "gallery", "copying")
  /\ ItemFails(t)
  /\ UNCHANGED <<flags, folder, reports, rows, closing>>

(* An error or the flag: what was copied is removed again.                 *)
CopyFails(t) ==
  /\ At(t, "gallery", "copying")
  /\ folder' = [folder EXCEPT ![Candidate(t)] = NoFile]
  /\ ItemFails(t)
  /\ UNCHANGED <<flags, reports, rows, closing>>

-----------------------------------------------------------------------------
(* After the last item, or once the flag was seen between two.  An export  *)
(* looks at the flag once more, an import does not.                        *)
FinishJob(t) ==
  /\ transfer[t].stage = "next" /\ closing # "quit"
  /\ \/ Cancelled(t) /\ transfer[t].items > 0 /\ Reported(t, TRUE)
     \/ /\ transfer[t].items = 0
        /\ Reported(t, Cancelled(t) /\ transfer[t].kind # "import")
  /\ SetTransfer(t, "ending")
  /\ UNCHANGED <<flags, parts, folder, rows, closing>>

UnregisterJob(t) ==
  /\ transfer[t].stage = "ending" /\ closing # "quit"
  /\ flags' = [flags EXCEPT ![t] = "none"]
  /\ SetTransfer(t, "over")
  /\ UNCHANGED <<parts, folder, reports, rows, closing>>

TransferStep(t) ==
  \/ ClientFails(t) \/ ClientReady(t)
  \/ BeginExport(t) \/ BeginGallery(t) \/ BeginImport(t)
  \/ CreateOutput(t) \/ Receive(t) \/ ReceiveEnds(t) \/ ItemErrs(t)
  \/ StagedReceived(t) \/ ItemDone(t)
  \/ PlacingStops(t) \/ NameTaken(t) \/ Place(t)
  \/ CopyChunk(t) \/ Copied(t) \/ CopyFails(t)
  \/ FinishJob(t) \/ UnregisterJob(t)

TransfersNext ==
  \/ \E t \in Transfer :
       \/ TransferStep(t) \/ CancelJob(t)
       \/ \E kind \in Kind : \E items \in 0 .. MaxItem[t][kind] : StartTransfer(t, kind, items)
  \/ FinishProcess \/ ApproveClose \/ Close

(* The runtime polls the tasks, reads and writes end, and the Qt thread    *)
(* handles what is queued.  Nothing is owed by the user.                   *)
TransfersFairness ==
  /\ \A t \in Transfer : WF_transferVars(TransferStep(t))
  /\ WF_transferVars(FinishProcess)

TransfersSpec == TransfersInit /\ [][TransfersNext]_transferVars /\ TransfersFairness

-----------------------------------------------------------------------------
(* Properties.                                                             *)

Copying(t, i) ==
  t \in Transfer /\ transfer[t].stage = "copying" /\ transfer[t].index = i

Working(t) == transfer[t].stage \notin {"unused", "over"}

(* What a gallery export puts into the folder under a file's own name is   *)
(* the whole file: while it is only part of it, the job that reserved the  *)
(* name is still copying and removes it again if it stops.  Cancelling,    *)
(* files that shrink and folders without hard links make no difference     *)
(* (gallery_export_finalize, copy_without_overwrite).                      *)
PublishedWhole ==
  \A i \in 0 .. MaxIndex : LET file == folder[<<"dated", i>>] IN
    file.owner \in Transfer /\ file.got < MaxChunk => Copying(file.owner, i)

(* A gallery export takes no file away and writes over none, neither the   *)
(* user's nor another job's that runs into the same names, and a failed    *)
(* copy removes only what its own job created (place_without_overwrite).   *)
GalleryKeeps ==
  [][\A i \in 0 .. MaxIndex : LET file == folder[<<"dated", i>>] IN
       file # NoFile => folder'[<<"dated", i>>] = file \/ Copying(file.owner, i)]_transferVars

(* "Completed" in the status window means that every item the row was      *)
(* started with was transferred, and that each file of a gallery export    *)
(* lies in the folder under a name of its own, although the row knows only *)
(* that nothing was cancelled or failed (finishProcess,                    *)
(* ui/StatusWindow.qml:278).                                               *)
CompletedMeansAll ==
  \A t \in Transfer : rows[t] = "Completed" =>
    /\ transfer[t].ok = transfer[t].total
    /\ transfer[t].kind = "gallery" =>
         transfer[t].ok = Cardinality({i \in 0 .. MaxIndex :
                            folder[<<"dated", i>>] = [owner |-> t, got |-> MaxChunk]})

(* The program does not quit under a job that was not told to stop:        *)
(* has_active_tasks() sees a job from the call that starts it until it has *)
(* nothing left to do (ClosingHandler.nextActiveCategory).                 *)
QuitAsks ==
  closing = "quit" => \A t \in Transfer : Working(t) => Cancelled(t)

(* Every row comes to an end: whatever fails, is cancelled or goes missing, *)
(* the job reports to its row, unless the program quits first.             *)
RowsEnd ==
  \A t \in Transfer : (rows[t] = "Running") ~> (rows[t] # "Running" \/ closing = "quit")

(* A job's file in the folder stays that job's: exports keep what exists   *)
(* under a name and take another, as the test of unique_output_path        *)
(* asserts of the existing file (src/io_manager.rs:1587).                  *)
ExportKeeps ==
  [][\A n \in Name : folder[n].owner \in Transfer =>
       folder'[n].owner \in {folder[n].owner, "nobody"}]_transferVars
=============================================================================
