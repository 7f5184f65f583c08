-------------------------- MODULE FileTransfersProofs --------------------------
(***************************************************************************)
(* The types of FileTransfers, PublishedWhole, GalleryKeeps, QuitAsks and  *)
(* CompletedMeansAll, for any number of jobs, items, chunks and names; and *)
(* what makes the window's rows end: that rows, reports and the registry   *)
(* follow the jobs.                                                        *)
(***************************************************************************)
EXTENDS FileTransfers, SequenceTheorems, FiniteSetTheorems, TLAPS

(* A job that copies has reserved its name, and the file there is as long  *)
(* as the copy.                                                            *)
CopyReserved ==
  \A t \in Transfer : transfer[t].stage = "copying" =>
    /\ transfer[t].kind = "gallery" /\ transfer[t].index \in 0 .. MaxIndex
    /\ folder[Candidate(t)] = [owner |-> t, got |-> transfer[t].got]

(* Only what is whole is given a name.                                     *)
PlacingWhole == \A t \in Transfer : transfer[t].stage = "placing" => transfer[t].got = MaxChunk

(* An export that writes has its file.                                     *)
HasOutput(task, files) ==
  /\ task.stage = "chosen" => task.index \in 0 .. MaxIndex
  /\ task.stage = "receiving" /\ task.kind = "export" =>
       task.index \in 0 .. MaxIndex /\ files[<<"plain", task.index>>] # NoFile

OutputsExist == \A t \in Transfer : HasOutput(transfer[t], folder)

ItemsLeft == \A t \in Transfer : transfer[t].stage \in ItemStage => transfer[t].items > 0

(* A job is registered for as long as it works, and all of them were told  *)
(* to stop once the close was approved.                                    *)
Registered ==
  \A t \in Transfer : Working(t) => flags[t] # "none" /\ (closing # "no" => flags[t] = "cancel")

TransfersInv ==
  /\ TransfersTypeOK
  /\ CopyReserved
  /\ PlacingWhole
  /\ OutputsExist
  /\ ItemsLeft
  /\ Registered
  /\ PublishedWhole

Flag == {"none", "run", "cancel"}
Row == {"none", "Running", "Completed", "Failed", "Cancelled"}

-----------------------------------------------------------------------------
(* Names, files and counts.                                                *)

LEMMA CountFacts ==
  /\ 0 \in 0 .. MaxChunk /\ MaxChunk \in 0 .. MaxChunk /\ MaxChunk \in Nat /\ MaxChunk > 0
  /\ 0 \in 0 .. MaxIndex + 1 /\ 0 \in 0 .. MaxIndex
  /\ \A i \in 0 .. MaxIndex : i \in 0 .. MaxIndex + 1 /\ i + 1 \in 0 .. MaxIndex + 1
  /\ \A i \in 0 .. MaxIndex + 1 : i <= MaxIndex => i \in 0 .. MaxIndex
  /\ \A n \in 0 .. MaxChunk : n \in Nat /\ (n + 1 <= MaxChunk => n + 1 \in 0 .. MaxChunk)
  /\ \A n \in 0 .. MaxChunk : ~(n < MaxChunk) => n = MaxChunk
BY TransferAssumption

LEMMA NameFacts ==
  /\ \A i \in 0 .. MaxIndex : <<"plain", i>> \in Name /\ <<"dated", i>> \in Name
  /\ \A i, k \in 0 .. MaxIndex : <<"plain", i>> # <<"dated", k>>
  /\ \A i, k \in 0 .. MaxIndex : <<"dated", i>> = <<"dated", k>> => i = k
  /\ \A n \in Name : \E i \in 0 .. MaxIndex : n = <<"plain", i>> \/ n = <<"dated", i>>
BY DEF Name

LEMMA FileFacts ==
  /\ NoFile.owner \notin Transfer /\ NoFile.owner = "nobody"
  /\ \A t \in Transfer, n \in 0 .. MaxChunk : /\ [owner |-> t, got |-> n] \in File
                                              /\ [owner |-> t, got |-> n] # NoFile
  /\ \A f \in File : f # NoFile /\ f.got \in 0 .. MaxChunk
<1>1. "nobody" \notin Transfer
  BY TransferAssumption
<1> QED
  BY <1>1 DEF NoFile, File

LEMMA TaskFacts ==
  ASSUME TransfersTypeOK, NEW t \in Transfer
  PROVE  /\ transfer[t] \in Task
         /\ t \in parts => transfer[t].kind = "gallery" /\ transfer[t].stage \in ItemStage
BY DEF TransfersTypeOK

LEMMA ReportFacts ==
  ASSUME TransfersTypeOK, NEW t \in Transfer, NEW c \in BOOLEAN, Reported(t, c)
  PROVE  reports' \in Seq(Report)
<1>1. [id |-> t, cancelled |-> c, failed |-> transfer[t].failed] \in Report
  BY TaskFacts DEF Task, Report
<1> QED
  BY <1>1, AppendProperties DEF TransfersTypeOK, Reported

LEMMA TransfersInitial == TransfersInit => TransfersInv
<1> SUFFICES ASSUME TransfersInit PROVE TransfersInv
  OBVIOUS
<1>1. [kind |-> "export", stage |-> "unused", total |-> 0, items |-> 0, index |-> 0,
       got |-> 0, ok |-> 0, failed |-> 0] \in Task
  BY CountFacts DEF Task, Kind, TransferStage
<1>2. /\ transfer \in [Transfer -> Task]
      /\ \A t \in Transfer : transfer[t].stage = "unused" /\ transfer[t].kind = "export"
  BY <1>1 DEF TransfersInit
<1>3. "user" \notin Transfer /\ "nobody" \notin Transfer
  BY TransferAssumption
<1>4. /\ folder \in [Name -> File \cup {NoFile}]
      /\ \A n \in Name : folder[n].owner \notin Transfer
  <2>1. PICK taken \in 0 .. MaxIndex + 1 :
          folder = [n \in Name |-> IF n[2] < taken THEN [owner |-> "user", got |-> MaxChunk]
                                   ELSE NoFile]
    BY DEF TransfersInit
  <2>2. [owner |-> "user", got |-> MaxChunk] \in File
    BY CountFacts DEF File
  <2>3. \A n \in Name : folder[n] \in {[owner |-> "user", got |-> MaxChunk], NoFile}
    BY <2>1
  <2> QED
    BY <1>3, <2>1, <2>2, <2>3, FileFacts
<1>5. reports \in Seq(Report)
  BY EmptySeq DEF TransfersInit
<1>6. TransfersTypeOK
  BY <1>2, <1>4, <1>5 DEF TransfersInit, TransfersTypeOK
<1>7. PublishedWhole
  BY <1>4, NameFacts DEF PublishedWhole
<1> QED
  BY <1>2, <1>6, <1>7 DEF TransfersInv, CopyReserved, PlacingWhole, OutputsExist, HasOutput,
                         ItemsLeft, ItemStage, Registered, Working

-----------------------------------------------------------------------------
(* A step that leaves the gallery's files alone: task t becomes q, and at  *)
(* most a plain file is created or written.                                *)
Plain(t, q) ==
  /\ transfer' = [transfer EXCEPT ![t] = q]
  /\ folder' \in [Name -> File \cup {NoFile}]
  /\ \A i \in 0 .. MaxIndex : /\ folder'[<<"dated", i>>] = folder[<<"dated", i>>]
                              /\ folder[<<"plain", i>>] # NoFile => folder'[<<"plain", i>>] # NoFile
  /\ closing' = closing /\ rows' = rows /\ reports' \in Seq(Report)
  /\ parts' \subseteq parts \cup {t}
  /\ t \in parts' => q.kind = "gallery" /\ q.stage \in ItemStage

(* What q has to be.                                                       *)
Sound(t, q) ==
  /\ q.stage \notin {"unused", "copying"}
  /\ transfer[t].stage = "copying" => transfer[t].got = MaxChunk
  /\ q.stage = "placing" => q.got = MaxChunk
  /\ q.stage \in ItemStage => q.items > 0
  /\ HasOutput(q, folder')

LEMMA PlainKeepsInv ==
  ASSUME TransfersInv, NEW t \in Transfer, NEW q \in Task, Plain(t, q), Sound(t, q),
         \/ Working(t) /\ flags' = flags
         \/ q.stage = "over" /\ flags' = [flags EXCEPT ![t] = "none"]
  PROVE  TransfersInv'
<1>1. TransfersTypeOK
  BY DEF TransfersInv
<1>2. /\ transfer' \in [Transfer -> Task] /\ transfer'[t] = q
      /\ \A s \in Transfer : s # t => transfer'[s] = transfer[s]
  BY <1>1 DEF TransfersTypeOK, Plain
<1>3. flags' \in [Transfer -> Flag] /\ \A s \in Transfer : s # t => flags'[s] = flags[s]
  BY <1>1 DEF TransfersTypeOK, Flag
<1>4. parts' \subseteq {s \in Transfer : transfer'[s].kind = "gallery"
                                         /\ transfer'[s].stage \in ItemStage}
  BY <1>1, <1>2 DEF TransfersTypeOK, Plain
<1>5. TransfersTypeOK'
  BY <1>1, <1>2, <1>3, <1>4 DEF TransfersTypeOK, Plain, Flag
<1>6. CopyReserved'
  BY <1>2 DEF TransfersInv, CopyReserved, Candidate, Plain, Sound
<1>7. PlacingWhole' /\ ItemsLeft'
  BY <1>2 DEF TransfersInv, PlacingWhole, ItemsLeft, Sound
<1>8. OutputsExist'
  <2> SUFFICES ASSUME NEW s \in Transfer PROVE HasOutput(transfer'[s], folder')
    BY DEF OutputsExist
  <2>1. CASE s = t
    BY <1>2, <2>1 DEF Sound
  <2>2. CASE s # t
    <3>1. HasOutput(transfer[s], folder)
      BY DEF TransfersInv, OutputsExist
    <3> QED
      BY <1>2, <2>2, <3>1 DEF HasOutput, Plain
  <2> QED
    BY <2>1, <2>2
<1>9. Registered'
  <2> SUFFICES ASSUME NEW s \in Transfer, Working(s)'
               PROVE  flags'[s] # "none" /\ (closing # "no" => flags'[s] = "cancel")
    BY DEF Registered, Plain
  <2>1. Working(s) => flags[s] # "none" /\ (closing # "no" => flags[s] = "cancel")
    BY DEF TransfersInv, Registered
  <2>2. CASE s # t
    BY <1>2, <1>3, <2>1, <2>2 DEF Working
  <2>3. CASE s = t
    BY <1>2, <2>1, <2>3 DEF Working
  <2> QED
    BY <2>2, <2>3
<1>10. PublishedWhole'
  <2> SUFFICES ASSUME NEW i \in 0 .. MaxIndex, NEW s \in Transfer,
                      folder'[<<"dated", i>>].owner = s, folder'[<<"dated", i>>].got < MaxChunk
               PROVE  transfer'[s].stage = "copying" /\ transfer'[s].index = i
    BY DEF PublishedWhole, Copying
  <2>1. folder'[<<"dated", i>>] = folder[<<"dated", i>>]
    BY DEF Plain
  <2>2. transfer[s].stage = "copying" /\ transfer[s].index = i
    BY <2>1 DEF TransfersInv, PublishedWhole, Copying
  <2>3. folder[<<"dated", transfer[s].index>>] = [owner |-> s, got |-> transfer[s].got]
    BY <2>2 DEF TransfersInv, CopyReserved, Candidate
  <2>4. transfer[s].got < MaxChunk
    BY <2>1, <2>2, <2>3
  <2>5. s # t
    BY <2>2, <2>4, CountFacts DEF Sound
  <2> QED
    BY <1>2, <2>2, <2>5
<1> QED
  BY <1>5, <1>6, <1>7, <1>8, <1>9, <1>10 DEF TransfersInv

-----------------------------------------------------------------------------
(* How a task is replaced by the operators of the model.                   *)
LEMMA StageFacts ==
  ASSUME TransfersTypeOK, NEW t \in Transfer, NEW stage \in TransferStage, SetTransfer(t, stage)
  PROVE  \E q \in Task :
           /\ transfer' = [transfer EXCEPT ![t] = q]
           /\ q.stage = stage /\ q.kind = transfer[t].kind /\ q.items = transfer[t].items
           /\ q.index = transfer[t].index /\ q.got = transfer[t].got
<1> DEFINE q == [transfer[t] EXCEPT !.stage = stage]
<1>1. transfer[t] \in Task
  BY TaskFacts
<1>2. /\ q \in Task /\ q.stage = stage /\ q.kind = transfer[t].kind
      /\ q.items = transfer[t].items /\ q.index = transfer[t].index /\ q.got = transfer[t].got
  BY <1>1 DEF Task
<1>3. transfer' = [transfer EXCEPT ![t] = q]
  BY DEF SetTransfer
<1> HIDE DEF q
<1> QED
  BY <1>2, <1>3

LEMMA ItemFacts ==
  ASSUME TransfersTypeOK, NEW t \in Transfer, transfer[t].items > 0,
         ItemSucceeds(t) \/ ItemFails(t)
  PROVE  /\ parts' = parts \ {t}
         /\ \E q \in Task : transfer' = [transfer EXCEPT ![t] = q] /\ q.stage = "next"
<1>1. transfer[t] \in Task
  BY TaskFacts
<1>2. transfer[t].items - 1 \in Nat /\ transfer[t].ok + 1 \in Nat /\ transfer[t].failed + 1 \in Nat
  BY <1>1 DEF Task
<1>3. CASE ItemSucceeds(t)
  <2> DEFINE q == [transfer[t] EXCEPT !.stage = "next", !.items = transfer[t].items - 1,
                                      !.index = 0, !.got = 0, !.ok = transfer[t].ok + 1]
  <2>1. q \in Task /\ q.stage = "next"
    BY <1>1, <1>2, CountFacts DEF Task, TransferStage
  <2>2. transfer' = [transfer EXCEPT ![t] = q] /\ parts' = parts \ {t}
    BY <1>1, <1>3 DEF ItemSucceeds, Task
  <2> HIDE DEF q
  <2> QED
    BY <2>1, <2>2
<1>4. CASE ItemFails(t)
  <2> DEFINE q == [transfer[t] EXCEPT !.stage = "next", !.items = transfer[t].items - 1,
                                      !.index = 0, !.got = 0, !.failed = transfer[t].failed + 1]
  <2>1. q \in Task /\ q.stage = "next"
    BY <1>1, <1>2, CountFacts DEF Task, TransferStage
  <2>2. transfer' = [transfer EXCEPT ![t] = q] /\ parts' = parts \ {t}
    BY <1>1, <1>4 DEF ItemFails, Task
  <2> HIDE DEF q
  <2> QED
    BY <2>1, <2>2
<1> QED
  BY <1>3, <1>4

SetIndex(t, stage, i) == transfer' = [transfer EXCEPT ![t].stage = stage, ![t].index = i]

SetGot(t, stage, got) == transfer' = [transfer EXCEPT ![t].stage = stage, ![t].got = got]

LEMMA IndexFacts ==
  ASSUME TransfersTypeOK, NEW t \in Transfer, NEW i \in 0 .. MaxIndex + 1,
         NEW stage \in TransferStage, SetIndex(t, stage, i)
  PROVE  \E q \in Task : /\ transfer' = [transfer EXCEPT ![t] = q]
                          /\ q.stage = stage /\ q.index = i /\ q.kind = transfer[t].kind
                          /\ q.items = transfer[t].items /\ q.got = transfer[t].got
<1> DEFINE q == [transfer[t] EXCEPT !.stage = stage, !.index = i]
<1>1. transfer[t] \in Task /\ transfer \in [Transfer -> Task]
  BY TaskFacts DEF TransfersTypeOK
<1>2. /\ q \in Task /\ q.stage = stage /\ q.index = i /\ q.kind = transfer[t].kind
      /\ q.items = transfer[t].items /\ q.got = transfer[t].got
  BY <1>1 DEF Task
<1>3. transfer' = [transfer EXCEPT ![t] = q]
  BY <1>1 DEF Task, SetIndex
<1> HIDE DEF q
<1> QED
  BY <1>2, <1>3

LEMMA GotFacts ==
  ASSUME TransfersTypeOK, NEW t \in Transfer, NEW got \in 0 .. MaxChunk,
         NEW stage \in TransferStage, SetGot(t, stage, got)
  PROVE  \E q \in Task : /\ transfer' = [transfer EXCEPT ![t] = q]
                          /\ q.stage = stage /\ q.got = got /\ q.kind = transfer[t].kind
                          /\ q.items = transfer[t].items /\ q.index = transfer[t].index
<1> DEFINE q == [transfer[t] EXCEPT !.stage = stage, !.got = got]
<1>1. transfer[t] \in Task /\ transfer \in [Transfer -> Task]
  BY TaskFacts DEF TransfersTypeOK
<1>2. /\ q \in Task /\ q.stage = stage /\ q.got = got /\ q.kind = transfer[t].kind
      /\ q.items = transfer[t].items /\ q.index = transfer[t].index
  BY <1>1 DEF Task
<1>3. transfer' = [transfer EXCEPT ![t] = q]
  BY <1>1 DEF Task, SetGot
<1> HIDE DEF q
<1> QED
  BY <1>2, <1>3

-----------------------------------------------------------------------------
(* The steps that leave the gallery's files alone.                         *)
GoesPlainly(t) ==
  \E q \in Task :
    /\ Plain(t, q) /\ Sound(t, q)
    /\ \/ Working(t) /\ flags' = flags
       \/ q.stage = "over" /\ flags' = [flags EXCEPT ![t] = "none"]

LEMMA FolderKept ==
  ASSUME TransfersTypeOK, NEW t \in Transfer, NEW q,
         transfer' = [transfer EXCEPT ![t] = q], reports' \in Seq(Report),
         parts' \subseteq parts \cup {t},
         t \in parts' => q.kind = "gallery" /\ q.stage \in ItemStage,
         UNCHANGED <<folder, closing, rows>>
  PROVE  Plain(t, q)
BY DEF Plain, TransfersTypeOK

LEMMA StageSteps ==
  ASSUME TransfersInv, NEW t \in Transfer,
         \/ ClientFails(t) \/ ClientReady(t) \/ BeginGallery(t) \/ BeginImport(t)
         \/ ReceiveEnds(t) \/ Copied(t) \/ FinishJob(t) \/ UnregisterJob(t)
  PROVE  GoesPlainly(t)
<1>1. /\ TransfersTypeOK /\ transfer[t] \in Task
      /\ t \in parts => transfer[t].kind = "gallery" /\ transfer[t].stage \in ItemStage
      /\ reports \in Seq(Report)
  BY TaskFacts DEF TransfersInv, TransfersTypeOK
<1>2. UNCHANGED <<folder, closing, rows>>
  BY DEF ClientFails, ClientReady, BeginGallery, BeginImport, ReceiveEnds, Copied, FinishJob,
         UnregisterJob
<1>3. /\ "ending" \in TransferStage /\ "next" \in TransferStage /\ "over" \in TransferStage
      /\ "receiving" \in TransferStage /\ "received" \in TransferStage /\ "done" \in TransferStage
      /\ "receiving" \in ItemStage /\ "received" \in ItemStage /\ "done" \in ItemStage
      /\ "copying" \in ItemStage
      /\ "connecting" \notin ItemStage /\ "next" \notin ItemStage /\ "ending" \notin ItemStage
      /\ "over" \notin ItemStage
  BY DEF TransferStage, ItemStage
<1>4. CASE ClientFails(t) \/ ClientReady(t) \/ FinishJob(t)
  <2>1. PICK stage \in {"ending", "next"} : SetTransfer(t, stage)
    BY <1>4 DEF ClientFails, ClientReady, FinishJob
  <2>2. PICK q \in Task : transfer' = [transfer EXCEPT ![t] = q] /\ q.stage = stage
    BY <1>1, <1>3, <2>1, StageFacts
  <2>3. /\ transfer[t].stage \in {"connecting", "next"} /\ flags' = flags /\ parts' = parts
    BY <1>4 DEF ClientFails, ClientReady, FinishJob
  <2>4. reports' \in Seq(Report)
    <3>1. CASE ClientFails(t)
      BY <1>1, <3>1, ReportFacts DEF ClientFails
    <3>2. CASE ClientReady(t)
      BY <1>1, <3>2 DEF ClientReady
    <3>3. CASE FinishJob(t)
      <4>1. PICK c \in BOOLEAN : Reported(t, c)
        BY <3>3 DEF FinishJob, Cancelled
      <4> QED
        BY <1>1, <4>1, ReportFacts
    <3> QED
      BY <1>4, <3>1, <3>2, <3>3
  <2>5. Plain(t, q)
    BY <1>1, <1>2, <1>3, <2>2, <2>3, <2>4, FolderKept
  <2>6. Sound(t, q) /\ Working(t)
    BY <1>3, <2>2, <2>3 DEF Sound, HasOutput, Working
  <2> QED
    BY <2>3, <2>5, <2>6 DEF GoesPlainly
<1>5. CASE UnregisterJob(t)
  <2>1. PICK q \in Task : transfer' = [transfer EXCEPT ![t] = q] /\ q.stage = "over"
    BY <1>1, <1>3, <1>5, StageFacts DEF UnregisterJob
  <2>2. /\ transfer[t].stage = "ending" /\ flags' = [flags EXCEPT ![t] = "none"]
        /\ UNCHANGED <<parts, reports>>
    BY <1>5 DEF UnregisterJob
  <2>3. Plain(t, q)
    BY <1>1, <1>2, <1>3, <2>1, <2>2, FolderKept
  <2>4. Sound(t, q)
    BY <1>3, <2>1, <2>2 DEF Sound, HasOutput
  <2> QED
    BY <2>1, <2>2, <2>3, <2>4 DEF GoesPlainly
<1>6. CASE BeginGallery(t) \/ BeginImport(t)
  <2>1. PICK q \in Task : /\ transfer' = [transfer EXCEPT ![t] = q] /\ q.stage = "receiving"
                          /\ q.kind = transfer[t].kind /\ q.items = transfer[t].items
    BY <1>1, <1>3, <1>6, StageFacts DEF BeginGallery, BeginImport
  <2>2. /\ transfer[t].stage = "next" /\ transfer[t].items > 0 /\ transfer[t].kind # "export"
        /\ UNCHANGED <<flags, reports>>
    BY <1>6 DEF BeginGallery, BeginImport, At, HasNext
  <2>3. /\ parts' \subseteq parts \cup {t}
        /\ t \in parts' => transfer[t].kind = "gallery"
    BY <1>1, <1>6 DEF BeginGallery, BeginImport, At
  <2>4. Plain(t, q)
    BY <1>1, <1>2, <1>3, <2>1, <2>2, <2>3, FolderKept
  <2>5. Sound(t, q) /\ Working(t)
    BY <2>1, <2>2 DEF Sound, HasOutput, Working
  <2> QED
    BY <2>2, <2>4, <2>5 DEF GoesPlainly
<1>7. CASE ReceiveEnds(t) \/ Copied(t)
  <2>1. PICK stage \in {"received", "done"} : SetTransfer(t, stage)
    BY <1>7 DEF ReceiveEnds, Copied
  <2>2. PICK q \in Task : /\ transfer' = [transfer EXCEPT ![t] = q] /\ q.stage = stage
                          /\ q.kind = transfer[t].kind /\ q.items = transfer[t].items
    BY <1>1, <1>3, <2>1, StageFacts
  <2>3. /\ transfer[t].stage \in {"receiving", "copying"}
        /\ transfer[t].stage = "copying" => transfer[t].got = MaxChunk
        /\ UNCHANGED <<flags, parts, reports>>
    BY <1>7 DEF ReceiveEnds, Copied, At
  <2>4. transfer[t].items > 0
    BY <1>3, <2>3 DEF TransfersInv, ItemsLeft
  <2>5. Plain(t, q)
    BY <1>1, <1>2, <1>3, <2>2, <2>3, FolderKept
  <2>6. Sound(t, q) /\ Working(t)
    BY <2>2, <2>3, <2>4 DEF Sound, HasOutput, Working
  <2> QED
    BY <2>3, <2>5, <2>6 DEF GoesPlainly
<1> QED
  BY <1>4, <1>5, <1>6, <1>7

LEMMA ItemSteps ==
  ASSUME TransfersInv, NEW t \in Transfer,
         ItemErrs(t) \/ ItemDone(t) \/ PlacingStops(t) \/ StagedReceived(t)
  PROVE  GoesPlainly(t)
<1>1. /\ TransfersTypeOK /\ transfer[t] \in Task /\ reports \in Seq(Report)
      /\ t \in parts => transfer[t].kind = "gallery" /\ transfer[t].stage \in ItemStage
  BY TaskFacts DEF TransfersInv, TransfersTypeOK
<1>2. UNCHANGED <<flags, folder, reports, rows, closing>>
  BY DEF ItemErrs, ItemDone, PlacingStops, StagedReceived
<1>3. /\ transfer[t].stage \in {"next", "chosen", "receiving", "received", "placing", "done"}
      /\ transfer[t].items > 0
  <2>1. \/ transfer[t].stage = "next" /\ HasNext(t)
        \/ transfer[t].stage \in {"chosen", "receiving", "received", "placing", "done"}
    BY DEF ItemErrs, ItemDone, PlacingStops, StagedReceived, At
  <2> QED
    BY <2>1 DEF HasNext, TransfersInv, ItemsLeft, ItemStage
<1>4. Working(t)
  BY <1>3 DEF Working
<1>5. CASE ItemSucceeds(t) \/ ItemFails(t)
  <2>1. parts' = parts \ {t}
    BY <1>1, <1>3, <1>5, ItemFacts
  <2>2. PICK q \in Task : transfer' = [transfer EXCEPT ![t] = q] /\ q.stage = "next"
    BY <1>1, <1>3, <1>5, ItemFacts
  <2>3. Plain(t, q)
    BY <1>1, <1>2, <2>1, <2>2, FolderKept
  <2>4. Sound(t, q)
    BY <1>3, <2>2 DEF Sound, HasOutput, ItemStage
  <2> QED
    BY <1>2, <1>4, <2>3, <2>4 DEF GoesPlainly
<1>6. CASE /\ At(t, "gallery", "received") /\ ~(transfer[t].got < MaxChunk)
           /\ SetTransfer(t, "placing") /\ UNCHANGED parts
  <2>1. "placing" \in TransferStage /\ "placing" \in ItemStage
    BY DEF TransferStage, ItemStage
  <2>2. PICK q \in Task : /\ transfer' = [transfer EXCEPT ![t] = q] /\ q.stage = "placing"
                          /\ q.kind = transfer[t].kind /\ q.items = transfer[t].items
                          /\ q.got = transfer[t].got
    BY <1>1, <1>6, <2>1, StageFacts
  <2>3. q.got = MaxChunk
    BY <1>1, <1>6, <2>2, CountFacts DEF Task
  <2>4. Plain(t, q)
    BY <1>1, <1>2, <1>6, <2>1, <2>2, FolderKept DEF At
  <2>5. Sound(t, q)
    BY <1>3, <2>2, <2>3 DEF Sound, HasOutput
  <2> QED
    BY <1>2, <1>4, <2>4, <2>5 DEF GoesPlainly
<1> QED
  BY <1>5, <1>6 DEF ItemErrs, ItemDone, PlacingStops, StagedReceived

(* A name is chosen, or the next one is tried.                             *)
LEMMA NameSteps ==
  ASSUME TransfersInv, NEW t \in Transfer, BeginExport(t) \/ NameTaken(t)
  PROVE  GoesPlainly(t)
<1>1. /\ TransfersTypeOK /\ transfer[t] \in Task /\ reports \in Seq(Report)
      /\ t \in parts => transfer[t].kind = "gallery" /\ transfer[t].stage \in ItemStage
  BY TaskFacts DEF TransfersInv, TransfersTypeOK
<1>2. UNCHANGED <<flags, parts, folder, reports, rows, closing>>
  BY DEF BeginExport, NameTaken
<1>3. /\ "chosen" \in TransferStage /\ "placing" \in TransferStage
      /\ "placing" \in ItemStage /\ "next" \notin ItemStage
  BY DEF TransferStage, ItemStage
<1>4. CASE BeginExport(t)
  <2>1. PICK i \in 0 .. MaxIndex : SetIndex(t, "chosen", i)
    BY <1>4 DEF BeginExport, SetIndex
  <2>2. i \in 0 .. MaxIndex + 1
    BY CountFacts
  <2>3. PICK q \in Task : /\ transfer' = [transfer EXCEPT ![t] = q] /\ q.stage = "chosen"
                          /\ q.index = i /\ q.items = transfer[t].items
    BY <1>1, <1>3, <2>1, <2>2, IndexFacts
  <2>4. transfer[t].stage = "next" /\ transfer[t].items > 0
    BY <1>4 DEF BeginExport, At, HasNext
  <2>5. Plain(t, q)
    BY <1>1, <1>2, <1>3, <2>3, <2>4, FolderKept
  <2>6. Sound(t, q) /\ Working(t)
    BY <2>3, <2>4 DEF Sound, HasOutput, Working
  <2> QED
    BY <1>2, <2>5, <2>6 DEF GoesPlainly
<1>5. CASE NameTaken(t)
  <2>1. /\ transfer[t].stage = "placing" /\ transfer[t].kind = "gallery"
        /\ transfer[t].index <= MaxIndex /\ transfer[t].index \in 0 .. MaxIndex + 1
    BY <1>1, <1>5 DEF NameTaken, At, Task
  <2>2. transfer[t].index + 1 \in 0 .. MaxIndex + 1
    BY <2>1, CountFacts
  <2>3. SetIndex(t, "placing", transfer[t].index + 1)
    <3>1. [transfer[t] EXCEPT !.index = transfer[t].index + 1]
            = [transfer[t] EXCEPT !.stage = "placing", !.index = transfer[t].index + 1]
      BY <1>1, <2>1 DEF Task
    <3> QED
      BY <1>1, <1>5, <3>1 DEF NameTaken, Task, SetIndex
  <2>4. PICK q \in Task : /\ transfer' = [transfer EXCEPT ![t] = q] /\ q.stage = "placing"
                          /\ q.kind = transfer[t].kind /\ q.items = transfer[t].items
                          /\ q.got = transfer[t].got
    BY <1>1, <1>3, <2>2, <2>3, IndexFacts
  <2>5. transfer[t].got = MaxChunk /\ transfer[t].items > 0
    BY <1>3, <2>1 DEF TransfersInv, PlacingWhole, ItemsLeft
  <2>6. Plain(t, q)
    BY <1>1, <1>2, <1>3, <2>1, <2>4, FolderKept
  <2>7. Sound(t, q) /\ Working(t)
    BY <2>1, <2>4, <2>5 DEF Sound, HasOutput, Working
  <2> QED
    BY <1>2, <2>6, <2>7 DEF GoesPlainly
<1> QED
  BY <1>4, <1>5

(* Exports write plain files.                                              *)
LEMMA WriteSteps ==
  ASSUME TransfersInv, NEW t \in Transfer, CreateOutput(t) \/ Receive(t)
  PROVE  GoesPlainly(t)
<1>1. /\ TransfersTypeOK /\ transfer[t] \in Task /\ reports \in Seq(Report)
      /\ t \in parts => transfer[t].kind = "gallery" /\ transfer[t].stage \in ItemStage
      /\ folder \in [Name -> File \cup {NoFile}]
  BY TaskFacts DEF TransfersInv, TransfersTypeOK
<1>2. UNCHANGED <<flags, parts, reports, rows, closing>>
  BY DEF CreateOutput, Receive
<1>3. /\ "receiving" \in TransferStage /\ "receiving" \in ItemStage /\ "chosen" \in ItemStage
  BY DEF TransferStage, ItemStage
<1>4. /\ transfer[t].stage \in {"chosen", "receiving"} /\ transfer[t].items > 0
      /\ Working(t)
  <2>1. transfer[t].stage \in {"chosen", "receiving"}
    BY DEF CreateOutput, Receive, At
  <2> QED
    BY <1>3, <2>1 DEF TransfersInv, ItemsLeft, Working
<1>5. HasOutput(transfer[t], folder)
  BY DEF TransfersInv, OutputsExist
<1> DEFINE n == <<"plain", transfer[t].index>>
<1>6. ASSUME NEW f \in File, n \in Name, folder' = [folder EXCEPT ![n] = f]
      PROVE  /\ folder' \in [Name -> File \cup {NoFile}] /\ folder'[n] # NoFile
             /\ \A i \in 0 .. MaxIndex :
                  /\ folder'[<<"dated", i>>] = folder[<<"dated", i>>]
                  /\ folder[<<"plain", i>>] # NoFile => folder'[<<"plain", i>>] # NoFile
  <2>1. /\ folder' \in [Name -> File \cup {NoFile}] /\ folder'[n] = f
        /\ \A m \in Name : m # n => folder'[m] = folder[m]
    BY <1>1, <1>6
  <2>2. \A i \in 0 .. MaxIndex : <<"dated", i>> # n
    OBVIOUS
  <2> HIDE DEF n
  <2> QED
    BY <2>1, <2>2, FileFacts, NameFacts
<1>7. CASE CreateOutput(t)
  <2>1. /\ transfer[t].stage = "chosen" /\ transfer[t].kind = "export"
        /\ transfer[t].index \in 0 .. MaxIndex
    BY <1>5, <1>7 DEF CreateOutput, At, HasOutput
  <2>2. PICK q \in Task : /\ transfer' = [transfer EXCEPT ![t] = q] /\ q.stage = "receiving"
                          /\ q.kind = transfer[t].kind /\ q.items = transfer[t].items
                          /\ q.index = transfer[t].index
    BY <1>1, <1>3, <1>7, StageFacts DEF CreateOutput
  <2>3. /\ [owner |-> t, got |-> 0] \in File /\ n \in Name
        /\ folder' = [folder EXCEPT ![n] = [owner |-> t, got |-> 0]]
    BY <1>7, <2>1, CountFacts, FileFacts, NameFacts DEF CreateOutput
  <2>4. /\ folder' \in [Name -> File \cup {NoFile}] /\ folder'[n] # NoFile
        /\ \A i \in 0 .. MaxIndex :
             /\ folder'[<<"dated", i>>] = folder[<<"dated", i>>]
             /\ folder[<<"plain", i>>] # NoFile => folder'[<<"plain", i>>] # NoFile
    BY <1>6, <2>3
  <2>5. t \notin parts
    BY <1>1, <2>1
  <2>6. Plain(t, q)
    BY <1>1, <1>2, <2>2, <2>4, <2>5 DEF Plain
  <2>7. Sound(t, q)
    BY <1>4, <2>1, <2>2, <2>4 DEF Sound, HasOutput
  <2> QED
    BY <1>2, <1>4, <2>6, <2>7 DEF GoesPlainly
<1>8. CASE Receive(t)
  <2> DEFINE got == transfer[t].got + 1
  <2>1. transfer[t].stage = "receiving" /\ got \in 0 .. MaxChunk
    BY <1>1, <1>8, CountFacts DEF Receive, Task
  <2> HIDE DEF got
  <2>2. SetGot(t, "receiving", got)
    <3>1. [transfer[t] EXCEPT !.got = got] = [transfer[t] EXCEPT !.stage = "receiving", !.got = got]
      BY <1>1, <2>1 DEF Task
    <3> QED
      BY <1>1, <1>8, <3>1 DEF Receive, Task, got, SetGot
  <2>3. PICK q \in Task : /\ transfer' = [transfer EXCEPT ![t] = q] /\ q.stage = "receiving"
                          /\ q.kind = transfer[t].kind /\ q.items = transfer[t].items
                          /\ q.index = transfer[t].index
    BY <1>1, <1>3, <2>1, <2>2, GotFacts
  <2>4. CASE transfer[t].kind = "export"
    <3>1. transfer[t].index \in 0 .. MaxIndex /\ n \in Name /\ folder[n] # NoFile
      BY <1>5, <2>1, <2>4, NameFacts DEF HasOutput
    <3>2. folder[n] \in File
      BY <1>1, <3>1
    <3> DEFINE f == [folder[n] EXCEPT !.got = Larger(folder[n].got, got)]
    <3>3. Larger(folder[n].got, got) \in 0 .. MaxChunk
      BY <2>1, <3>2 DEF Larger, File
    <3>4. f \in File
      BY <3>2, <3>3 DEF File
    <3>5. folder' = [folder EXCEPT ![n] = f]
      BY <1>8, <2>4 DEF Receive, got
    <3> HIDE DEF f
    <3>6. /\ folder' \in [Name -> File \cup {NoFile}] /\ folder'[n] # NoFile
          /\ \A i \in 0 .. MaxIndex :
               /\ folder'[<<"dated", i>>] = folder[<<"dated", i>>]
               /\ folder[<<"plain", i>>] # NoFile => folder'[<<"plain", i>>] # NoFile
      BY <1>6, <3>1, <3>4, <3>5
    <3>7. t \notin parts
      BY <1>1, <2>4
    <3>8. Plain(t, q)
      BY <1>1, <1>2, <2>3, <3>6, <3>7 DEF Plain
    <3>9. Sound(t, q)
      BY <1>4, <2>1, <2>3, <3>1, <3>6 DEF Sound, HasOutput
    <3> QED
      BY <1>2, <1>4, <3>8, <3>9 DEF GoesPlainly
  <2>5. CASE transfer[t].kind # "export"
    <3>1. folder' = folder
      BY <1>8, <2>5 DEF Receive
    <3>2. Plain(t, q)
      BY <1>1, <1>2, <1>3, <2>1, <2>3, <3>1, FolderKept
    <3>3. Sound(t, q)
      BY <1>4, <2>1, <2>3, <2>5 DEF Sound, HasOutput
    <3> QED
      BY <1>2, <1>4, <3>2, <3>3 DEF GoesPlainly
  <2> QED
    BY <2>4, <2>5
<1> QED
  BY <1>7, <1>8

-----------------------------------------------------------------------------
(* What GalleryKeeps says of one step.                                     *)
GalleryKept ==
  \A i \in 0 .. MaxIndex : LET file == folder[<<"dated", i>>] IN
    file # NoFile => folder'[<<"dated", i>>] = file \/ Copying(file.owner, i)

LEMMA PlainlyKeeps ==
  ASSUME TransfersInv, NEW t \in Transfer, GoesPlainly(t)
  PROVE  TransfersInv' /\ GalleryKept
<1>1. PICK q \in Task :
        /\ Plain(t, q) /\ Sound(t, q)
        /\ \/ Working(t) /\ flags' = flags
           \/ q.stage = "over" /\ flags' = [flags EXCEPT ![t] = "none"]
  BY DEF GoesPlainly
<1>2. TransfersInv'
  BY <1>1, PlainKeepsInv
<1>3. GalleryKept
  BY <1>1 DEF Plain, GalleryKept
<1> QED
  BY <1>2, <1>3

(* A step that writes under a name of the gallery: the name is free, or    *)
(* task t reserved it.  The task becomes q and the file f.                 *)
Gallery(t, q, f) ==
  /\ transfer[t].kind = "gallery" /\ transfer[t].index \in 0 .. MaxIndex
  /\ \/ transfer[t].stage = "placing" /\ folder[Candidate(t)] = NoFile
     \/ transfer[t].stage = "copying"
  /\ transfer' = [transfer EXCEPT ![t] = q]
  /\ folder' = [folder EXCEPT ![Candidate(t)] = f]
  /\ UNCHANGED <<flags, reports, rows, closing>>
  /\ parts' \subseteq parts
  /\ t \in parts' => q.kind = "gallery" /\ q.stage \in ItemStage
  /\ q.stage \in {"done", "copying", "next"}
  /\ q.stage \in ItemStage => q.items > 0
  /\ q.stage = "copying" => /\ q.kind = "gallery" /\ q.index = transfer[t].index
                            /\ f = [owner |-> t, got |-> q.got]
  /\ f # NoFile => f.owner = t /\ (q.stage = "copying" \/ f.got = MaxChunk)

LEMMA GalleryKeepsInv ==
  ASSUME TransfersInv, NEW t \in Transfer, NEW q \in Task, NEW f \in File \cup {NoFile},
         Gallery(t, q, f)
  PROVE  TransfersInv' /\ GalleryKept
<1> DEFINE k == transfer[t].index
<1>1. TransfersTypeOK
  BY DEF TransfersInv
<1>2. /\ transfer' \in [Transfer -> Task] /\ transfer'[t] = q
      /\ \A s \in Transfer : s # t => transfer'[s] = transfer[s]
  BY <1>1 DEF TransfersTypeOK, Gallery
<1>3. k \in 0 .. MaxIndex /\ <<"dated", k>> \in Name /\ Candidate(t) = <<"dated", k>>
  BY NameFacts DEF Gallery, Candidate
<1>4. /\ folder' \in [Name -> File \cup {NoFile}] /\ folder'[<<"dated", k>>] = f
      /\ \A n \in Name : n # <<"dated", k>> => folder'[n] = folder[n]
  BY <1>1, <1>3 DEF TransfersTypeOK, Gallery
<1>5. \A i \in 0 .. MaxIndex : /\ i # k => folder'[<<"dated", i>>] = folder[<<"dated", i>>]
                               /\ folder'[<<"plain", i>>] = folder[<<"plain", i>>]
  <2> HIDE DEF k
  <2> QED
    BY <1>3, <1>4, NameFacts
<1>6. folder[<<"dated", k>>] # NoFile =>
        /\ transfer[t].stage = "copying"
        /\ folder[<<"dated", k>>] = [owner |-> t, got |-> transfer[t].got]
  BY <1>3 DEF Gallery, TransfersInv, CopyReserved
<1>7. GalleryKept
  <2> SUFFICES ASSUME NEW i \in 0 .. MaxIndex, folder[<<"dated", i>>] # NoFile
               PROVE  \/ folder'[<<"dated", i>>] = folder[<<"dated", i>>]
                      \/ Copying(folder[<<"dated", i>>].owner, i)
    BY DEF GalleryKept
  <2>1. CASE i = k
    BY <1>6, <2>1 DEF Copying
  <2>2. CASE i # k
    BY <1>5, <2>2
  <2> QED
    BY <2>1, <2>2
<1>8. TransfersTypeOK'
  <2>1. parts' \subseteq {s \in Transfer : transfer'[s].kind = "gallery"
                                           /\ transfer'[s].stage \in ItemStage}
    BY <1>1, <1>2 DEF TransfersTypeOK, Gallery
  <2> QED
    BY <1>1, <1>2, <1>4, <2>1 DEF TransfersTypeOK, Gallery
<1>9. CopyReserved'
  <2> SUFFICES ASSUME NEW s \in Transfer, transfer'[s].stage = "copying"
               PROVE  /\ transfer'[s].kind = "gallery" /\ transfer'[s].index \in 0 .. MaxIndex
                      /\ folder'[<<"dated", transfer'[s].index>>]
                           = [owner |-> s, got |-> transfer'[s].got]
    BY DEF CopyReserved, Candidate
  <2>1. CASE s = t
    BY <1>2, <1>3, <1>4, <2>1 DEF Gallery
  <2>2. CASE s # t
    <3>1. transfer'[s] = transfer[s]
      BY <1>2, <2>2
    <3>2. /\ transfer[s].kind = "gallery" /\ transfer[s].index \in 0 .. MaxIndex
          /\ folder[<<"dated", transfer[s].index>>] = [owner |-> s, got |-> transfer[s].got]
      BY <3>1 DEF TransfersInv, CopyReserved, Candidate
    <3>3. transfer[s].got \in 0 .. MaxChunk
      BY <1>1 DEF TransfersTypeOK, Task
    <3>4. transfer[s].index # k
      <4>1. SUFFICES ASSUME transfer[s].index = k PROVE FALSE
        OBVIOUS
      <4>2. folder[<<"dated", k>>] = [owner |-> s, got |-> transfer[s].got]
        BY <3>2, <4>1
      <4>3. folder[<<"dated", k>>] # NoFile
        BY <3>3, <4>2, FileFacts
      <4>4. [owner |-> s, got |-> transfer[s].got] = [owner |-> t, got |-> transfer[t].got]
        BY <1>6, <4>2, <4>3
      <4> QED
        BY <2>2, <4>4
    <3> QED
      BY <1>5, <3>1, <3>2, <3>4
  <2> QED
    BY <2>1, <2>2
<1>10. PlacingWhole' /\ ItemsLeft'
  BY <1>2 DEF TransfersInv, PlacingWhole, ItemsLeft, Gallery
<1>11. OutputsExist'
  <2> SUFFICES ASSUME NEW s \in Transfer PROVE HasOutput(transfer'[s], folder')
    BY DEF OutputsExist
  <2>1. CASE s = t
    BY <1>2, <2>1 DEF HasOutput, Gallery
  <2>2. CASE s # t
    <3>1. HasOutput(transfer[s], folder)
      BY DEF TransfersInv, OutputsExist
    <3> QED
      BY <1>2, <1>5, <2>2, <3>1 DEF HasOutput
  <2> QED
    BY <2>1, <2>2
<1>12. Registered'
  <2> SUFFICES ASSUME NEW s \in Transfer, Working(s)'
               PROVE  flags'[s] # "none" /\ (closing' # "no" => flags'[s] = "cancel")
    BY DEF Registered
  <2>1. Working(s)
    BY <1>2 DEF Working, Gallery
  <2> QED
    BY <2>1 DEF TransfersInv, Registered, Gallery
<1>13. PublishedWhole'
  <2> SUFFICES ASSUME NEW i \in 0 .. MaxIndex, NEW s \in Transfer,
                      folder'[<<"dated", i>>].owner = s, folder'[<<"dated", i>>].got < MaxChunk
               PROVE  transfer'[s].stage = "copying" /\ transfer'[s].index = i
    BY DEF PublishedWhole, Copying
  <2>1. CASE i = k
    <3>1. f.owner = s /\ f.got < MaxChunk /\ f # NoFile
      BY <1>4, <2>1, FileFacts
    <3>2. s = t /\ q.stage = "copying"
      BY <3>1, CountFacts DEF Gallery
    <3> QED
      BY <1>2, <2>1, <3>2 DEF Gallery
  <2>2. CASE i # k
    <3>1. transfer[s].stage = "copying" /\ transfer[s].index = i
      BY <1>5, <2>2 DEF TransfersInv, PublishedWhole, Copying
    <3>2. s # t
      BY <2>2, <3>1
    <3> QED
      BY <1>2, <3>1, <3>2
  <2> QED
    BY <2>1, <2>2
<1> QED
  BY <1>7, <1>8, <1>9, <1>10, <1>11, <1>12, <1>13 DEF TransfersInv

LEMMA GallerySteps ==
  ASSUME TransfersInv, NEW t \in Transfer, Place(t) \/ CopyChunk(t) \/ CopyFails(t)
  PROVE  TransfersInv' /\ GalleryKept
<1>1. TransfersTypeOK /\ transfer[t] \in Task /\ transfer[t].got \in 0 .. MaxChunk
  BY TaskFacts DEF TransfersInv, Task
<1>2. UNCHANGED <<flags, reports, rows, closing>>
  BY DEF Place, CopyChunk, CopyFails
<1>3. /\ "placing" \in ItemStage /\ "copying" \in ItemStage /\ "done" \in ItemStage
      /\ "done" \in TransferStage /\ "copying" \in TransferStage /\ "next" \notin ItemStage
  BY DEF ItemStage, TransferStage
<1>4. /\ transfer[t].kind = "gallery" /\ transfer[t].stage \in {"placing", "copying"}
      /\ transfer[t].items > 0
  <2>1. transfer[t].kind = "gallery" /\ transfer[t].stage \in {"placing", "copying"}
    BY DEF Place, CopyChunk, CopyFails, At
  <2> QED
    BY <1>3, <2>1 DEF TransfersInv, ItemsLeft
<1>5. transfer[t].index \in 0 .. MaxIndex
  <2>1. CASE Place(t)
    BY <1>1, <2>1, CountFacts DEF Place, Task
  <2>2. CASE transfer[t].stage = "copying"
    BY <2>2 DEF TransfersInv, CopyReserved
  <2> QED
    BY <2>1, <2>2 DEF CopyChunk, CopyFails, At
<1>6. transfer[t].stage = "placing" => transfer[t].got = MaxChunk
  BY DEF TransfersInv, PlacingWhole
<1>7. CASE Place(t)
  <2>1. /\ transfer[t].stage = "placing" /\ folder[Candidate(t)] = NoFile /\ parts' = parts
    BY <1>7 DEF Place, At
  <2>2. CASE /\ folder' = [folder EXCEPT ![Candidate(t)] = [owner |-> t, got |-> transfer[t].got]]
             /\ SetTransfer(t, "done")
    <3>1. PICK q \in Task : /\ transfer' = [transfer EXCEPT ![t] = q] /\ q.stage = "done"
                            /\ q.kind = transfer[t].kind /\ q.items = transfer[t].items
      BY <1>1, <1>3, <2>2, StageFacts
    <3>2. PICK f \in File : f = [owner |-> t, got |-> transfer[t].got]
      BY <1>1, FileFacts
    <3>3. Gallery(t, q, f)
      BY <1>2, <1>3, <1>4, <1>5, <1>6, <2>1, <2>2, <3>1, <3>2 DEF Gallery
    <3> QED
      BY <3>3, GalleryKeepsInv
  <2>3. CASE /\ folder' = [folder EXCEPT ![Candidate(t)] = [owner |-> t, got |-> 0]]
             /\ transfer' = [transfer EXCEPT ![t].stage = "copying", ![t].got = 0]
    <3>1. SetGot(t, "copying", 0)
      BY <2>3 DEF SetGot
    <3>2. PICK q \in Task : /\ transfer' = [transfer EXCEPT ![t] = q] /\ q.stage = "copying"
                            /\ q.got = 0 /\ q.kind = transfer[t].kind
                            /\ q.items = transfer[t].items /\ q.index = transfer[t].index
      BY <1>1, <1>3, <3>1, CountFacts, GotFacts
    <3>3. PICK f \in File : f = [owner |-> t, got |-> 0]
      BY CountFacts, FileFacts
    <3>4. Gallery(t, q, f)
      BY <1>2, <1>3, <1>4, <1>5, <2>1, <2>3, <3>2, <3>3 DEF Gallery
    <3> QED
      BY <3>4, GalleryKeepsInv
  <2> QED
    BY <1>7, <2>2, <2>3 DEF Place
<1>8. CASE CopyChunk(t)
  <2>1. PICK got \in 0 .. MaxChunk : got = transfer[t].got + 1
    BY <1>1, <1>8, CountFacts DEF CopyChunk
  <2>2. /\ transfer[t].stage = "copying" /\ parts' = parts
        /\ transfer' = [transfer EXCEPT ![t].got = got]
        /\ folder' = [folder EXCEPT ![Candidate(t)].got = got]
    BY <1>8, <2>1 DEF CopyChunk, At
  <2>3. SetGot(t, "copying", got)
    <3>1. [transfer[t] EXCEPT !.got = got] = [transfer[t] EXCEPT !.stage = "copying", !.got = got]
      BY <1>1, <2>2 DEF Task
    <3> QED
      BY <1>1, <2>2, <3>1 DEF Task, SetGot
  <2>4. PICK q \in Task : /\ transfer' = [transfer EXCEPT ![t] = q] /\ q.stage = "copying"
                          /\ q.got = got /\ q.kind = transfer[t].kind
                          /\ q.items = transfer[t].items /\ q.index = transfer[t].index
    BY <1>1, <1>3, <2>3, GotFacts
  <2>5. PICK f \in File : f = [owner |-> t, got |-> got]
    BY FileFacts
  <2>6. folder[Candidate(t)] = [owner |-> t, got |-> transfer[t].got]
    BY <2>2 DEF TransfersInv, CopyReserved
  <2>7. folder' = [folder EXCEPT ![Candidate(t)] = f]
    <3>1. [folder[Candidate(t)] EXCEPT !.got = got] = f
      BY <2>5, <2>6
    <3> QED
      BY <2>2, <3>1
  <2>8. Gallery(t, q, f)
    BY <1>2, <1>3, <1>4, <1>5, <2>2, <2>4, <2>5, <2>7 DEF Gallery
  <2> QED
    BY <2>8, GalleryKeepsInv
<1>9. CASE CopyFails(t)
  <2>1. /\ transfer[t].stage = "copying" /\ ItemFails(t)
        /\ folder' = [folder EXCEPT ![Candidate(t)] = NoFile]
    BY <1>9 DEF CopyFails, At
  <2>2. parts' = parts \ {t}
    BY <1>1, <1>4, <2>1, ItemFacts
  <2>3. PICK q \in Task : transfer' = [transfer EXCEPT ![t] = q] /\ q.stage = "next"
    BY <1>1, <1>4, <2>1, ItemFacts
  <2>4. Gallery(t, q, NoFile)
    BY <1>2, <1>3, <1>4, <1>5, <2>1, <2>2, <2>3 DEF Gallery
  <2> QED
    BY <2>4, GalleryKeepsInv
<1> QED
  BY <1>7, <1>8, <1>9

-----------------------------------------------------------------------------
(* The steps of the Qt thread, and the behaviours.                         *)
LEMMA StartFacts ==
  ASSUME TransfersInv, NEW t \in Transfer, NEW kind \in Kind, NEW items \in 0 .. MaxItem[t][kind],
         StartTransfer(t, kind, items)
  PROVE  \E q \in Task : transfer' = [transfer EXCEPT ![t] = q] /\ q.stage = "connecting"
<1> DEFINE q == [transfer[t] EXCEPT !.kind = kind, !.stage = "connecting",
                                    !.total = items, !.items = items]
<1>1. transfer[t] \in Task /\ transfer \in [Transfer -> Task]
  BY TaskFacts DEF TransfersInv, TransfersTypeOK
<1>2. items \in Nat
  BY TransferAssumption
<1>3. q \in Task /\ q.stage = "connecting"
  BY <1>1, <1>2 DEF Task, TransferStage
<1>4. transfer' = [transfer EXCEPT ![t] = q]
  BY <1>1 DEF StartTransfer, Task
<1> HIDE DEF q
<1> QED
  BY <1>3, <1>4

LEMMA StartSteps ==
  ASSUME TransfersInv, NEW t \in Transfer, NEW kind \in Kind, NEW items \in 0 .. MaxItem[t][kind],
         StartTransfer(t, kind, items)
  PROVE  TransfersInv' /\ GalleryKept
<1>1. PICK q \in Task : transfer' = [transfer EXCEPT ![t] = q] /\ q.stage = "connecting"
  BY StartFacts
<1>2. /\ closing = "no" /\ transfer[t].stage = "unused"
      /\ flags' = [flags EXCEPT ![t] = "run"] /\ rows' = [rows EXCEPT ![t] = "Running"]
      /\ UNCHANGED <<parts, folder, reports, closing>>
  BY DEF StartTransfer
<1>3. /\ transfer' \in [Transfer -> Task] /\ transfer'[t] = q
      /\ \A s \in Transfer : s # t => transfer'[s] = transfer[s]
  BY <1>1 DEF TransfersInv, TransfersTypeOK
<1>4. /\ flags' \in [Transfer -> Flag] /\ flags'[t] = "run"
      /\ \A s \in Transfer : s # t => flags'[s] = flags[s]
  BY <1>2 DEF TransfersInv, TransfersTypeOK, Flag
<1>5. TransfersTypeOK'
  <2>1. rows' \in [Transfer -> Row]
    BY <1>2 DEF TransfersInv, TransfersTypeOK, Row
  <2>2. t \notin parts
    BY <1>2 DEF TransfersInv, TransfersTypeOK, ItemStage
  <2>3. parts' \subseteq {s \in Transfer : transfer'[s].kind = "gallery"
                                           /\ transfer'[s].stage \in ItemStage}
    BY <1>2, <1>3, <2>2 DEF TransfersInv, TransfersTypeOK
  <2> QED
    BY <1>2, <1>3, <1>4, <2>1, <2>3 DEF TransfersInv, TransfersTypeOK, Flag, Row
<1>6. CopyReserved' /\ PlacingWhole' /\ ItemsLeft'
  BY <1>1, <1>2, <1>3 DEF TransfersInv, CopyReserved, Candidate, PlacingWhole, ItemsLeft, ItemStage
<1>7. OutputsExist'
  <2> SUFFICES ASSUME NEW s \in Transfer PROVE HasOutput(transfer'[s], folder)
    BY <1>2 DEF OutputsExist
  <2>1. HasOutput(transfer[s], folder)
    BY DEF TransfersInv, OutputsExist
  <2> QED
    BY <1>1, <1>3, <2>1 DEF HasOutput
<1>8. Registered'
  BY <1>2, <1>3, <1>4 DEF TransfersInv, Registered, Working
<1>9. PublishedWhole'
  <2> SUFFICES ASSUME NEW i \in 0 .. MaxIndex, NEW s \in Transfer,
                      folder[<<"dated", i>>].owner = s, folder[<<"dated", i>>].got < MaxChunk
               PROVE  transfer'[s].stage = "copying" /\ transfer'[s].index = i
    BY <1>2 DEF PublishedWhole, Copying
  <2>1. transfer[s].stage = "copying" /\ transfer[s].index = i
    BY DEF TransfersInv, PublishedWhole, Copying
  <2> QED
    BY <1>2, <1>3, <2>1
<1>10. GalleryKept
  BY <1>2 DEF GalleryKept
<1> QED
  BY <1>5, <1>6, <1>7, <1>8, <1>9, <1>10 DEF TransfersInv

LEMMA WindowSteps ==
  ASSUME TransfersInv,
         (\E t \in Transfer : CancelJob(t)) \/ FinishProcess \/ ApproveClose \/ Close
  PROVE  TransfersInv' /\ GalleryKept
<1>1. UNCHANGED <<transfer, parts, folder>>
  BY DEF CancelJob, FinishProcess, ApproveClose, Close
<1>2. rows' \in [Transfer -> Row] /\ reports' \in Seq(Report)
  <2>1. CASE FinishProcess
    <3>1. reports # <<>> /\ reports \in Seq(Report) /\ rows \in [Transfer -> Row]
      BY <2>1 DEF FinishProcess, TransfersInv, TransfersTypeOK, Row
    <3>2. Head(reports) \in Report /\ Tail(reports) \in Seq(Report)
      BY <3>1, HeadTailProperties
    <3>3. PICK r \in Report :
            rows' = [rows EXCEPT ![r.id] = IF r.cancelled THEN "Cancelled"
                                           ELSE IF r.failed > 0 THEN "Failed" ELSE "Completed"]
      BY <2>1, <3>2 DEF FinishProcess
    <3>4. rows' \in [Transfer -> Row]
      BY <3>1, <3>3 DEF Row
    <3> QED
      BY <2>1, <3>2, <3>4 DEF FinishProcess
  <2>2. CASE ~FinishProcess
    BY <2>2 DEF CancelJob, ApproveClose, Close, TransfersInv, TransfersTypeOK, Row
  <2> QED
    BY <2>1, <2>2
<1>3. /\ flags' \in [Transfer -> Flag] /\ closing' \in {"no", "approved", "quit"}
      /\ \A s \in Transfer : flags'[s] # flags[s] => flags[s] # "none" /\ flags'[s] = "cancel"
      /\ closing' # "no" => \/ closing # "no"
                            \/ \A s \in Transfer : flags[s] # "none" => flags'[s] = "cancel"
  <2>1. flags \in [Transfer -> Flag] /\ closing \in {"no", "approved", "quit"}
    BY DEF TransfersInv, TransfersTypeOK, Flag
  <2>2. CASE \E t \in Transfer : CancelJob(t)
    BY <2>1, <2>2 DEF CancelJob, Flag
  <2>3. CASE FinishProcess
    BY <2>1, <2>3 DEF FinishProcess
  <2>4. CASE ApproveClose
    BY <2>1, <2>4 DEF ApproveClose, Flag
  <2>5. CASE Close
    BY <2>1, <2>5 DEF Close, HasActiveTasks
  <2> QED
    BY <2>2, <2>3, <2>4, <2>5
<1>4. TransfersTypeOK'
  BY <1>1, <1>2, <1>3 DEF TransfersInv, TransfersTypeOK, Flag, Row
<1>5. (CopyReserved /\ PlacingWhole /\ OutputsExist /\ ItemsLeft /\ PublishedWhole)'
  BY <1>1 DEF TransfersInv, CopyReserved, Candidate, PlacingWhole, OutputsExist, ItemsLeft,
              PublishedWhole, Copying
<1>6. Registered'
  <2> SUFFICES ASSUME NEW s \in Transfer, Working(s)'
               PROVE  flags'[s] # "none" /\ (closing' # "no" => flags'[s] = "cancel")
    BY DEF Registered
  <2>1. flags[s] # "none" /\ (closing # "no" => flags[s] = "cancel")
    BY <1>1 DEF TransfersInv, Registered, Working
  <2> QED
    BY <1>3, <2>1
<1>7. GalleryKept
  BY <1>1 DEF GalleryKept
<1> QED
  BY <1>4, <1>5, <1>6, <1>7 DEF TransfersInv

LEMMA TransfersStep == TransfersInv /\ [TransfersNext]_transferVars => TransfersInv' /\ GalleryKept
<1> SUFFICES ASSUME TransfersInv, [TransfersNext]_transferVars
             PROVE  TransfersInv' /\ GalleryKept
  OBVIOUS
<1>1. ASSUME NEW t \in Transfer, TransferStep(t)
      PROVE  TransfersInv' /\ GalleryKept
  <2>1. CASE \/ ClientFails(t) \/ ClientReady(t) \/ BeginGallery(t) \/ BeginImport(t)
             \/ ReceiveEnds(t) \/ Copied(t) \/ FinishJob(t) \/ UnregisterJob(t)
    BY <2>1, StageSteps, PlainlyKeeps
  <2>2. CASE ItemErrs(t) \/ ItemDone(t) \/ PlacingStops(t) \/ StagedReceived(t)
    BY <2>2, ItemSteps, PlainlyKeeps
  <2>3. CASE BeginExport(t) \/ NameTaken(t)
    BY <2>3, NameSteps, PlainlyKeeps
  <2>4. CASE CreateOutput(t) \/ Receive(t)
    BY <2>4, WriteSteps, PlainlyKeeps
  <2>5. CASE Place(t) \/ CopyChunk(t) \/ CopyFails(t)
    BY <2>5, GallerySteps
  <2> QED
    BY <1>1, <2>1, <2>2, <2>3, <2>4, <2>5 DEF TransferStep
<1>2. ASSUME NEW t \in Transfer, NEW kind \in Kind, NEW items \in 0 .. MaxItem[t][kind],
             StartTransfer(t, kind, items)
      PROVE  TransfersInv' /\ GalleryKept
  BY <1>2, StartSteps
<1>3. CASE (\E t \in Transfer : CancelJob(t)) \/ FinishProcess \/ ApproveClose \/ Close
  BY <1>3, WindowSteps
<1>4. CASE UNCHANGED transferVars
  BY <1>4 DEF transferVars, TransfersInv, TransfersTypeOK, CopyReserved, Candidate, PlacingWhole,
              OutputsExist, HasOutput, ItemsLeft, Registered, Working, PublishedWhole, Copying,
              GalleryKept
<1> QED
  BY <1>1, <1>2, <1>3, <1>4 DEF TransfersNext

LEMMA TransfersAlways == TransfersSpec => []TransfersInv
BY TransfersInitial, TransfersStep, PTL DEF TransfersSpec

-----------------------------------------------------------------------------
(* Every variable keeps its type.                                          *)
THEOREM TransfersTypes == TransfersSpec => []TransfersTypeOK
<1>1. TransfersInv => TransfersTypeOK
  BY DEF TransfersInv
<1> QED
  BY <1>1, TransfersAlways, PTL

(* What a gallery export puts into the folder is the whole file, unless    *)
(* the job that reserved the name is still copying it there.               *)
THEOREM PublishedIsWhole == TransfersSpec => []PublishedWhole
<1>1. TransfersInv => PublishedWhole
  BY DEF TransfersInv
<1> QED
  BY <1>1, TransfersAlways, PTL

(* No step of a gallery export, or of anything next to it, takes away or   *)
(* overwrites a file that has a gallery name.                              *)
THEOREM GalleryIsKept == TransfersSpec => GalleryKeeps
<1>1. TransfersInv /\ [TransfersNext]_transferVars =>
        [\A i \in 0 .. MaxIndex : LET file == folder[<<"dated", i>>] IN
           file # NoFile => folder'[<<"dated", i>>] = file \/ Copying(file.owner, i)]_transferVars
  BY TransfersStep DEF GalleryKept
<1> QED
  BY <1>1, TransfersAlways, PTL DEF TransfersSpec, GalleryKeeps

(* When the program quits, every job that still works was told to stop.    *)
THEOREM QuittingAsks == TransfersSpec => []QuitAsks
<1>1. TransfersInv => QuitAsks
  BY DEF TransfersInv, Registered, QuitAsks, Cancelled
<1> QED
  BY <1>1, TransfersAlways, PTL

-----------------------------------------------------------------------------
(* What a row that says "Completed" may rely on.  Every item of a job is   *)
(* still to do, a success or a failure; and of a gallery export without    *)
(* failures, the whole files in the folder are its successes, and the item *)
(* it has placed and not yet counted.                                      *)
TaskCounted(q) == q.ok + q.failed + q.items = q.total

Whole(t, files) == {i \in 0 .. MaxIndex : files[<<"dated", i>>] = [owner |-> t, got |-> MaxChunk]}

Placed(q) == IF q.stage = "done" \/ (q.stage = "copying" /\ q.got = MaxChunk) THEN 1 ELSE 0

WholeCounted(t, q, files) ==
  IF q.kind = "gallery" THEN q.failed = 0 => Cardinality(Whole(t, files)) = q.ok + Placed(q)
  ELSE Whole(t, files) = {}

Unstarted(q) == q.stage = "unused" => q.ok = 0 /\ q.failed = 0 /\ q.kind # "gallery"

Succeeded(q) == q.stage \in {"ending", "over"} /\ q.failed = 0 /\ q.items = 0

Truthful(r) == ~r.cancelled /\ r.failed = 0 => Succeeded(transfer[r.id])

TasksCounted ==
  \A t \in Transfer : TaskCounted(transfer[t]) /\ Unstarted(transfer[t])
                      /\ WholeCounted(t, transfer[t], folder)
ReportsTrue == \A n \in 1 .. Len(reports) : Truthful(reports[n])
RowsTrue == \A t \in Transfer : rows[t] = "Completed" => Succeeded(transfer[t])

CountInv == TasksCounted /\ ReportsTrue /\ RowsTrue

LEMMA WholeFinite ==
  ASSUME NEW t, NEW files PROVE IsFiniteSet(Whole(t, files)) /\ Cardinality(Whole(t, files)) \in Nat
<1>1. IsFiniteSet(0 .. MaxIndex)
  BY TransferAssumption, FS_Interval
<1>2. Whole(t, files) \in SUBSET (0 .. MaxIndex)
  BY DEF Whole
<1>3. IsFiniteSet(Whole(t, files))
  BY <1>1, <1>2, FS_Subset
<1> QED
  BY <1>3, FS_CardinalityType

LEMMA ReportsFacts ==
  ASSUME TransfersTypeOK
  PROVE  /\ reports \in Seq(Report) /\ Len(reports) \in Nat
         /\ \A n \in 1 .. Len(reports) : reports[n] \in Report /\ reports[n].id \in Transfer
<1>1. reports \in Seq(Report)
  BY DEF TransfersTypeOK
<1>2. Len(reports) \in Nat /\ \A n \in 1 .. Len(reports) : reports[n] \in Report
  BY <1>1, LenProperties, ElementOfSeq
<1> QED
  BY <1>1, <1>2 DEF Report

(* Task t takes a step of its own and reports nothing that is not so.      *)
LEMMA StepCounts ==
  ASSUME TransfersInv, TransfersTypeOK', CountInv, NEW t \in Transfer,
         \A s \in Transfer : s # t => transfer'[s] = transfer[s]
                                      /\ Whole(s, folder') = Whole(s, folder),
         transfer'[t].stage # "unused",
         TaskCounted(transfer'[t]), WholeCounted(t, transfer'[t], folder'),
         Succeeded(transfer[t]) => Succeeded(transfer'[t]),
         rows' = rows,
         \/ reports' = reports
         \/ \E r \in Report : /\ reports' = Append(reports, r) /\ r.id = t
                              /\ ~r.cancelled /\ r.failed = 0 => Succeeded(transfer'[t])
  PROVE  CountInv'
<1>1. TasksCounted'
  <2> SUFFICES ASSUME NEW s \in Transfer
               PROVE  /\ TaskCounted(transfer'[s]) /\ Unstarted(transfer'[s])
                      /\ WholeCounted(s, transfer'[s], folder')
    BY DEF TasksCounted
  <2>1. CASE s = t
    BY <2>1 DEF Unstarted
  <2>2. CASE s # t
    <3>1. transfer'[s] = transfer[s] /\ Whole(s, folder') = Whole(s, folder)
      BY <2>2
    <3>2. /\ TaskCounted(transfer[s]) /\ Unstarted(transfer[s])
          /\ WholeCounted(s, transfer[s], folder)
      BY DEF CountInv, TasksCounted
    <3> QED
      BY <3>1, <3>2 DEF WholeCounted
  <2> QED
    BY <2>1, <2>2
<1>2. \A s \in Transfer : Succeeded(transfer[s]) => Succeeded(transfer'[s])
  OBVIOUS
<1>3. RowsTrue'
  BY <1>2 DEF CountInv, RowsTrue
<1>4. TransfersTypeOK
  BY DEF TransfersInv
<1>5. ReportsTrue'
  <2>1. ASSUME NEW n \in 1 .. Len(reports), ~reports[n].cancelled, reports[n].failed = 0
        PROVE  Succeeded(transfer'[reports[n].id])
    <3>1. reports[n].id \in Transfer
      BY <1>4, ReportsFacts
    <3>2. Succeeded(transfer[reports[n].id])
      BY <2>1 DEF CountInv, ReportsTrue, Truthful
    <3> QED
      BY <1>2, <3>1, <3>2
  <2>2. CASE reports' = reports
    BY <2>1, <2>2 DEF ReportsTrue, Truthful
  <2>3. CASE reports' # reports
    <3>1. PICK r \in Report : /\ reports' = Append(reports, r) /\ r.id = t
                              /\ ~r.cancelled /\ r.failed = 0 => Succeeded(transfer'[t])
      BY <2>3
    <3>2. /\ Len(reports') = Len(reports) + 1 /\ Len(reports) \in Nat
          /\ \A n \in 1 .. Len(reports) : reports'[n] = reports[n]
          /\ reports'[Len(reports) + 1] = r
      BY <1>4, <3>1, ReportsFacts, AppendProperties
    <3>3. \A n \in 1 .. Len(reports') : n \in 1 .. Len(reports) \/ n = Len(reports) + 1
      BY <3>2
    <3> SUFFICES ASSUME NEW n \in 1 .. Len(reports'),
                        ~reports'[n].cancelled, reports'[n].failed = 0
                 PROVE  Succeeded(transfer'[reports'[n].id])
      BY DEF ReportsTrue, Truthful
    <3>4. CASE n \in 1 .. Len(reports)
      <4>1. reports'[n] = reports[n]
        BY <3>2, <3>4
      <4> QED
        BY <2>1, <3>4, <4>1
    <3>5. CASE n = Len(reports) + 1
      <4>1. reports'[n] = r
        BY <3>2, <3>5
      <4> QED
        BY <3>1, <4>1
    <3> QED
      BY <3>3, <3>4, <3>5
  <2> QED
    BY <2>2, <2>3
<1> QED
  BY <1>1, <1>3, <1>5 DEF CountInv

(* The gallery's files are as they were.                                   *)
DatedKept == \A i \in 0 .. MaxIndex : folder'[<<"dated", i>>] = folder[<<"dated", i>>]

LEMMA DatedKeptCounts ==
  ASSUME DatedKept PROVE \A s \in Transfer : Whole(s, folder') = Whole(s, folder)
BY DEF DatedKept, Whole

(* A step between two stages, with or without a report.                    *)
SameCounts(p, q) ==
  /\ q.kind = p.kind /\ q.total = p.total /\ q.items = p.items
  /\ q.ok = p.ok /\ q.failed = p.failed

LEMMA MoveCounts ==
  ASSUME TransfersInv, TransfersTypeOK', CountInv, NEW t \in Transfer, DatedKept,
         \A s \in Transfer : s # t => transfer'[s] = transfer[s],
         SameCounts(transfer[t], transfer'[t]), transfer'[t].stage # "unused",
         transfer[t].kind = "gallery" => Placed(transfer'[t]) = Placed(transfer[t]),
         transfer[t].stage \in {"ending", "over"} => transfer'[t].stage \in {"ending", "over"},
         rows' = rows,
         \/ reports' = reports
         \/ \E r \in Report : /\ reports' = Append(reports, r) /\ r.id = t
                              /\ ~r.cancelled /\ r.failed = 0 => Succeeded(transfer'[t])
  PROVE  CountInv'
<1>1. TaskCounted(transfer[t]) /\ WholeCounted(t, transfer[t], folder)
  BY DEF CountInv, TasksCounted
<1>2. TaskCounted(transfer'[t])
  BY <1>1 DEF TaskCounted, SameCounts
<1>3. WholeCounted(t, transfer'[t], folder')
  <2>1. Whole(t, folder') = Whole(t, folder)
    BY DatedKeptCounts
  <2> QED
    BY <1>1, <2>1 DEF WholeCounted, SameCounts
<1>4. Succeeded(transfer[t]) => Succeeded(transfer'[t])
  BY DEF Succeeded, SameCounts
<1> QED
  BY <1>2, <1>3, <1>4, DatedKeptCounts, StepCounts

(* An item's end.                                                          *)
LEMMA ItemCounts ==
  ASSUME TransfersInv, TransfersTypeOK', CountInv, NEW t \in Transfer, DatedKept,
         transfer[t].items > 0, rows' = rows, reports' = reports,
         \/ ItemFails(t)
         \/ ItemSucceeds(t) /\ transfer[t].stage = "done"
  PROVE  CountInv'
<1>1. transfer \in [Transfer -> Task] /\ transfer[t] \in Task
  BY DEF TransfersInv, TransfersTypeOK
<1>2. \A s \in Transfer : s # t => transfer'[s] = transfer[s]
  BY <1>1 DEF ItemFails, ItemSucceeds
<1>3. /\ transfer'[t].kind = transfer[t].kind /\ transfer'[t].total = transfer[t].total
      /\ transfer'[t].items = transfer[t].items - 1 /\ transfer'[t].stage = "next"
  BY <1>1 DEF ItemFails, ItemSucceeds, Task
<1>4. /\ transfer[t].ok \in Nat /\ transfer[t].failed \in Nat /\ transfer[t].items \in Nat
      /\ transfer[t].ok + transfer[t].failed + transfer[t].items = transfer[t].total
      /\ WholeCounted(t, transfer[t], folder)
  BY <1>1 DEF Task, CountInv, TasksCounted, TaskCounted
<1>5. ~Succeeded(transfer[t])
  BY <1>4 DEF Succeeded
<1>6. Whole(t, folder') = Whole(t, folder)
  BY DatedKeptCounts
<1>7. CASE ItemFails(t)
  <2>1. transfer'[t].ok = transfer[t].ok /\ transfer'[t].failed = transfer[t].failed + 1
    BY <1>1, <1>7 DEF ItemFails, Task
  <2>2. TaskCounted(transfer'[t])
    BY <1>3, <1>4, <2>1 DEF TaskCounted
  <2>3. transfer'[t].failed # 0
    BY <1>4, <2>1
  <2>4. WholeCounted(t, transfer'[t], folder')
    BY <1>3, <1>4, <1>6, <2>3 DEF WholeCounted
  <2> QED
    BY <1>2, <1>3, <1>5, <2>2, <2>4, DatedKeptCounts, StepCounts
<1>8. CASE ItemSucceeds(t) /\ transfer[t].stage = "done"
  <2>1. transfer'[t].ok = transfer[t].ok + 1 /\ transfer'[t].failed = transfer[t].failed
    BY <1>1, <1>8 DEF ItemSucceeds, Task
  <2>2. TaskCounted(transfer'[t])
    BY <1>3, <1>4, <2>1 DEF TaskCounted
  <2>3. Placed(transfer[t]) = 1 /\ Placed(transfer'[t]) = 0
    BY <1>3, <1>8 DEF Placed
  <2>4. transfer'[t].ok + 0 = transfer[t].ok + 1
    BY <1>4, <2>1
  <2>5. WholeCounted(t, transfer'[t], folder')
    BY <1>3, <1>4, <1>6, <2>1, <2>3, <2>4 DEF WholeCounted
  <2> QED
    BY <1>2, <1>3, <1>5, <2>2, <2>5, DatedKeptCounts, StepCounts
<1> QED
  BY <1>7, <1>8

LEMMA PlainStepsCount ==
  ASSUME TransfersInv, TransfersTypeOK', CountInv, NEW t \in Transfer,
         \/ ClientFails(t) \/ ClientReady(t) \/ BeginExport(t) \/ BeginGallery(t) \/ BeginImport(t)
         \/ CreateOutput(t) \/ Receive(t) \/ ReceiveEnds(t) \/ NameTaken(t) \/ Copied(t)
         \/ FinishJob(t) \/ UnregisterJob(t)
  PROVE  CountInv'
<1>1. /\ transfer \in [Transfer -> Task] /\ transfer[t] \in Task
      /\ folder \in [Name -> File \cup {NoFile}]
  BY DEF TransfersInv, TransfersTypeOK
<1>2. DatedKept
  <2>1. CASE folder' = folder
    BY <2>1 DEF DatedKept
  <2>2. CASE CreateOutput(t) \/ Receive(t)
    <3>1. \A n \in Name : n[1] # "plain" => folder'[n] = folder[n]
      BY <1>1, <2>2 DEF CreateOutput, Receive
    <3> QED
      BY <3>1, NameFacts DEF DatedKept
  <2> QED
    BY <2>1, <2>2 DEF ClientFails, ClientReady, BeginExport, BeginGallery, BeginImport,
                      ReceiveEnds, NameTaken, Copied, FinishJob, UnregisterJob
<1>3. rows' = rows
  BY DEF ClientFails, ClientReady, BeginExport, BeginGallery, BeginImport, CreateOutput, Receive,
         ReceiveEnds, NameTaken, Copied, FinishJob, UnregisterJob
<1>4. CASE BeginExport(t) \/ BeginGallery(t) \/ BeginImport(t) \/ CreateOutput(t) \/ Receive(t)
           \/ ReceiveEnds(t) \/ NameTaken(t) \/ Copied(t)
  <2>1. reports' = reports
    BY <1>4 DEF BeginExport, BeginGallery, BeginImport, CreateOutput, Receive, ReceiveEnds,
                NameTaken, Copied
  <2>2. /\ \A s \in Transfer : s # t => transfer'[s] = transfer[s]
        /\ SameCounts(transfer[t], transfer'[t])
    BY <1>1, <1>4 DEF BeginExport, BeginGallery, BeginImport, CreateOutput, Receive, ReceiveEnds,
                      NameTaken, Copied, SetTransfer, SameCounts, Task
  <2>3. /\ transfer'[t].stage # "unused"
        /\ transfer[t].stage \notin {"ending", "over"}
        /\ transfer[t].kind = "gallery" => Placed(transfer'[t]) = Placed(transfer[t])
    <3>1. CASE BeginExport(t) \/ BeginGallery(t) \/ BeginImport(t) \/ CreateOutput(t)
               \/ Receive(t) \/ NameTaken(t)
      <4>1. /\ transfer[t].stage \in {"next", "chosen", "receiving", "placing"}
            /\ transfer'[t].stage \in {"chosen", "receiving", "placing"}
        BY <1>1, <3>1 DEF BeginExport, BeginGallery, BeginImport, CreateOutput, Receive, NameTaken,
                          At, SetTransfer, Task
      <4> QED
        BY <4>1 DEF Placed
    <3>2. CASE ReceiveEnds(t)
      <4>1. /\ transfer[t].stage = "receiving"
            /\ transfer'[t].stage = IF transfer[t].kind = "gallery" THEN "received" ELSE "done"
        BY <1>1, <3>2 DEF ReceiveEnds, SetTransfer, Task
      <4> QED
        BY <4>1 DEF Placed
    <3>3. CASE Copied(t)
      <4>1. /\ transfer[t].stage = "copying" /\ transfer[t].got = MaxChunk
            /\ transfer'[t].stage = "done"
        BY <1>1, <3>3 DEF Copied, At, SetTransfer, Task
      <4> QED
        BY <4>1 DEF Placed
    <3> QED
      BY <1>4, <3>1, <3>2, <3>3
  <2> QED
    BY <1>2, <1>3, <2>1, <2>2, <2>3, MoveCounts
<1>5. CASE ClientFails(t) \/ ClientReady(t) \/ FinishJob(t) \/ UnregisterJob(t)
  <2>1. /\ \A s \in Transfer : s # t => transfer'[s] = transfer[s]
        /\ SameCounts(transfer[t], transfer'[t])
        /\ transfer[t].stage \in {"connecting", "next", "ending"}
        /\ transfer'[t].stage \in {"next", "ending", "over"}
        /\ transfer[t].stage = "ending" => transfer'[t].stage = "over"
    <3>1. PICK stage \in {"next", "ending", "over"} :
            /\ SetTransfer(t, stage)
            /\ transfer[t].stage \in {"connecting", "next", "ending"}
            /\ transfer[t].stage = "ending" => stage = "over"
      BY <1>5 DEF ClientFails, ClientReady, FinishJob, UnregisterJob
    <3>2. /\ \A s \in Transfer : s # t => transfer'[s] = transfer[s]
          /\ SameCounts(transfer[t], transfer'[t]) /\ transfer'[t].stage = stage
      BY <1>1, <3>1 DEF SetTransfer, SameCounts, Task
    <3> QED
      BY <3>1, <3>2
  <2>2. Placed(transfer'[t]) = Placed(transfer[t])
    BY <2>1 DEF Placed
  <2>3. \/ reports' = reports
        \/ \E r \in Report : /\ reports' = Append(reports, r) /\ r.id = t
                             /\ ~r.cancelled /\ r.failed = 0 => Succeeded(transfer'[t])
    <3>1. CASE ClientReady(t) \/ UnregisterJob(t)
      BY <3>1 DEF ClientReady, UnregisterJob
    <3>2. ASSUME NEW c \in BOOLEAN, Reported(t, c), c \/ transfer[t].items = 0,
                 transfer'[t].stage = "ending"
          PROVE  \E r \in Report : /\ reports' = Append(reports, r) /\ r.id = t
                                   /\ ~r.cancelled /\ r.failed = 0 => Succeeded(transfer'[t])
      <4> DEFINE r == [id |-> t, cancelled |-> c, failed |-> transfer[t].failed]
      <4>1. r \in Report /\ r.id = t /\ r.cancelled = c /\ r.failed = transfer[t].failed
        BY <1>1 DEF Report, Task
      <4>2. reports' = Append(reports, r)
        BY <3>2 DEF Reported
      <4>3. ~c /\ transfer[t].failed = 0 => Succeeded(transfer'[t])
        BY <2>1, <3>2 DEF Succeeded, SameCounts
      <4> HIDE DEF r
      <4> QED
        BY <4>1, <4>2, <4>3
    <3>3. CASE ClientFails(t)
      <4>1. Reported(t, TRUE) /\ transfer'[t].stage = "ending"
        BY <1>1, <3>3 DEF ClientFails, SetTransfer, Task
      <4> QED
        BY <3>2, <4>1
    <3>4. CASE FinishJob(t)
      <4>1. transfer'[t].stage = "ending"
        BY <1>1, <3>4 DEF FinishJob, SetTransfer, Task
      <4>2. CASE Reported(t, TRUE)
        BY <3>2, <4>1, <4>2
      <4>3. CASE transfer[t].items = 0 /\ Reported(t, Cancelled(t) /\ transfer[t].kind # "import")
        <5>1. (Cancelled(t) /\ transfer[t].kind # "import") \in BOOLEAN
          BY DEF Cancelled
        <5> QED
          BY <3>2, <4>1, <4>3, <5>1
      <4> QED
        BY <3>4, <4>2, <4>3 DEF FinishJob
    <3> QED
      BY <1>5, <3>1, <3>3, <3>4
  <2> QED
    BY <1>2, <1>3, <2>1, <2>2, <2>3, MoveCounts
<1> QED
  BY <1>4, <1>5

(* What one name of the gallery holds, for the jobs it counts for.         *)
LEMMA OneName ==
  ASSUME TransfersTypeOK, NEW t \in Transfer, NEW k \in 0 .. MaxIndex, NEW f,
         folder' = [folder EXCEPT ![<<"dated", k>>] = f],
         folder[<<"dated", k>>] = NoFile \/ folder[<<"dated", k>>].owner = t,
         f = NoFile \/ f.owner = t
  PROVE  /\ \A s \in Transfer : s # t => Whole(s, folder') = Whole(s, folder)
         /\ f = [owner |-> t, got |-> MaxChunk] => Whole(t, folder') = Whole(t, folder) \cup {k}
         /\ f # [owner |-> t, got |-> MaxChunk] => Whole(t, folder') = Whole(t, folder) \ {k}
<1>1. /\ folder'[<<"dated", k>>] = f
      /\ \A i \in 0 .. MaxIndex : i # k => folder'[<<"dated", i>>] = folder[<<"dated", i>>]
  <2>1. folder \in [Name -> File \cup {NoFile}]
    BY DEF TransfersTypeOK
  <2> QED
    BY <2>1, NameFacts
<1>2. ASSUME NEW s \in Transfer, s # t PROVE Whole(s, folder') = Whole(s, folder)
  <2>1. NoFile.owner # s
    BY TransferAssumption DEF NoFile
  <2>2. /\ f # [owner |-> s, got |-> MaxChunk]
        /\ folder[<<"dated", k>>] # [owner |-> s, got |-> MaxChunk]
    BY <1>2, <2>1
  <2> QED
    BY <1>1, <2>2 DEF Whole
<1>3. ASSUME f = [owner |-> t, got |-> MaxChunk]
      PROVE  Whole(t, folder') = Whole(t, folder) \cup {k}
  BY <1>1, <1>3 DEF Whole
<1>4. ASSUME f # [owner |-> t, got |-> MaxChunk]
      PROVE  Whole(t, folder') = Whole(t, folder) \ {k}
  BY <1>1, <1>4 DEF Whole
<1> QED
  BY <1>2, <1>3, <1>4

LEMMA GalleryStepsCount ==
  ASSUME TransfersInv, TransfersTypeOK', CountInv, NEW t \in Transfer,
         Place(t) \/ CopyChunk(t) \/ CopyFails(t)
  PROVE  CountInv'
<1> DEFINE k == transfer[t].index
           whole == Whole(t, folder)
<1>1. /\ TransfersTypeOK /\ transfer \in [Transfer -> Task] /\ transfer[t] \in Task
      /\ transfer[t].got \in 0 .. MaxChunk
  BY DEF TransfersInv, TransfersTypeOK, Task
<1>2. /\ transfer[t].kind = "gallery" /\ transfer[t].stage \in {"placing", "copying"}
      /\ rows' = rows /\ reports' = reports
  BY DEF Place, CopyChunk, CopyFails, At
<1>3. transfer[t].stage = "copying" => folder[<<"dated", k>>] = [owner |-> t, got |-> transfer[t].got]
  BY DEF TransfersInv, CopyReserved, Candidate
<1>4. k \in 0 .. MaxIndex
  <2>1. CASE Place(t)
    BY <1>1, <2>1, CountFacts DEF Place, Task
  <2>2. CASE transfer[t].stage = "copying"
    BY <2>2 DEF TransfersInv, CopyReserved
  <2> QED
    BY <2>1, <2>2 DEF CopyChunk, CopyFails, At
<1>5. /\ TaskCounted(transfer[t]) /\ ~Succeeded(transfer[t])
      /\ transfer[t].failed = 0 => Cardinality(whole) = transfer[t].ok + Placed(transfer[t])
      /\ transfer[t].ok \in Nat /\ transfer[t].failed \in Nat
  BY <1>1, <1>2 DEF CountInv, TasksCounted, WholeCounted, Succeeded, Task
<1>6. IsFiniteSet(whole) /\ Cardinality(whole) \in Nat
  BY WholeFinite
<1>7. CASE Place(t)
  <2>1. folder[<<"dated", k>>] = NoFile /\ transfer[t].stage = "placing"
    BY <1>7 DEF Place, Candidate, At
  <2>2. transfer[t].got = MaxChunk
    BY <2>1 DEF TransfersInv, PlacingWhole
  <2>3. k \notin whole
    BY <1>4, <2>1, FileFacts, CountFacts DEF Whole
  <2>4. Placed(transfer[t]) = 0
    BY <2>1 DEF Placed
  <2>5. CASE /\ folder' = [folder EXCEPT ![<<"dated", k>>] = [owner |-> t, got |-> transfer[t].got]]
             /\ SetTransfer(t, "done")
    <3> DEFINE f == [owner |-> t, got |-> transfer[t].got]
    <3>a. f.owner = t /\ f = [owner |-> t, got |-> MaxChunk]
      BY <2>2
    <3>b. folder' = [folder EXCEPT ![<<"dated", k>>] = f]
      BY <2>5
    <3> HIDE DEF f
    <3>1. /\ \A s \in Transfer : s # t => Whole(s, folder') = Whole(s, folder)
          /\ Whole(t, folder') = whole \cup {k}
      BY <1>1, <1>4, <2>1, <3>a, <3>b, OneName
    <3>2. /\ \A s \in Transfer : s # t => transfer'[s] = transfer[s]
          /\ SameCounts(transfer[t], transfer'[t]) /\ transfer'[t].stage = "done"
      BY <1>1, <2>5 DEF SetTransfer, SameCounts, Task
    <3>3. Cardinality(Whole(t, folder')) = Cardinality(whole) + 1
      BY <1>6, <2>3, <3>1, FS_AddElement
    <3>4. Placed(transfer'[t]) = 1 /\ transfer[t].ok + 0 + 1 = transfer[t].ok + 1
      BY <1>5, <3>2 DEF Placed
    <3>5. WholeCounted(t, transfer'[t], folder')
      BY <1>2, <1>5, <2>4, <3>2, <3>3, <3>4 DEF WholeCounted, SameCounts
    <3>6. TaskCounted(transfer'[t])
      BY <1>5, <3>2 DEF TaskCounted, SameCounts
    <3> QED
      BY <1>2, <1>5, <3>1, <3>2, <3>5, <3>6, StepCounts
  <2>6. CASE /\ folder' = [folder EXCEPT ![<<"dated", k>>] = [owner |-> t, got |-> 0]]
             /\ transfer' = [transfer EXCEPT ![t].stage = "copying", ![t].got = 0]
    <3> DEFINE f == [owner |-> t, got |-> 0]
    <3>1. f.owner = t /\ f # [owner |-> t, got |-> MaxChunk]
      BY CountFacts
    <3>2. folder' = [folder EXCEPT ![<<"dated", k>>] = f]
      BY <2>6
    <3> HIDE DEF f
    <3>3. /\ \A s \in Transfer : s # t => Whole(s, folder') = Whole(s, folder)
          /\ Whole(t, folder') = whole \ {k}
      BY <1>1, <1>4, <2>1, <3>1, <3>2, OneName
    <3>4. Whole(t, folder') = whole
      BY <2>3, <3>3
    <3>5. /\ \A s \in Transfer : s # t => transfer'[s] = transfer[s]
          /\ SameCounts(transfer[t], transfer'[t])
          /\ transfer'[t].stage = "copying" /\ transfer'[t].got = 0
      BY <1>1, <2>6 DEF SameCounts, Task
    <3>6. Placed(transfer'[t]) = 0
      BY <3>5, CountFacts DEF Placed
    <3>7. WholeCounted(t, transfer'[t], folder')
      BY <1>2, <1>5, <2>4, <3>4, <3>5, <3>6 DEF WholeCounted, SameCounts
    <3>8. TaskCounted(transfer'[t])
      BY <1>5, <3>5 DEF TaskCounted, SameCounts
    <3> QED
      BY <1>2, <1>5, <3>3, <3>5, <3>7, <3>8, StepCounts
  <2> QED
    BY <1>7, <2>5, <2>6 DEF Place, Candidate
<1>8. CASE CopyChunk(t)
  <2> DEFINE got == transfer[t].got + 1
             f == [owner |-> t, got |-> got]
  <2>1. /\ transfer[t].stage = "copying" /\ got <= MaxChunk
        /\ transfer' = [transfer EXCEPT ![t].got = got]
        /\ folder' = [folder EXCEPT ![<<"dated", k>>].got = got]
    BY <1>8 DEF CopyChunk, At, Candidate
  <2>2. got \in Nat /\ transfer[t].got # MaxChunk
    BY <1>1, <2>1, CountFacts
  <2>3. k \notin whole
    BY <1>3, <2>1, <2>2 DEF Whole
  <2>4. folder' = [folder EXCEPT ![<<"dated", k>>] = f]
    <3>1. [folder[<<"dated", k>>] EXCEPT !.got = got] = f
      BY <1>3, <2>1
    <3> QED
      BY <2>1, <3>1
  <2>5. /\ \A s \in Transfer : s # t => transfer'[s] = transfer[s]
        /\ SameCounts(transfer[t], transfer'[t])
        /\ transfer'[t].stage = "copying" /\ transfer'[t].got = got
    BY <1>1, <2>1 DEF SameCounts, Task
  <2>6. f.owner = t /\ (f = [owner |-> t, got |-> MaxChunk] <=> got = MaxChunk)
    OBVIOUS
  <2>7. folder[<<"dated", k>>].owner = t
    BY <1>3, <2>1
  <2> HIDE DEF f
  <2>8. /\ \A s \in Transfer : s # t => Whole(s, folder') = Whole(s, folder)
        /\ got = MaxChunk => Whole(t, folder') = whole \cup {k}
        /\ got # MaxChunk => Whole(t, folder') = whole \ {k}
    BY <1>1, <1>4, <2>4, <2>6, <2>7, OneName
  <2> HIDE DEF got
  <2>9. Placed(transfer[t]) = 0 /\ Placed(transfer'[t]) = IF got = MaxChunk THEN 1 ELSE 0
    BY <2>1, <2>2, <2>5 DEF Placed
  <2>10. WholeCounted(t, transfer'[t], folder')
    <3>1. CASE got = MaxChunk
      <4>1. Cardinality(Whole(t, folder')) = Cardinality(whole) + 1
        BY <1>6, <2>3, <2>8, <3>1, FS_AddElement
      <4>2. transfer[t].ok + 0 + 1 = transfer[t].ok + 1
        BY <1>5
      <4> QED
        BY <1>2, <1>5, <2>5, <2>9, <3>1, <4>1, <4>2 DEF WholeCounted, SameCounts
    <3>2. CASE got # MaxChunk
      <4>1. Whole(t, folder') = whole
        BY <2>3, <2>8, <3>2
      <4> QED
        BY <1>2, <1>5, <2>5, <2>9, <3>2, <4>1 DEF WholeCounted, SameCounts
    <3> QED
      BY <3>1, <3>2
  <2>11. TaskCounted(transfer'[t])
    BY <1>5, <2>5 DEF TaskCounted, SameCounts
  <2> QED
    BY <1>2, <1>5, <2>5, <2>8, <2>10, <2>11, StepCounts
<1>9. CASE CopyFails(t)
  <2>1. /\ transfer[t].stage = "copying" /\ ItemFails(t)
        /\ folder' = [folder EXCEPT ![<<"dated", k>>] = NoFile]
    BY <1>9 DEF CopyFails, At, Candidate
  <2>2. folder[<<"dated", k>>].owner = t
    BY <1>3, <2>1
  <2>3. \A s \in Transfer : s # t => Whole(s, folder') = Whole(s, folder)
    BY <1>1, <1>4, <2>1, <2>2, OneName
  <2>4. /\ \A s \in Transfer : s # t => transfer'[s] = transfer[s]
        /\ transfer'[t].kind = transfer[t].kind /\ transfer'[t].total = transfer[t].total
        /\ transfer'[t].ok = transfer[t].ok /\ transfer'[t].stage = "next"
    BY <1>1, <2>1 DEF ItemFails, Task
  <2>5. /\ transfer'[t].failed = transfer[t].failed + 1
        /\ transfer'[t].items = transfer[t].items - 1
    BY <1>1, <2>1 DEF ItemFails, Task
  <2>6. transfer[t].items \in Nat
    BY <1>1 DEF Task
  <2>7. TaskCounted(transfer'[t])
    BY <1>5, <2>4, <2>5, <2>6 DEF TaskCounted
  <2>8. transfer'[t].failed # 0
    BY <1>5, <2>5
  <2>9. WholeCounted(t, transfer'[t], folder')
    BY <1>2, <2>4, <2>8 DEF WholeCounted
  <2> QED
    BY <1>2, <1>5, <2>3, <2>4, <2>7, <2>9, StepCounts
<1> QED
  BY <1>7, <1>8, <1>9

LEMMA ItemStepsCount ==
  ASSUME TransfersInv, TransfersTypeOK', CountInv, NEW t \in Transfer,
         ItemErrs(t) \/ ItemDone(t) \/ PlacingStops(t) \/ StagedReceived(t)
  PROVE  CountInv'
<1>1. UNCHANGED <<folder, reports, rows>>
  BY DEF ItemErrs, ItemDone, PlacingStops, StagedReceived
<1>2. DatedKept
  BY <1>1 DEF DatedKept
<1>3. transfer \in [Transfer -> Task] /\ transfer[t] \in Task
  BY DEF TransfersInv, TransfersTypeOK
<1>4. transfer[t].items > 0
  <2>1. \/ transfer[t].stage = "next" /\ HasNext(t)
        \/ transfer[t].stage \in {"chosen", "receiving", "received", "placing", "done"}
    BY DEF ItemErrs, ItemDone, PlacingStops, StagedReceived, At
  <2> QED
    BY <2>1 DEF HasNext, TransfersInv, ItemsLeft, ItemStage
<1>5. CASE ItemFails(t) \/ (ItemSucceeds(t) /\ transfer[t].stage = "done")
  BY <1>1, <1>2, <1>4, <1>5, ItemCounts
<1>6. CASE transfer[t].stage = "received" /\ SetTransfer(t, "placing")
  <2>1. /\ \A s \in Transfer : s # t => transfer'[s] = transfer[s]
        /\ SameCounts(transfer[t], transfer'[t]) /\ transfer'[t].stage = "placing"
    BY <1>3, <1>6 DEF SetTransfer, SameCounts, Task
  <2>2. Placed(transfer'[t]) = Placed(transfer[t])
    BY <1>6, <2>1 DEF Placed
  <2> QED
    BY <1>1, <1>2, <1>6, <2>1, <2>2, MoveCounts
<1> QED
  BY <1>5, <1>6 DEF ItemErrs, ItemDone, PlacingStops, StagedReceived, At

(* A job starts with nothing counted.                                      *)
LEMMA StartCounts ==
  ASSUME TransfersInv, CountInv,
         NEW t \in Transfer, NEW kind \in Kind, NEW items \in 0 .. MaxItem[t][kind],
         StartTransfer(t, kind, items)
  PROVE  CountInv'
<1>1. transfer \in [Transfer -> Task] /\ transfer[t] \in Task /\ items \in Nat
  BY TransferAssumption DEF TransfersInv, TransfersTypeOK
<1>2. /\ \A s \in Transfer : s # t => transfer'[s] = transfer[s]
      /\ transfer'[t].kind = kind /\ transfer'[t].stage = "connecting"
      /\ transfer'[t].total = items /\ transfer'[t].items = items
      /\ transfer'[t].ok = transfer[t].ok /\ transfer'[t].failed = transfer[t].failed
  BY <1>1 DEF StartTransfer, Task
<1>3. /\ transfer[t].stage = "unused" /\ rows' = [rows EXCEPT ![t] = "Running"]
      /\ UNCHANGED <<folder, reports>>
  BY DEF StartTransfer
<1>4. transfer[t].ok = 0 /\ transfer[t].failed = 0 /\ Whole(t, folder) = {}
  BY <1>3 DEF CountInv, TasksCounted, Unstarted, WholeCounted
<1>5. TaskCounted(transfer'[t])
  BY <1>1, <1>2, <1>4 DEF TaskCounted
<1>6. WholeCounted(t, transfer'[t], folder)
  <2>1. Placed(transfer'[t]) = 0
    BY <1>2 DEF Placed
  <2>2. Cardinality(Whole(t, folder)) = 0
    BY <1>4, FS_EmptySet
  <2> QED
    BY <1>2, <1>4, <2>1, <2>2 DEF WholeCounted
<1>7. TasksCounted'
  BY <1>2, <1>3, <1>5, <1>6 DEF CountInv, TasksCounted, Unstarted
<1>8. \A s \in Transfer : Succeeded(transfer[s]) => Succeeded(transfer'[s])
  BY <1>2, <1>3 DEF Succeeded
<1>9. ReportsTrue'
  <2>1. \A n \in 1 .. Len(reports) : reports[n].id \in Transfer
    BY ReportsFacts DEF TransfersInv
  <2> QED
    BY <1>3, <1>8, <2>1 DEF CountInv, ReportsTrue, Truthful
<1>10. RowsTrue'
  <2>1. \A s \in Transfer : rows'[s] = "Completed" => rows[s] = "Completed"
    BY <1>3 DEF TransfersInv, TransfersTypeOK
  <2> QED
    BY <1>8, <2>1 DEF CountInv, RowsTrue
<1> QED
  BY <1>7, <1>9, <1>10 DEF CountInv

(* The status window believes the report.                                  *)
LEMMA WindowCounts ==
  ASSUME TransfersInv, CountInv,
         (\E t \in Transfer : CancelJob(t)) \/ FinishProcess \/ ApproveClose \/ Close
  PROVE  CountInv'
<1>1. UNCHANGED <<transfer, folder>>
  BY DEF CancelJob, FinishProcess, ApproveClose, Close
<1>2. TasksCounted'
  BY <1>1 DEF CountInv, TasksCounted
<1>3. CASE ~FinishProcess
  <2>1. UNCHANGED <<reports, rows>>
    BY <1>3 DEF CancelJob, ApproveClose, Close
  <2> QED
    BY <1>1, <1>2, <2>1 DEF CountInv, ReportsTrue, Truthful, RowsTrue
<1>4. CASE FinishProcess
  <2> DEFINE r == Head(reports)
  <2>1. /\ reports # <<>> /\ reports' = Tail(reports)
        /\ rows' = [rows EXCEPT ![r.id] = IF r.cancelled THEN "Cancelled"
                                          ELSE IF r.failed > 0 THEN "Failed" ELSE "Completed"]
    BY <1>4 DEF FinishProcess
  <2>2. /\ reports \in Seq(Report) /\ Len(reports) \in Nat
        /\ \A n \in 1 .. Len(reports) : reports[n] \in Report
    BY ReportsFacts DEF TransfersInv
  <2>3. /\ Len(reports') = Len(reports) - 1
        /\ \A n \in 1 .. Len(reports') : reports'[n] = reports[n + 1]
    BY <2>1, <2>2, HeadTailProperties
  <2>4. \A n \in 1 .. Len(reports') : n + 1 \in 1 .. Len(reports)
    BY <2>2, <2>3
  <2>5. ReportsTrue'
    BY <1>1, <2>3, <2>4 DEF CountInv, ReportsTrue, Truthful
  <2>6. r = reports[1] /\ 1 \in 1 .. Len(reports)
    <3>1. Len(reports) \in Nat \ {0}
      BY <2>1, <2>2, EmptySeq
    <3> QED
      BY <2>2, <3>1
  <2> HIDE DEF r
  <2>7. Truthful(r) /\ r \in Report
    BY <2>2, <2>6 DEF CountInv, ReportsTrue
  <2>8. r.id \in Transfer /\ r.failed \in Nat
    BY <2>7 DEF Report
  <2>9. /\ \A s \in Transfer : s # r.id => rows'[s] = rows[s]
        /\ rows'[r.id] = "Completed" => ~r.cancelled /\ ~(r.failed > 0)
    BY <2>1, <2>8 DEF TransfersInv, TransfersTypeOK
  <2>10. rows'[r.id] = "Completed" => Succeeded(transfer[r.id])
    BY <2>7, <2>8, <2>9 DEF Truthful
  <2>11. RowsTrue'
    BY <1>1, <2>9, <2>10 DEF CountInv, RowsTrue
  <2> QED
    BY <1>2, <2>5, <2>11 DEF CountInv
<1> QED
  BY <1>3, <1>4

LEMMA CountsInitially == TransfersInit => CountInv
<1> SUFFICES ASSUME TransfersInit PROVE CountInv
  OBVIOUS
<1>1. /\ \A t \in Transfer : rows[t] = "none"
      /\ reports = <<>> /\ Len(reports) = 0
      /\ \A t \in Transfer : transfer[t] = [kind |-> "export", stage |-> "unused", total |-> 0,
           items |-> 0, index |-> 0, got |-> 0, ok |-> 0, failed |-> 0]
  BY DEF TransfersInit
<1>2. \A t \in Transfer : TaskCounted(transfer[t]) /\ Unstarted(transfer[t])
  BY <1>1 DEF TaskCounted, Unstarted
<1>3. \A t \in Transfer : Whole(t, folder) = {}
  <2> SUFFICES ASSUME NEW t \in Transfer, NEW i \in 0 .. MaxIndex
               PROVE  folder[<<"dated", i>>] # [owner |-> t, got |-> MaxChunk]
    BY DEF Whole
  <2>1. PICK taken \in 0 .. MaxIndex + 1 :
          folder = [n \in Name |-> IF n[2] < taken THEN [owner |-> "user", got |-> MaxChunk]
                                   ELSE NoFile]
    BY DEF TransfersInit
  <2>2. <<"dated", i>> \in Name /\ <<"dated", i>>[2] = i
    BY NameFacts
  <2>3. folder[<<"dated", i>>] = IF i < taken THEN [owner |-> "user", got |-> MaxChunk] ELSE NoFile
    BY <2>1, <2>2
  <2>4. folder[<<"dated", i>>].owner = "user" \/ folder[<<"dated", i>>].owner = "nobody"
    <3>1. CASE i < taken
      <4>1. folder[<<"dated", i>>] = [owner |-> "user", got |-> MaxChunk]
        BY <2>3, <3>1
      <4> QED
        BY <4>1
    <3>2. CASE ~(i < taken)
      <4>1. folder[<<"dated", i>>] = NoFile
        BY <2>3, <3>2
      <4> QED
        BY <4>1, FileFacts
    <3> QED
      BY <3>1, <3>2
  <2> QED
    BY <2>4, TransferAssumption
<1>4. TasksCounted
  BY <1>1, <1>2, <1>3 DEF TasksCounted, WholeCounted
<1>5. ReportsTrue /\ RowsTrue
  BY <1>1 DEF ReportsTrue, RowsTrue
<1> QED
  BY <1>4, <1>5 DEF CountInv

LEMMA CountStep == TransfersInv /\ CountInv /\ [TransfersNext]_transferVars => CountInv'
<1> SUFFICES ASSUME TransfersInv, CountInv, [TransfersNext]_transferVars PROVE CountInv'
  OBVIOUS
<1>1. TransfersTypeOK'
  BY TransfersStep DEF TransfersInv
<1>2. ASSUME NEW t \in Transfer, TransferStep(t) PROVE CountInv'
  BY <1>1, <1>2, PlainStepsCount, ItemStepsCount, GalleryStepsCount DEF TransferStep
<1>3. ASSUME NEW t \in Transfer, NEW kind \in Kind, NEW items \in 0 .. MaxItem[t][kind],
             StartTransfer(t, kind, items)
      PROVE  CountInv'
  BY <1>3, StartCounts
<1>4. CASE (\E t \in Transfer : CancelJob(t)) \/ FinishProcess \/ ApproveClose \/ Close
  BY <1>4, WindowCounts
<1>5. CASE UNCHANGED transferVars
  BY <1>5 DEF transferVars, CountInv, TasksCounted, ReportsTrue, Truthful, RowsTrue
<1> QED
  BY <1>2, <1>3, <1>4, <1>5 DEF TransfersNext

(* "Completed" in the status window means that all the items the job was   *)
(* started with succeeded, and that as many whole files of a gallery       *)
(* export are in the folder, however jobs compete for names, fail, and are *)
(* cancelled at the last moment.                                           *)
THEOREM CompletedIsAll == TransfersSpec => []CompletedMeansAll
<1>1. ASSUME TransfersInv, CountInv PROVE CompletedMeansAll
  <2> SUFFICES ASSUME NEW t \in Transfer, rows[t] = "Completed"
               PROVE  /\ transfer[t].ok = transfer[t].total
                      /\ transfer[t].kind = "gallery" =>
                           transfer[t].ok = Cardinality(Whole(t, folder))
    BY DEF CompletedMeansAll, Whole
  <2>1. Succeeded(transfer[t]) /\ TaskCounted(transfer[t]) /\ WholeCounted(t, transfer[t], folder)
    BY <1>1 DEF CountInv, RowsTrue, TasksCounted
  <2>2. transfer[t].ok \in Nat
    BY <1>1 DEF TransfersInv, TransfersTypeOK, Task
  <2>3. transfer[t].ok = transfer[t].total
    BY <2>1, <2>2 DEF Succeeded, TaskCounted
  <2>4. Placed(transfer[t]) = 0
    BY <2>1 DEF Succeeded, Placed
  <2>5. transfer[t].ok + 0 = transfer[t].ok
    BY <2>2
  <2> QED
    BY <2>1, <2>3, <2>4, <2>5 DEF Succeeded, WholeCounted
<1> QED
  BY <1>1, TransfersAlways, CountsInitially, CountStep, PTL DEF TransfersSpec
-----------------------------------------------------------------------------
(* Rows, jobs and reports: what RowsEnd rests on at every moment.          *)

(* The job has not yet reported to its row.                                *)
Busy(t) == transfer[t].stage \notin {"unused", "ending", "over"}

ReportWaits(t) == \E n \in 1 .. Len(reports) : reports[n].id = t

(* A row says "Running" exactly while its job works or its one report      *)
(* waits for the window, and no report comes before the job's end; a job   *)
(* that a cancel button or the closing window can reach still works, and   *)
(* every job that works can be reached (register_job, unregister_job).     *)
RowsFollow ==
  /\ \A t \in Transfer : rows[t] = "Running" <=> Busy(t) \/ ReportWaits(t)
  /\ \A t \in Transfer : ReportWaits(t) => transfer[t].stage \in {"ending", "over"}
  /\ \A m, n \in 1 .. Len(reports) : reports[m].id = reports[n].id => m = n
  /\ \A t \in Transfer : flags[t] # "none" <=> Working(t)

LEMMA RowsInitially == TransfersInit => RowsFollow
<1> SUFFICES ASSUME TransfersInit PROVE RowsFollow
  OBVIOUS
<1>1. /\ reports = <<>> /\ Len(reports) = 0
      /\ \A t \in Transfer : /\ transfer[t].stage = "unused" /\ rows[t] = "none"
                             /\ flags[t] = "none"
  BY DEF TransfersInit
<1> QED
  BY <1>1 DEF RowsFollow, Busy, ReportWaits, Working

(* The steps of a job: it moves on, it reports, or it leaves the registry. *)
MovesOn(t) == Busy(t) /\ Busy(t)' /\ UNCHANGED <<flags, reports, rows>>

ReportsIn(t) ==
  /\ Busy(t) /\ transfer'[t].stage = "ending" /\ UNCHANGED <<flags, rows>>
  /\ \E r \in Report : reports' = Append(reports, r) /\ r.id = t

LeavesRegistry(t) ==
  /\ transfer[t].stage = "ending" /\ transfer'[t].stage = "over"
  /\ flags' = [flags EXCEPT ![t] = "none"] /\ UNCHANGED <<reports, rows>>

LEMMA ReportingSteps ==
  ASSUME TransfersTypeOK, NEW t \in Transfer, ClientFails(t) \/ FinishJob(t)
  PROVE  ReportsIn(t) /\ \A s \in Transfer : s # t => transfer'[s] = transfer[s]
<1>1. transfer \in [Transfer -> Task] /\ transfer[t] \in Task
  BY DEF TransfersTypeOK
<1>2. PICK c \in BOOLEAN : Reported(t, c)
  BY DEF ClientFails, FinishJob, Cancelled
<1>3. [id |-> t, cancelled |-> c, failed |-> transfer[t].failed] \in Report
  BY <1>1 DEF Task, Report
<1>4. Busy(t) /\ UNCHANGED <<flags, rows>> /\ SetTransfer(t, "ending")
  BY DEF ClientFails, FinishJob, Busy
<1>5. transfer'[t].stage = "ending" /\ \A s \in Transfer : s # t => transfer'[s] = transfer[s]
  BY <1>1, <1>4 DEF SetTransfer, Task
<1> QED
  BY <1>2, <1>3, <1>4, <1>5 DEF ReportsIn, Reported

LEMMA ItemEnds ==
  ASSUME TransfersTypeOK, NEW t \in Transfer, ItemFails(t) \/ ItemSucceeds(t)
  PROVE  /\ transfer'[t].stage = "next"
         /\ \A s \in Transfer : s # t => transfer'[s] = transfer[s]
BY DEF TransfersTypeOK, Task, ItemFails, ItemSucceeds

LEMMA StageMoves ==
  ASSUME TransfersTypeOK, NEW t \in Transfer, NEW stage, SetTransfer(t, stage)
  PROVE  /\ transfer'[t].stage = stage
         /\ \A s \in Transfer : s # t => transfer'[s] = transfer[s]
BY DEF TransfersTypeOK, Task, SetTransfer

LEMMA MovingSteps ==
  ASSUME TransfersTypeOK, NEW t \in Transfer,
         \/ ClientReady(t) \/ BeginExport(t) \/ BeginGallery(t) \/ BeginImport(t)
         \/ CreateOutput(t) \/ Receive(t) \/ ReceiveEnds(t) \/ ItemErrs(t)
         \/ StagedReceived(t) \/ ItemDone(t)
         \/ PlacingStops(t) \/ NameTaken(t) \/ Place(t)
         \/ CopyChunk(t) \/ Copied(t) \/ CopyFails(t)
  PROVE  MovesOn(t) /\ \A s \in Transfer : s # t => transfer'[s] = transfer[s]
<1>1. transfer \in [Transfer -> Task] /\ transfer[t] \in Task
  BY DEF TransfersTypeOK
<1>2. Busy(t)
  BY DEF Busy, At, ClientReady, BeginExport, BeginGallery, BeginImport, CreateOutput, Receive,
         ReceiveEnds, ItemErrs, StagedReceived, ItemDone, PlacingStops, NameTaken, Place,
         CopyChunk, Copied, CopyFails
<1>3. UNCHANGED <<flags, reports, rows>>
  BY DEF ClientReady, BeginExport, BeginGallery, BeginImport, CreateOutput, Receive,
         ReceiveEnds, ItemErrs, StagedReceived, ItemDone, PlacingStops, NameTaken, Place,
         CopyChunk, Copied, CopyFails
<1>4. ASSUME ItemFails(t) \/ ItemSucceeds(t)
      PROVE  Busy(t)' /\ \A s \in Transfer : s # t => transfer'[s] = transfer[s]
  BY <1>4, ItemEnds DEF Busy
<1>5. ASSUME NEW stage, SetTransfer(t, stage), stage \notin {"unused", "ending", "over"}
      PROVE  Busy(t)' /\ \A s \in Transfer : s # t => transfer'[s] = transfer[s]
  BY <1>5, StageMoves DEF Busy
<1>6. CASE ItemErrs(t) \/ StagedReceived(t) \/ ItemDone(t) \/ PlacingStops(t) \/ CopyFails(t)
  <2>1. ItemFails(t) \/ ItemSucceeds(t) \/ SetTransfer(t, "placing")
    BY <1>6 DEF ItemErrs, StagedReceived, ItemDone, PlacingStops, CopyFails
  <2> QED
    BY <1>2, <1>3, <1>4, <1>5, <2>1 DEF MovesOn
<1>7. CASE \/ ClientReady(t) \/ BeginGallery(t) \/ BeginImport(t) \/ CreateOutput(t)
           \/ ReceiveEnds(t) \/ Copied(t)
  <2>1. \E stage \in {"next", "receiving", "received", "done"} : SetTransfer(t, stage)
    BY <1>7 DEF ClientReady, BeginGallery, BeginImport, CreateOutput, ReceiveEnds, Copied
  <2> QED
    BY <1>2, <1>3, <1>5, <2>1 DEF MovesOn
<1>8. CASE BeginExport(t)
  <2>1. PICK i : transfer' = [transfer EXCEPT ![t].stage = "chosen", ![t].index = i]
    BY <1>8 DEF BeginExport
  <2>2. transfer'[t].stage = "chosen" /\ \A s \in Transfer : s # t => transfer'[s] = transfer[s]
    BY <1>1, <2>1 DEF Task
  <2> QED
    BY <1>2, <1>3, <2>2 DEF MovesOn, Busy
<1>9. CASE Receive(t) \/ CopyChunk(t)
  <2>1. PICK got : transfer' = [transfer EXCEPT ![t].got = got]
    BY <1>9 DEF Receive, CopyChunk
  <2>2. transfer'[t].stage = transfer[t].stage
        /\ \A s \in Transfer : s # t => transfer'[s] = transfer[s]
    BY <1>1, <2>1 DEF Task
  <2> QED
    BY <1>2, <1>3, <2>2 DEF MovesOn, Busy
<1>10. CASE NameTaken(t)
  <2>1. transfer' = [transfer EXCEPT ![t].index = transfer[t].index + 1]
    BY <1>1, <1>10 DEF NameTaken, Task
  <2>2. transfer'[t].stage = transfer[t].stage
        /\ \A s \in Transfer : s # t => transfer'[s] = transfer[s]
    BY <1>1, <2>1 DEF Task
  <2> QED
    BY <1>2, <1>3, <2>2 DEF MovesOn, Busy
<1>11. CASE Place(t)
  <2>1. CASE SetTransfer(t, "done")
    BY <1>2, <1>3, <1>5, <2>1 DEF MovesOn
  <2>2. CASE transfer' = [transfer EXCEPT ![t].stage = "copying", ![t].got = 0]
    <3>1. transfer'[t].stage = "copying" /\ \A s \in Transfer : s # t => transfer'[s] = transfer[s]
      BY <1>1, <2>2 DEF Task
    <3> QED
      BY <1>2, <1>3, <3>1 DEF MovesOn, Busy
  <2> QED
    BY <1>11, <2>1, <2>2 DEF Place
<1> QED
  BY <1>6, <1>7, <1>8, <1>9, <1>10, <1>11

(* What a job's step leaves of its row.                                    *)
LEMMA JobKeepsRows ==
  ASSUME TransfersInv, RowsFollow, NEW t \in Transfer, TransferStep(t) PROVE RowsFollow'
<1>1. /\ TransfersTypeOK /\ reports \in Seq(Report) /\ Len(reports) \in Nat
      /\ flags \in [Transfer -> {"none", "run", "cancel"}]
  BY ReportsFacts DEF TransfersInv, TransfersTypeOK
<1>2. CASE MovesOn(t) /\ \A s \in Transfer : s # t => transfer'[s] = transfer[s]
  <2>1. \A s \in Transfer : /\ Busy(s)' <=> Busy(s)
                            /\ Working(s)' <=> Working(s)
                            /\ ReportWaits(s)' <=> ReportWaits(s)
                            /\ transfer[s].stage \in {"ending", "over"} =>
                                 transfer'[s].stage \in {"ending", "over"}
    BY <1>2 DEF MovesOn, Busy, Working, ReportWaits
  <2> QED
    BY <1>2, <2>1 DEF RowsFollow, MovesOn
<1>3. CASE ReportsIn(t) /\ \A s \in Transfer : s # t => transfer'[s] = transfer[s]
  <2>1. PICK r \in Report : reports' = Append(reports, r) /\ r.id = t
    BY <1>3 DEF ReportsIn
  <2>2. /\ Len(reports') = Len(reports) + 1
        /\ \A n \in 1 .. Len(reports) : reports'[n] = reports[n]
        /\ reports'[Len(reports) + 1] = r
    BY <1>1, <2>1, AppendProperties
  <2>3. /\ \A n \in 1 .. Len(reports') : n \in 1 .. Len(reports) \/ n = Len(reports) + 1
        /\ Len(reports) + 1 \in 1 .. Len(reports')
        /\ \A n \in 1 .. Len(reports) : n \in 1 .. Len(reports')
    BY <1>1, <2>2
  <2>4. ~ReportWaits(t)
    BY <1>3 DEF ReportsIn, RowsFollow, Busy
  <2>5. \A s \in Transfer : ReportWaits(s)' <=> ReportWaits(s) \/ s = t
    BY <2>1, <2>2, <2>3 DEF ReportWaits
  <2>6. \A m, n \in 1 .. Len(reports') : reports'[m].id = reports'[n].id => m = n
    BY <2>1, <2>2, <2>3, <2>4 DEF ReportWaits, RowsFollow
  <2>7. \A s \in Transfer : /\ Busy(s)' <=> Busy(s) /\ s # t
                            /\ Working(s)' <=> Working(s)
    BY <1>3 DEF ReportsIn, Busy, Working
  <2>8. \A s \in Transfer : ReportWaits(s)' => transfer'[s].stage \in {"ending", "over"}
    BY <1>3, <2>5 DEF ReportsIn, RowsFollow
  <2>9. Busy(t) /\ UNCHANGED <<flags, rows>>
    BY <1>3 DEF ReportsIn
  <2> QED
    BY <2>5, <2>6, <2>7, <2>8, <2>9 DEF RowsFollow
<1>4. CASE LeavesRegistry(t) /\ \A s \in Transfer : s # t => transfer'[s] = transfer[s]
  <2>1. \A s \in Transfer : /\ Busy(s)' <=> Busy(s)
                            /\ ReportWaits(s)' <=> ReportWaits(s)
                            /\ transfer[s].stage \in {"ending", "over"} =>
                                 transfer'[s].stage \in {"ending", "over"}
    BY <1>4 DEF LeavesRegistry, Busy, ReportWaits
  <2>2. \A s \in Transfer : flags'[s] # "none" <=> Working(s)'
    BY <1>1, <1>4 DEF LeavesRegistry, RowsFollow, Working
  <2> QED
    BY <1>4, <2>1, <2>2 DEF RowsFollow, LeavesRegistry
<1>5. CASE UnregisterJob(t)
  <2>1. LeavesRegistry(t) /\ \A s \in Transfer : s # t => transfer'[s] = transfer[s]
    BY <1>1, <1>5, StageMoves DEF UnregisterJob, LeavesRegistry
  <2> QED
    BY <1>4, <2>1
<1> QED
  BY <1>1, <1>2, <1>3, <1>5, MovingSteps, ReportingSteps DEF TransferStep

LEMMA StartKeepsRows ==
  ASSUME TransfersInv, RowsFollow,
         NEW t \in Transfer, NEW kind, NEW items, StartTransfer(t, kind, items)
  PROVE  RowsFollow'
<1>1. /\ transfer \in [Transfer -> Task] /\ transfer[t] \in Task
      /\ flags \in [Transfer -> {"none", "run", "cancel"}] /\ rows \in [Transfer -> Row]
  BY DEF TransfersInv, TransfersTypeOK, Row
<1>2. /\ \A s \in Transfer : s # t => transfer'[s] = transfer[s]
      /\ transfer'[t].stage = "connecting"
  BY <1>1 DEF StartTransfer, Task
<1>3. /\ transfer[t].stage = "unused" /\ reports' = reports
      /\ rows' = [rows EXCEPT ![t] = "Running"] /\ flags' = [flags EXCEPT ![t] = "run"]
  BY DEF StartTransfer
<1>4. ~ReportWaits(t) /\ \A s \in Transfer : ReportWaits(s)' <=> ReportWaits(s)
  BY <1>3 DEF RowsFollow, ReportWaits
<1>5. \A s \in Transfer : /\ Busy(s)' <=> Busy(s) \/ s = t
                          /\ Working(s)' <=> Working(s) \/ s = t
                          /\ rows'[s] = IF s = t THEN "Running" ELSE rows[s]
                          /\ flags'[s] = IF s = t THEN "run" ELSE flags[s]
  BY <1>1, <1>2, <1>3 DEF Busy, Working
<1> QED
  BY <1>2, <1>3, <1>4, <1>5 DEF RowsFollow

LEMMA WindowKeepsRows ==
  ASSUME TransfersInv, RowsFollow,
         (\E t \in Transfer : CancelJob(t)) \/ FinishProcess \/ ApproveClose \/ Close
  PROVE  RowsFollow'
<1>1. /\ transfer' = transfer /\ \A t \in Transfer : /\ Busy(t)' <=> Busy(t)
                                                     /\ Working(t)' <=> Working(t)
  BY DEF CancelJob, FinishProcess, ApproveClose, Close, Busy, Working
<1>2. /\ flags \in [Transfer -> {"none", "run", "cancel"}] /\ rows \in [Transfer -> Row]
      /\ reports \in Seq(Report) /\ Len(reports) \in Nat
      /\ \A n \in 1 .. Len(reports) : reports[n].id \in Transfer
  BY ReportsFacts DEF TransfersInv, TransfersTypeOK, Row
<1>3. CASE (\E t \in Transfer : CancelJob(t)) \/ ApproveClose \/ Close
  <2>1. UNCHANGED <<reports, rows>>
    BY <1>3 DEF CancelJob, ApproveClose, Close
  <2>2. \A t \in Transfer : flags'[t] # "none" <=> flags[t] # "none"
    BY <1>2, <1>3 DEF CancelJob, ApproveClose, Close
  <2> QED
    BY <1>1, <2>1, <2>2 DEF RowsFollow, ReportWaits
<1>4. CASE FinishProcess
  <2> DEFINE r == Head(reports)
  <2>1. /\ reports # <<>> /\ reports' = Tail(reports) /\ flags' = flags
        /\ rows' = [rows EXCEPT ![r.id] = IF r.cancelled THEN "Cancelled"
                                          ELSE IF r.failed > 0 THEN "Failed" ELSE "Completed"]
    BY <1>4 DEF FinishProcess
  <2>2. /\ Len(reports') = Len(reports) - 1
        /\ \A n \in 1 .. Len(reports') : reports'[n] = reports[n + 1]
    BY <1>2, <2>1, HeadTailProperties
  <2>3. r = reports[1] /\ 1 \in 1 .. Len(reports)
    <3>1. Len(reports) \in Nat \ {0}
      BY <1>2, <2>1, EmptySeq
    <3> QED
      BY <1>2, <3>1
  <2> HIDE DEF r
  <2>4. r.id \in Transfer /\ rows'[r.id] # "Running"
        /\ \A s \in Transfer : s # r.id => rows'[s] = rows[s]
    BY <1>2, <2>1, <2>3
  <2>5. /\ \A n \in 1 .. Len(reports') : n + 1 \in 1 .. Len(reports) /\ n + 1 # 1
        /\ \A n \in 1 .. Len(reports) : n # 1 => n - 1 \in 1 .. Len(reports') /\ (n - 1) + 1 = n
        /\ \A m, n \in 1 .. Len(reports') : m + 1 = n + 1 => m = n
    BY <1>2, <2>2
  <2>6. ReportWaits(r.id) /\ ~Busy(r.id)
    BY <2>3, <2>4 DEF ReportWaits, RowsFollow, Busy
  <2>7. \A s \in Transfer : ReportWaits(s)' <=> ReportWaits(s) /\ s # r.id
    <3> SUFFICES ASSUME NEW s \in Transfer PROVE ReportWaits(s)' <=> ReportWaits(s) /\ s # r.id
      OBVIOUS
    <3>1. ASSUME NEW n \in 1 .. Len(reports'), reports'[n].id = s
          PROVE  ReportWaits(s) /\ s # r.id
      BY <2>2, <2>3, <2>5, <3>1 DEF ReportWaits, RowsFollow
    <3>2. ASSUME NEW n \in 1 .. Len(reports), reports[n].id = s, s # r.id
          PROVE  ReportWaits(s)'
      <4>1. n # 1
        BY <2>3, <3>2
      <4>2. n - 1 \in 1 .. Len(reports') /\ (n - 1) + 1 = n
        BY <2>5, <4>1
      <4>3. reports'[n - 1] = reports[n]
        BY <2>2, <4>2
      <4> QED
        BY <3>2, <4>2, <4>3 DEF ReportWaits
    <3> QED
      BY <3>1, <3>2 DEF ReportWaits
  <2>8. \A m, n \in 1 .. Len(reports') : reports'[m].id = reports'[n].id => m = n
    BY <2>2, <2>5 DEF RowsFollow
  <2> QED
    BY <1>1, <2>1, <2>4, <2>6, <2>7, <2>8 DEF RowsFollow
<1> QED
  BY <1>3, <1>4

LEMMA RowsStep == TransfersInv /\ RowsFollow /\ [TransfersNext]_transferVars => RowsFollow'
<1> SUFFICES ASSUME TransfersInv, RowsFollow, [TransfersNext]_transferVars PROVE RowsFollow'
  OBVIOUS
<1>1. CASE \E t \in Transfer : TransferStep(t)
  BY <1>1, JobKeepsRows
<1>2. CASE \E t \in Transfer, kind \in Kind :
             \E items \in 0 .. MaxItem[t][kind] : StartTransfer(t, kind, items)
  BY <1>2, StartKeepsRows
<1>3. CASE (\E t \in Transfer : CancelJob(t)) \/ FinishProcess \/ ApproveClose \/ Close
  BY <1>3, WindowKeepsRows
<1>4. CASE UNCHANGED transferVars
  BY <1>4 DEF transferVars, RowsFollow, Busy, ReportWaits, Working
<1> QED
  BY <1>1, <1>2, <1>3, <1>4 DEF TransfersNext

(* No row outlives its job and the report of it, no job reports twice or   *)
(* early, and the registry knows the jobs that work, and no others.        *)
THEOREM RowsFollowJobs == TransfersSpec => []RowsFollow
BY TransfersAlways, RowsInitially, RowsStep, PTL DEF TransfersSpec
=============================================================================
