---------------------------- MODULE ImageDownloads ----------------------------
(***************************************************************************)
(* Developer disk images on the computer: src/dev_imgs_manager.rs and its  *)
(* window, ui/tools/DevDiskImages.qml.  A download is a task that receives *)
(* an archive and waits for a blocking thread to extract it; the window's  *)
(* list is loaded by further tasks, the newest of which counts.  Progress, *)
(* what is mounted on a device, and the helper for developer mode, which   *)
(* starts downloads too, are left out.                                     *)
(***************************************************************************)
EXTENDS Naturals, Sequences

CONSTANTS
  Version,       \* the images, one for each version of the system
  MaxDownload,   \* bound: how many downloads are started
  MaxList        \* bound: how often the list is loaded

ASSUME DownloadAssumption ==
  MaxDownload \in Nat /\ MaxList \in Nat /\ "none" \notin Version

VARIABLES
  activeDownloads,   \* activate_downloads: the download of each version, 0 for none
  download,          \* the tasks
  lastDownload,      \* how many there are
  onDisk,            \* the versions whose image is extracted
  listRevision,      \* image_list_revision
  listing,           \* the loads of the list
  imageRows,         \* image_model: whether it has rows, which of them download, or are
                     \* downloaded
  imagesOpen,        \* the window is open
  closures           \* what waits for the Qt thread

downloadVars == <<activeDownloads, download, lastDownload, onDisk, listRevision, listing,
                  imageRows, imagesOpen, closures>>

Download == 1 .. MaxDownload
Revision == 1 .. MaxList

(* "extracting": the task waits for the blocking thread; "extracted": it   *)
(* is about to go on; "aborted": the thread goes on alone.                 *)
DownloadStage == {"unused", "receiving", "extracting", "extracted", "aborted", "over"}

(* What a load has found on the disk.                                      *)
Load == [stage : {"none", "loading", "read", "over"}, seen : SUBSET Version, ok : BOOLEAN]

Rows == [listed : BOOLEAN, downloading : SUBSET Version, downloaded : SUBSET Version]

DownloadsTypeOK ==
  /\ activeDownloads \in [Version -> 0 .. MaxDownload]
  /\ download \in [Download -> [version : Version \cup {"none"}, stage : DownloadStage,
                                cancelled : BOOLEAN]]
  /\ lastDownload \in 0 .. MaxDownload
  /\ onDisk \subseteq Version
  /\ listRevision \in 0 .. MaxList
  /\ listing \in [Revision -> Load]
  /\ imageRows \in Rows
  /\ imagesOpen \in BOOLEAN
  /\ closures \in Seq([what : {"finished"}, version : Version]
                      \cup [what : {"list"}, revision : Revision])

(* Images that an earlier run of the program downloaded may be there.      *)
DownloadsInit ==
  /\ activeDownloads = [v \in Version |-> 0]
  /\ download = [d \in Download |-> [version |-> "none", stage |-> "unused", cancelled |-> FALSE]]
  /\ lastDownload = 0
  /\ onDisk \in SUBSET Version
  /\ listRevision = 0
  /\ listing = [r \in Revision |-> [stage |-> "none", seen |-> {}, ok |-> FALSE]]
  /\ imageRows = [listed |-> FALSE, downloading |-> {}, downloaded |-> {}]
  /\ imagesOpen = FALSE
  /\ closures = <<>>

-----------------------------------------------------------------------------
(* The Qt thread.                                                          *)

(* load_image_list.                                                        *)
LoadImageList ==
  /\ listRevision < MaxList
  /\ listRevision' = listRevision + 1
  /\ listing' = [listing EXCEPT ![listRevision + 1].stage = "loading"]

OpenImages ==
  /\ ~imagesOpen
  /\ imagesOpen' = TRUE
  /\ LoadImageList
  /\ UNCHANGED <<activeDownloads, download, lastDownload, onDisk, imageRows, closures>>

CloseImages ==
  /\ imagesOpen
  /\ imagesOpen' = FALSE
  /\ UNCHANGED <<activeDownloads, download, lastDownload, onDisk, listRevision, listing,
                 imageRows, closures>>

(* The refresh button, another device chosen, added or removed.            *)
RefreshImages ==
  /\ imagesOpen
  /\ LoadImageList
  /\ UNCHANGED <<activeDownloads, download, lastDownload, onDisk, imageRows, imagesOpen, closures>>

(* The button of a row that does not download; download_image refuses when *)
(* the version has a handle.                                               *)
DownloadImage(v) ==
  /\ imagesOpen /\ imageRows.listed /\ v \notin imageRows.downloading
  /\ activeDownloads[v] = 0
  /\ lastDownload < MaxDownload
  /\ lastDownload' = lastDownload + 1
  /\ activeDownloads' = [activeDownloads EXCEPT ![v] = lastDownload + 1]
  /\ download' = [download EXCEPT ![lastDownload + 1].version = v,
                                  ![lastDownload + 1].stage = "receiving"]
  /\ imageRows' = [imageRows EXCEPT !.downloading = @ \cup {v}]
  /\ UNCHANGED <<onDisk, listRevision, listing, imagesOpen, closures>>

(* abort() ends the task at its next await; a thread that extracts is not  *)
(* stopped by it.                                                          *)
AbortDownload(d) ==
  [download EXCEPT ![d].cancelled = (download[d].stage # "over"),
     ![d].stage = CASE @ = "extracting" -> "aborted"
                    [] @ \in {"receiving", "extracted"} -> "over"
                    [] OTHER -> @]

(* cancel_download, by the button of a row that downloads.                 *)
CancelDownload(v) ==
  /\ imagesOpen /\ v \in imageRows.downloading
  /\ activeDownloads[v] # 0
  /\ activeDownloads' = [activeDownloads EXCEPT ![v] = 0]
  /\ download' = AbortDownload(activeDownloads[v])
  /\ imageRows' = [imageRows EXCEPT !.downloading = @ \ {v}]
  /\ UNCHANGED <<lastDownload, onDisk, listRevision, listing, imagesOpen, closures>>

(* Mutant of DownloadFinished: the window only drops the handle.           *)
FinishedUnlisted(v) ==
  /\ imageRows' = [imageRows EXCEPT !.downloading = @ \ {v}]
  /\ activeDownloads' = IF imagesOpen THEN [activeDownloads EXCEPT ![v] = 0] ELSE activeDownloads
  /\ UNCHANGED <<listRevision, listing>>

(* The completion.  Its signal reaches only an open window, which calls    *)
(* handle_download_finished and loads the list again.                      *)
DownloadFinished(v) ==
  /\ imageRows' = [imageRows EXCEPT !.downloading = @ \ {v}]
  /\ \/ /\ imagesOpen
        /\ activeDownloads' = [activeDownloads EXCEPT ![v] = 0]
        /\ LoadImageList
     \/ /\ ~imagesOpen
        /\ UNCHANGED <<activeDownloads, listRevision, listing>>

InTable == {v \in Version : activeDownloads[v] # 0}

(* The rows of a load; whether one downloads is looked up now.             *)
ListedRows(seen) == [listed |-> TRUE, downloading |-> InTable, downloaded |-> seen]

(* Mutant of ApplyList: whichever load ends last is shown.                 *)
ApplyAnyList(r) ==
  /\ imageRows' = IF listing[r].ok THEN ListedRows(listing[r].seen) ELSE imageRows
  /\ UNCHANGED <<activeDownloads, listRevision, listing>>

ApplyList(r) ==
  /\ imageRows' = IF r = listRevision /\ listing[r].ok
                  THEN ListedRows(listing[r].seen)
                  ELSE imageRows
  /\ UNCHANGED <<activeDownloads, listRevision, listing>>

RunClosure ==
  /\ closures # <<>>
  /\ closures' = Tail(closures)
  /\ LET c == Head(closures)
     IN \/ c.what = "finished" /\ DownloadFinished(c.version)
        \/ c.what = "list" /\ ApplyList(c.revision)
  /\ UNCHANGED <<download, lastDownload, onDisk, imagesOpen>>

-----------------------------------------------------------------------------
(* The tasks.                                                              *)

Finished(d) ==
  /\ closures' = Append(closures, [what |-> "finished", version |-> download[d].version])
  /\ download' = [download EXCEPT ![d].stage = "over"]

(* The archive is complete, or an error ends the task.                     *)
ReceiveArchive(d) ==
  /\ download[d].stage = "receiving"
  /\ \/ download' = [download EXCEPT ![d].stage = "extracting"] /\ UNCHANGED closures
     \/ Finished(d)
  /\ UNCHANGED <<activeDownloads, lastDownload, onDisk, listRevision, listing, imageRows, imagesOpen>>

(* The blocking thread, which the task may have left alone; it may fail.   *)
ExtractArchive(d) ==
  /\ download[d].stage \in {"extracting", "aborted"}
  /\ onDisk' \in {onDisk, onDisk \cup {download[d].version}}
  /\ download' = [download EXCEPT ![d].stage = IF @ = "aborted" THEN "over" ELSE "extracted"]
  /\ UNCHANGED <<activeDownloads, lastDownload, listRevision, listing, imageRows, imagesOpen, closures>>

ReportDownload(d) ==
  /\ download[d].stage = "extracted"
  /\ Finished(d)
  /\ UNCHANGED <<activeDownloads, lastDownload, onDisk, listRevision, listing, imageRows, imagesOpen>>

(* The manifest may be out of reach; then the directory is read, and the   *)
(* device is asked what it has mounted.                                    *)
ReadDirectory(r) ==
  /\ listing[r].stage = "loading"
  /\ \E ok \in BOOLEAN :
       listing' = [listing EXCEPT ![r] =
         [stage |-> "read", seen |-> IF ok THEN onDisk ELSE {}, ok |-> ok]]
  /\ UNCHANGED <<activeDownloads, download, lastDownload, onDisk, listRevision, imageRows,
                 imagesOpen, closures>>

ListLoaded(r) ==
  /\ listing[r].stage = "read"
  /\ listing' = [listing EXCEPT ![r].stage = "over"]
  /\ closures' = Append(closures, [what |-> "list", revision |-> r])
  /\ UNCHANGED <<activeDownloads, download, lastDownload, onDisk, listRevision, imageRows, imagesOpen>>

DownloadsNext ==
  \/ OpenImages \/ CloseImages \/ RefreshImages \/ RunClosure
  \/ \E v \in Version : DownloadImage(v) \/ CancelDownload(v)
  \/ \E d \in Download : ReceiveArchive(d) \/ ExtractArchive(d) \/ ReportDownload(d)
  \/ \E r \in Revision : ReadDirectory(r) \/ ListLoaded(r)

DownloadsSpec == DownloadsInit /\ [][DownloadsNext]_downloadVars

-----------------------------------------------------------------------------
(* Properties.                                                             *)

DownloadsRest ==
  /\ closures = <<>>
  /\ \A d \in Download : download[d].stage \in {"unused", "over"}
  /\ \A r \in Revision : listing[r].stage \in {"none", "over"}

(* What the window lists is true.  A row that downloads has a handle, so   *)
(* that its button to cancel finds it; and once everything has run, the    *)
(* images listed as downloaded are those on the disk, although loads of    *)
(* the list overtake each other, the downloads and the window itself.      *)
(* Only an archive whose download was cancelled may be there unlisted      *)
(* (image_list_revision, onImageDownloadFinished).                         *)
ImagesTruthful ==
  /\ imageRows.downloading \subseteq InTable
  /\ DownloadsRest /\ imagesOpen /\ listing[listRevision].ok =>
       /\ imageRows.downloaded \subseteq onDisk
       /\ \A v \in onDisk \ imageRows.downloaded :
            \E d \in Download : download[d].version = v /\ download[d].cancelled
=============================================================================
