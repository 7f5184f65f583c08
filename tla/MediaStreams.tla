----------------------------- MODULE MediaStreams -----------------------------
(***************************************************************************)
(* Video previews: src/media_streamer.rs with the two methods of           *)
(* src/afc_services.rs that start and release a session, the registry's    *)
(* part in clean_removed_device, and ui/PreviewWindow.qml.  A session is a *)
(* local HTTP server; every request has a producer that reads the file     *)
(* through the device's one AFC client, whose mutex it keeps until it      *)
(* ends.  The device is connected once; its media player asks for a range, *)
(* and for another one before it drops the first when it seeks.            *)
(***************************************************************************)
EXTENDS Naturals, FiniteSets

CONSTANTS
  Preview,            \* the preview windows
  MaxMediaRequest,    \* bound: how many requests their players make
  MaxBody,            \* the chunks of a range (a file that ends early gives fewer)
  ChannelCapacity     \* STREAM_CHANNEL_CAPACITY

ASSUME MediaAssumption ==
  /\ {"nobody", "no", "begin", "drain", "done"} \cap Preview = {}
  /\ MaxMediaRequest \in Nat /\ MaxBody \in Nat \ {0} /\ ChannelCapacity \in Nat \ {0}

VARIABLES
  present,     \* the device is in the registry
  cleaning,    \* what clean_removed_device is doing, or the session it waits for
  draining,    \* the sessions it has still to shut down
  window,      \* the windows and their players
  videoStreams,\* video_streams: the sessions of the device
  cancelled,   \* the sessions whose token is cancelled
  releasing,   \* the sessions whose release task has not run
  producer,    \* the requests and their producers
  afcHolder,   \* the producer that holds the AFC client's mutex, 0 for none
  descriptors  \* the producers whose file is open on the device

mediaVars == <<present, cleaning, draining, window, videoStreams, cancelled, releasing, producer,
               afcHolder, descriptors>>

MediaRequest == 1 .. MaxMediaRequest

(* "starting": start_video_stream blocks the Qt thread until it has asked  *)
(* the device for the file's size; "listening": until it has stored the    *)
(* session.  "dead": the session was dropped before it was stored.         *)
WindowStage == {"closed", "starting", "listening", "playing", "paused", "over"}

ProducerStage == {"unused", "waiting", "opening", "opened", "reading", "sending",
                  "closing", "over"}

(* left: chunks not yet sent; sent: chunks in the channel; open: the       *)
(* player's end of the connection.                                         *)
Producer == [preview : Preview \cup {"nobody"}, stage : ProducerStage, left : 0 .. MaxBody,
             sent : 0 .. ChannelCapacity, open : BOOLEAN]

MediaTypeOK ==
  /\ present \in BOOLEAN
  /\ cleaning \in {"no", "begin", "drain", "done"} \cup Preview
  /\ draining \subseteq Preview
  /\ window \in [Preview -> WindowStage]
  /\ videoStreams \subseteq Preview
  /\ cancelled \subseteq Preview
  /\ releasing \subseteq Preview
  /\ producer \in [MediaRequest -> Producer]
  /\ afcHolder \in 0 .. MaxMediaRequest
  /\ descriptors \subseteq MediaRequest

MediaInit ==
  /\ present = TRUE
  /\ cleaning = "no" /\ draining = {}
  /\ window = [p \in Preview |-> "closed"]
  /\ videoStreams = {} /\ cancelled = {} /\ releasing = {}
  /\ producer = [r \in MediaRequest |->
       [preview |-> "nobody", stage |-> "unused", left |-> 0, sent |-> 0, open |-> FALSE]]
  /\ afcHolder = 0
  /\ descriptors = {}

-----------------------------------------------------------------------------
(* The Qt thread.                                                          *)

QtBlocked == \E p \in Preview : window[p] \in {"starting", "listening"}

(* start_video_stream waits for its result in run_sync.                    *)
StartVideoStream(p) ==
  /\ ~QtBlocked
  /\ window[p] = "closed"
  /\ window' = [window EXCEPT ![p] = IF present THEN "starting" ELSE "over"]
  /\ UNCHANGED <<present, cleaning, draining, videoStreams, cancelled, releasing, producer,
                 afcHolder, descriptors>>

(* MediaStreamSession::start has the AFC client for a moment; the device   *)
(* may answer with an error.                                               *)
SessionStarts(p) ==
  /\ window[p] = "starting"
  /\ afcHolder = 0
  /\ \E stage \in {"listening", "over"} : window' = [window EXCEPT ![p] = stage]
  /\ UNCHANGED <<present, cleaning, draining, videoStreams, cancelled, releasing, producer,
                 afcHolder, descriptors>>

(* The session is stored with the device it was started for.  When that    *)
(* is gone and cleaned up, this was the last reference to its table, and   *)
(* the sessions in it are dropped.                                         *)
StoreSession(p) ==
  /\ window[p] = "listening"
  /\ IF cleaning = "done"
     THEN videoStreams' = {} /\ cancelled' = cancelled \cup videoStreams \cup {p}
     ELSE videoStreams' = videoStreams \cup {p} /\ UNCHANGED cancelled
  /\ window' = [window EXCEPT ![p] = "playing"]
  /\ UNCHANGED <<present, cleaning, draining, releasing, producer, afcHolder, descriptors>>

PauseOrPlay(p) ==
  /\ ~QtBlocked
  /\ \/ window[p] = "playing" /\ window' = [window EXCEPT ![p] = "paused"]
     \/ window[p] = "paused" /\ window' = [window EXCEPT ![p] = "playing"]
  /\ UNCHANGED <<present, cleaning, draining, videoStreams, cancelled, releasing, producer,
                 afcHolder, descriptors>>

(* cleanupVideoStream: the player drops its connections, and a task is     *)
(* spawned to release the session.                                         *)
CloseWindow(p) ==
  /\ ~QtBlocked
  /\ window[p] \in {"playing", "paused"}
  /\ window' = [window EXCEPT ![p] = "over"]
  /\ producer' = [r \in MediaRequest |->
       IF producer[r].preview = p THEN [producer[r] EXCEPT !.open = FALSE, !.sent = 0]
       ELSE producer[r]]
  /\ releasing' = releasing \cup {p}
  /\ UNCHANGED <<present, cleaning, draining, videoStreams, cancelled, afcHolder, descriptors>>

(* Mutant of ReleaseVideoStream: the session leaves the table and is not   *)
(* shut down.                                                              *)
ReleaseForgotten(p) ==
  /\ p \in releasing
  /\ releasing' = releasing \ {p}
  /\ videoStreams' = IF present THEN videoStreams \ {p} ELSE videoStreams
  /\ UNCHANGED <<present, cleaning, draining, window, cancelled, producer, afcHolder, descriptors>>

(* The task: nothing when the device is gone, or the session with it.      *)
ReleaseVideoStream(p) ==
  /\ p \in releasing
  /\ releasing' = releasing \ {p}
  /\ IF present /\ p \in videoStreams
     THEN videoStreams' = videoStreams \ {p} /\ cancelled' = cancelled \cup {p}
     ELSE UNCHANGED <<videoStreams, cancelled>>
  /\ UNCHANGED <<present, cleaning, draining, window, producer, afcHolder, descriptors>>

-----------------------------------------------------------------------------
(* The device goes.                                                        *)

RemovePresent ==
  /\ present
  /\ present' = FALSE
  /\ cleaning' = "begin"
  /\ UNCHANGED <<draining, window, videoStreams, cancelled, releasing, producer, afcHolder,
                 descriptors>>

DrainStreams ==
  /\ cleaning = "begin"
  /\ cleaning' = "drain"
  /\ draining' = videoStreams
  /\ videoStreams' = {}
  /\ UNCHANGED <<present, window, cancelled, releasing, producer, afcHolder, descriptors>>

(* One session after the other is shut down, and its server awaited, which *)
(* waits for its producers and its connections.                            *)
ShutDownNext(p) ==
  /\ cleaning = "drain"
  /\ p \in draining
  /\ draining' = draining \ {p}
  /\ cancelled' = cancelled \cup {p}
  /\ cleaning' = p
  /\ UNCHANGED <<present, window, videoStreams, releasing, producer, afcHolder, descriptors>>

ServerEnds(p) ==
  /\ cleaning = p
  /\ \A r \in MediaRequest :
       producer[r].preview = p => producer[r].stage \in {"unused", "over"} /\ ~producer[r].open
  /\ cleaning' = "drain"
  /\ UNCHANGED <<present, draining, window, videoStreams, cancelled, releasing, producer,
                 afcHolder, descriptors>>

(* What was stored in the meantime is dropped with the table, unless a     *)
(* start still has it.                                                     *)
CleaningEnds ==
  /\ cleaning = "drain" /\ draining = {}
  /\ cleaning' = "done"
  /\ IF QtBlocked THEN UNCHANGED <<videoStreams, cancelled>>
     ELSE videoStreams' = {} /\ cancelled' = cancelled \cup videoStreams
  /\ UNCHANGED <<present, draining, window, releasing, producer, afcHolder, descriptors>>

-----------------------------------------------------------------------------
(* The player: external, but for what PreviewWindow.qml asks of it.        *)

OpenRequests(p) == {r \in MediaRequest : producer[r].preview = p /\ producer[r].open}

(* handle_media_request; a cancelled session accepts nothing more.         *)
AskForRange(p, r) ==
  /\ window[p] = "playing" /\ p \notin cancelled
  /\ Cardinality(OpenRequests(p)) <= 1
  /\ producer[r].stage = "unused" /\ \A q \in 1 .. r - 1 : producer[q].stage # "unused"
  /\ producer' = [producer EXCEPT ![r] = [preview |-> p, stage |-> "waiting",
                                          left |-> MaxBody, sent |-> 0, open |-> TRUE]]
  /\ UNCHANGED <<present, cleaning, draining, window, videoStreams, cancelled, releasing,
                 afcHolder, descriptors>>

(* A seek: the older connection is dropped once the newer one answers.     *)
DropOlder(r) ==
  /\ producer[r].open
  /\ \E s \in OpenRequests(producer[r].preview) : s > r
  /\ producer' = [producer EXCEPT ![r].open = FALSE, ![r].sent = 0]
  /\ UNCHANGED <<present, cleaning, draining, window, videoStreams, cancelled, releasing,
                 afcHolder, descriptors>>

Consume(r) ==
  /\ producer[r].open /\ producer[r].sent > 0
  /\ producer' = [producer EXCEPT ![r].sent = @ - 1]
  /\ UNCHANGED <<present, cleaning, draining, window, videoStreams, cancelled, releasing,
                 afcHolder, descriptors>>

-----------------------------------------------------------------------------
(* produce_range.                                                          *)

Cancels(r) == producer[r].preview \in cancelled

Produces(r, stage) ==
  /\ producer' = [producer EXCEPT ![r].stage = stage]
  /\ UNCHANGED <<present, cleaning, draining, window, videoStreams, cancelled, releasing>>

(* A producer that is over keeps no locals.                                *)
EndProducer(r) ==
  /\ producer' = [producer EXCEPT ![r].stage = "over", ![r].left = 0]
  /\ UNCHANGED <<present, cleaning, draining, window, videoStreams, cancelled, releasing>>

(* The mutex or the cancellation, whichever comes first.                   *)
LockAfc(r) ==
  /\ producer[r].stage = "waiting"
  /\ \/ afcHolder = 0 /\ afcHolder' = r /\ Produces(r, "opening")
     \/ Cancels(r) /\ EndProducer(r) /\ UNCHANGED afcHolder
  /\ UNCHANGED descriptors

OpenFile(r) ==
  /\ producer[r].stage = "opening"
  /\ \/ descriptors' = descriptors \cup {r} /\ Produces(r, "opened") /\ UNCHANGED afcHolder
     \/ afcHolder' = 0 /\ EndProducer(r) /\ UNCHANGED descriptors

(* Mutant of SeekFile: a failed seek returns at once.                      *)
SeekReturns(r) ==
  /\ producer[r].stage = "opened"
  /\ \/ ~Cancels(r) /\ Produces(r, "reading") /\ UNCHANGED afcHolder
     \/ EndProducer(r) /\ afcHolder' = 0
  /\ UNCHANGED descriptors

(* The seek fails, or the cancellation is looked at.                       *)
SeekFile(r) ==
  /\ producer[r].stage = "opened"
  /\ \/ ~Cancels(r) /\ Produces(r, "reading")
     \/ Produces(r, "closing")
  /\ UNCHANGED <<afcHolder, descriptors>>

(* A chunk is read, or the loop ends: the range is complete, the session   *)
(* cancelled, the file ends early, or the read fails.                      *)
ReadChunk(r) ==
  /\ producer[r].stage = "reading"
  /\ \/ producer[r].left > 0 /\ ~Cancels(r) /\ Produces(r, "sending")
     \/ Produces(r, "closing")
  /\ UNCHANGED <<afcHolder, descriptors>>

(* Mutant of SendChunk: send() alone, without the select!.                 *)
SendUncancelled(r) ==
  /\ producer[r].stage = "sending"
  /\ \/ ~producer[r].open /\ Produces(r, "closing")
     \/ /\ producer[r].open /\ producer[r].sent < ChannelCapacity
        /\ producer' = [producer EXCEPT ![r].stage = "reading", ![r].left = @ - 1,
                                        ![r].sent = @ + 1]
        /\ UNCHANGED <<present, cleaning, draining, window, videoStreams, cancelled, releasing>>
  /\ UNCHANGED <<afcHolder, descriptors>>

(* Mutant of SendChunk: an unbounded channel.                              *)
SendUnbounded(r) ==
  /\ producer[r].stage = "sending"
  /\ \/ (Cancels(r) \/ ~producer[r].open) /\ Produces(r, "closing")
     \/ /\ producer[r].open
        /\ producer' = [producer EXCEPT ![r].stage = "reading", ![r].left = @ - 1,
                                        ![r].sent = @ + 1]
        /\ UNCHANGED <<present, cleaning, draining, window, videoStreams, cancelled, releasing>>
  /\ UNCHANGED <<afcHolder, descriptors>>

(* Room in the channel, the cancellation, or a receiver that is gone.      *)
SendChunk(r) ==
  /\ producer[r].stage = "sending"
  /\ \/ (Cancels(r) \/ ~producer[r].open) /\ Produces(r, "closing")
     \/ /\ producer[r].open /\ producer[r].sent < ChannelCapacity
        /\ producer' = [producer EXCEPT ![r].stage = "reading", ![r].left = @ - 1,
                                        ![r].sent = @ + 1]
        /\ UNCHANGED <<present, cleaning, draining, window, videoStreams, cancelled, releasing>>
  /\ UNCHANGED <<afcHolder, descriptors>>

(* The descriptor is closed while the mutex is still held.                 *)
CloseFile(r) ==
  /\ producer[r].stage = "closing"
  /\ descriptors' = descriptors \ {r}
  /\ afcHolder' = 0
  /\ EndProducer(r)

(* The response ends with its body, and with it the connection.            *)
ResponseEnds(r) ==
  /\ producer[r].stage = "over" /\ producer[r].open /\ producer[r].sent = 0
  /\ producer' = [producer EXCEPT ![r].open = FALSE]
  /\ UNCHANGED <<present, cleaning, draining, window, videoStreams, cancelled, releasing,
                 afcHolder, descriptors>>

ProducerStep(r) ==
  \/ LockAfc(r) \/ OpenFile(r) \/ SeekFile(r) \/ ReadChunk(r) \/ SendChunk(r)
  \/ CloseFile(r) \/ ResponseEnds(r)

CleaningStep ==
  \/ DrainStreams \/ CleaningEnds
  \/ \E p \in Preview : ShutDownNext(p) \/ ServerEnds(p)

MediaNext ==
  \/ \E p \in Preview :
       \/ StartVideoStream(p) \/ SessionStarts(p) \/ StoreSession(p)
       \/ PauseOrPlay(p) \/ CloseWindow(p) \/ ReleaseVideoStream(p)
       \/ \E r \in MediaRequest : AskForRange(p, r)
  \/ RemovePresent \/ CleaningStep
  \/ \E r \in MediaRequest : DropOlder(r) \/ Consume(r) \/ ProducerStep(r)

(* What a window owes, one thing at a time.                                *)
PreviewStep(p) ==
  \/ SessionStarts(p) \/ StoreSession(p) \/ ReleaseVideoStream(p)
  \/ ~present /\ CloseWindow(p)

ConsumeWhilePlaying(r) ==
  (\E p \in Preview : window[p] = "playing" /\ r \in OpenRequests(p)) /\ Consume(r)

(* The runtime polls its tasks, AFC operations return, a player that plays *)
(* reads, and one that seeks drops the older connection.  The windows of a *)
(* device that is gone are destroyed with its page.  A paused player owes  *)
(* nothing, nor does the user.                                             *)
MediaFairness ==
  /\ \A p \in Preview : WF_mediaVars(PreviewStep(p))
  /\ WF_mediaVars(CleaningStep)
  /\ \A r \in MediaRequest : /\ WF_mediaVars(ProducerStep(r)) /\ WF_mediaVars(DropOlder(r))
                             /\ WF_mediaVars(ConsumeWhilePlaying(r))

MediaSpec == MediaInit /\ [][MediaNext]_mediaVars /\ MediaFairness

-----------------------------------------------------------------------------
(* Properties.                                                             *)

(* However a response ends (cancelled, dropped by the player, a failed     *)
(* open, seek or read), its descriptor is closed, and on the client it was *)
(* opened with: only the holder of the mutex ever has one.                 *)
DescriptorsHeld == \A r \in descriptors : afcHolder = r

(* Losing the device gives the interface back: a second preview that waits *)
(* for the AFC client of a device that is gone stops waiting, although the *)
(* producer that holds it may wait in turn for a player that never reads   *)
(* again (the select! around send(), MediaStreamSession::shutdown).        *)
RemovalUnblocks == (~present /\ QtBlocked) ~> ~QtBlocked

(* A closed window leaves no server behind, whatever the device's removal  *)
(* and the release find of the table: its session is cancelled.            *)
NoStrandedSession ==
  \A p \in Preview : (window[p] = "over" /\ p \in videoStreams) ~> (p \in cancelled)
=============================================================================
