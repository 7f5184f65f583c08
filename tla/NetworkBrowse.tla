---------------------------- MODULE NetworkBrowse ----------------------------
(***************************************************************************)
(* Discovery of devices on the network, src/network_device_provider.rs.    *)
(* Every start of browsing has a number, its generation, and a blocking    *)
(* thread that ends once it is not the current one; what the thread        *)
(* reports is queued for the Qt thread, which looks at the number again.   *)
(* A device has the number of the generation that reported it, which the   *)
(* program does not keep.                                                  *)
(***************************************************************************)
EXTENDS Naturals, Sequences

CONSTANTS
  Mac,             \* the devices' hardware addresses, by which they are listed
  MaxGeneration,   \* bound: the last generation
  MaxEvent         \* bound: how many reports wait for the Qt thread

ASSUME BrowseAssumption == MaxGeneration \in Nat \ {0} /\ MaxEvent \in Nat

VARIABLES
  generation,   \* the current generation
  configured,   \* configured_backend
  discovery,    \* state
  browser,      \* the threads
  found,        \* devices: the generation that reported each, 0 for none
  events        \* closures that wait for the Qt thread

browseVars == <<generation, configured, discovery, browser, found, events>>

Generation == 1 .. MaxGeneration
Selection == {"auto", "native", "rust"}

(* "native", "rust": browse_services has not returned; "polling": it has.  *)
Browser == [selection : Selection, backend : {"native", "rust"},
            stage : {"none", "starting", "polling", "over"}]

Event == [what : {"started", "failed"}, generation : Generation]
         \cup [what : {"add", "remove"}, generation : Generation, mac : Mac]

BrowseTypeOK ==
  /\ generation \in 0 .. MaxGeneration
  /\ configured \in Selection
  /\ discovery \in {"loading", "started", "failed"}
  /\ browser \in [Generation -> Browser]
  /\ found \in [Mac -> 0 .. MaxGeneration]
  /\ events \in Seq(Event)

Thread(selection, stage) ==
  [selection |-> selection, backend |-> IF selection = "rust" THEN "rust" ELSE "native",
   stage |-> stage]

BrowseInit ==
  /\ generation = 0
  /\ configured \in Selection
  /\ discovery = "loading"
  /\ browser = [g \in Generation |-> Thread("auto", "none")]
  /\ found = [m \in Mac |-> 0]
  /\ events = <<>>

-----------------------------------------------------------------------------
(* The Qt thread.                                                          *)

StartInner(g, selection) ==
  /\ g \in Generation
  /\ generation' = g
  /\ discovery' = "loading"
  /\ browser' = [browser EXCEPT ![g] = Thread(selection, "starting")]

(* startBrowsing, which the main window calls once.                        *)
StartBrowsing ==
  /\ generation = 0
  /\ StartInner(1, configured)
  /\ UNCHANGED <<configured, found, events>>

(* stop_and_clear takes one number, and the start after it another.        *)
RestartBrowsing ==
  /\ discovery = "failed"
  /\ StartInner(generation + 2, configured)
  /\ found' = [m \in Mac |-> 0]
  /\ UNCHANGED <<configured, events>>

(* Mutant of SetBackend: the threads before it stay current.               *)
SetBackendOnly(selection) ==
  /\ generation > 0 /\ selection # configured
  /\ configured' = selection
  /\ found' = [m \in Mac |-> 0]
  /\ discovery' = "loading"
  /\ UNCHANGED <<generation, browser, events>>

SetBackend(selection) ==
  /\ generation > 0 /\ selection # configured
  /\ configured' = selection
  /\ StartInner(generation + 2, selection)
  /\ found' = [m \in Mac |-> 0]
  /\ UNCHANGED events

(* add_device, and remove_device: a service is found by its name, or else  *)
(* by the address in front of it.                                          *)
FoundAfter(e) == [found EXCEPT ![e.mac] = IF e.what = "add" THEN e.generation ELSE 0]

(* Mutant of IsCurrentEvent: only the thread looks.                        *)
AnyEvent(e) == TRUE

IsCurrentEvent(e) == e.generation = generation

RunEvent ==
  /\ events # <<>>
  /\ events' = Tail(events)
  /\ LET e == Head(events)
     IN \/ ~IsCurrentEvent(e) /\ UNCHANGED <<discovery, found>>
        \/ /\ IsCurrentEvent(e) /\ e.what \in {"started", "failed"}
           /\ discovery' = e.what
           /\ UNCHANGED found
        \/ /\ IsCurrentEvent(e) /\ e.what \in {"add", "remove"}
           /\ found' = FoundAfter(e)
           /\ UNCHANGED discovery
  /\ UNCHANGED <<generation, configured, browser>>

-----------------------------------------------------------------------------
(* The threads.                                                            *)

BrowsingAt(g, stage) == browser[g].stage = stage

Queue(e) == Len(events) < MaxEvent /\ events' = Append(events, e)

BrowseServices(g) ==
  /\ BrowsingAt(g, "starting")
  /\ browser' = [browser EXCEPT ![g].stage = "polling"]
  /\ Queue([what |-> "started", generation |-> g])
  /\ UNCHANGED <<generation, configured, discovery, found>>

(* The service callback.                                                   *)
ServiceEvent(g, what, m) ==
  /\ BrowsingAt(g, "polling") /\ g = generation
  /\ Queue([what |-> what, generation |-> g, mac |-> m])
  /\ UNCHANGED <<generation, configured, discovery, browser, found>>

(* Mutant of BrowserFails: "auto" has no second backend.                   *)
BrowserGivesUp(g) ==
  /\ browser[g].stage \in {"starting", "polling"}
  /\ browser' = [browser EXCEPT ![g].stage = "over"]
  /\ IF g = generation /\ browser[g].selection # "auto"
     THEN Queue([what |-> "failed", generation |-> g]) ELSE UNCHANGED events
  /\ UNCHANGED <<generation, configured, discovery, found>>

(* An error: the pure-Rust backend is tried after the native one when the  *)
(* choice is left to the program; else the failure is reported.            *)
BrowserFails(g) ==
  /\ browser[g].stage \in {"starting", "polling"}
  /\ IF g = generation /\ browser[g].selection = "auto" /\ browser[g].backend = "native"
     THEN /\ browser' = [browser EXCEPT ![g].stage = "starting", ![g].backend = "rust"]
          /\ UNCHANGED events
     ELSE /\ browser' = [browser EXCEPT ![g].stage = "over"]
          /\ IF g = generation THEN Queue([what |-> "failed", generation |-> g])
             ELSE UNCHANGED events
  /\ UNCHANGED <<generation, configured, discovery, found>>

BrowserEnds(g) ==
  /\ BrowsingAt(g, "polling") /\ g # generation
  /\ browser' = [browser EXCEPT ![g].stage = "over"]
  /\ UNCHANGED <<generation, configured, discovery, found, events>>

BrowseNext ==
  \/ StartBrowsing \/ RestartBrowsing \/ RunEvent
  \/ \E selection \in Selection : SetBackend(selection)
  \/ \E g \in Generation :
       \/ BrowseServices(g) \/ BrowserFails(g) \/ BrowserEnds(g)
       \/ \E what \in {"add", "remove"}, m \in Mac : ServiceEvent(g, what, m)

BrowseSpec == BrowseInit /\ [][BrowseNext]_browseVars

-----------------------------------------------------------------------------
(* Properties.                                                             *)

(* After another backend was chosen or browsing restarted, no device of    *)
(* the browsing before is listed, although its thread goes on for a while  *)
(* and its reports may wait in the queue (BrowseContext::is_current).      *)
NoStaleDevice == \A m \in Mac : found[m] \in {0, generation}

FailureQueued ==
  \E i \in DOMAIN events : events[i] = [what |-> "failed", generation |-> generation]

(* The state is true of the current browsing: "failed" and its button to   *)
(* try again mean that nothing browses, and otherwise something does, or   *)
(* its failure is on its way.  A report of an earlier browsing, or a       *)
(* fallback that nobody hears of, would leave the window waiting for ever. *)
StateTruthful ==
  generation > 0 =>
    LET on == browser[generation].stage \in {"starting", "polling"}
    IN IF discovery = "failed" THEN ~on ELSE on \/ FailureQueued
=============================================================================
