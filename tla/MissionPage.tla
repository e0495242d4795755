---------------------------- MODULE MissionPage ----------------------------
(***************************************************************************)
(* The upload panel of a mission's page.  It puts image files straight     *)
(* into storage, writes every one it has put into a cache in the browser's *)
(* localStorage, and then sends the whole cache to the server, which       *)
(* ingests it in one transaction.  The cache is what a user has left when  *)
(* the page is closed or the ingestion fails before that.                  *)
(*                                                                         *)
(* Tabs are the instances of the page: browser tabs, and also a page left  *)
(* by a link, whose upload runs on with nothing to click.  They share the  *)
(* cache.  The cache write does not fail (localStorage is not full).       *)
(***************************************************************************)
EXTENDS FiniteSets, Integers

CONSTANTS
  Files,        \* names of image files the panel accepts
  Tabs          \* instances of the mission's page

ASSUME MissionPageAssumption == IsFiniteSet(Files)

VARIABLES
  tab,          \* what each instance holds
  cache,        \* localStorage: files put into storage and not yet ingested
  uploaded,     \* files an instance has put into storage
  ingested,     \* files with a mission_images row
  second,       \* history: an instance was opened beside another
  disturbed     \* history: a reset, a stale cache, or two runs at once

history == <<second, disturbed>>
panelVars == <<tab, cache, uploaded, ingested, second, disturbed>>

\* ingestedCount: one the page has, none, or one it has asked the server for.
Counts == 0..Cardinality(Files)
None == -1
Asked == -2

\* at: loading, idle, initiating, putting, completing or answered; page: the count
\* the page was rendered with, seen: the one the panel last saw.
Away == [at |-> "away", page |-> None, seen |-> None,
         pending |-> {}, listed |-> FALSE, queue |-> {}, memory |-> {},
         offered |-> FALSE, summary |-> FALSE, error |-> FALSE]

PanelInit ==
  /\ tab = [t \in Tabs |-> Away]
  /\ cache = {}
  /\ uploaded = {}
  /\ ingested = {}
  /\ second = FALSE
  /\ disturbed = FALSE

Running(t) == tab[t].at \in {"initiating", "putting", "completing", "answered"}
Mounted(t) == tab[t].at = "idle" \/ Running(t)
Put(t, record) == tab' = [tab EXCEPT ![t] = record]
Idle(t, failed) == [tab[t] EXCEPT !.at = "idle", !.error = failed,
                                  !.queue = {}, !.memory = {}]
Server == <<uploaded, ingested>>

\* cachedNeedsIngest, and a button that calls start and is not disabled.
NeedsIngest(t) == tab[t].offered /\ ~tab[t].summary
StartEnabled(t) ==
  /\ tab[t].at = "idle"
  /\ tab[t].error \/ tab[t].pending # {} \/ NeedsIngest(t)

-----------------------------------------------------------------------------
(* The page: loaded or refreshed, its count read by the server, rendered.  *)

Open(t) ==
  /\ tab[t] = Away
  /\ Put(t, [Away EXCEPT !.at = "loading", !.page = Asked])
  /\ second' = (second \/ \E u \in Tabs \ {t} : tab[u] # Away)
  /\ UNCHANGED <<cache, Server, disturbed>>

ReadCount(t) ==
  /\ tab[t].page = Asked
  /\ Put(t, [tab[t] EXCEPT !.page = Cardinality(ingested)])
  /\ UNCHANGED <<cache, Server, history>>

\* The effect on cacheKey and ingestedCount.
RenderPage(t) ==
  LET count == tab[t].page
      stale == count = 0 /\ cache # {}
      fresh == [tab[t] EXCEPT !.page = None, !.seen = count,
                  !.at = IF @ = "loading" THEN "idle" ELSE @]
  IN
  /\ count \in Counts
  /\ IF count = tab[t].seen
       THEN Put(t, fresh) /\ UNCHANGED <<cache, disturbed>>
       ELSE /\ Put(t, [fresh EXCEPT !.offered = cache # {} /\ ~stale])
            /\ cache' = IF stale THEN {} ELSE cache
            /\ disturbed' = (disturbed \/ stale)
  /\ UNCHANGED <<Server, second>>

\* The tab is closed or reloaded; a request it has sent may still commit.
Close(t) ==
  /\ tab[t] # Away
  /\ Put(t, Away)
  /\ \/ UNCHANGED ingested
     \/ tab[t].at = "completing" /\ ingested' = ingested \cup tab[t].memory
  /\ UNCHANGED <<cache, uploaded, history>>

-----------------------------------------------------------------------------
(* What the user does on it.                                               *)

AddFiles(t, f) ==
  /\ Mounted(t)
  /\ Put(t, [tab[t] EXCEPT !.pending = @ \cup {f}, !.listed = TRUE])
  /\ UNCHANGED <<cache, Server, history>>

\* Offered while a run is under way too, which goes on with what it holds.
ResetState(t) ==
  /\ Mounted(t)
  /\ tab[t].error \/ (NeedsIngest(t) /\ ~tab[t].listed)
  /\ Put(t, [tab[t] EXCEPT !.offered = FALSE, !.pending = {}, !.listed = FALSE,
                           !.error = FALSE, !.summary = FALSE])
  /\ cache' = {}
  /\ disturbed' = TRUE
  /\ UNCHANGED <<Server, second>>

\* Mutant: the run forgets what earlier runs have put.
StartUpload_Afresh(t) ==
  /\ StartEnabled(t)
  /\ Put(t, [tab[t] EXCEPT !.summary = FALSE, !.error = FALSE, !.memory = {},
                           !.queue = tab[t].pending,
                           !.at = IF tab[t].pending # {} THEN "initiating" ELSE "putting"])
  /\ disturbed' = (disturbed \/ \E u \in Tabs : Running(u))
  /\ UNCHANGED <<cache, Server, second>>

StartUpload(t) ==
  /\ StartEnabled(t)
  /\ Put(t, [tab[t] EXCEPT !.summary = FALSE, !.error = FALSE, !.memory = cache,
                           !.queue = tab[t].pending,
                           !.at = IF tab[t].pending # {} THEN "initiating" ELSE "putting"])
  /\ disturbed' = (disturbed \/ \E u \in Tabs : Running(u))
  /\ UNCHANGED <<cache, Server, second>>

-----------------------------------------------------------------------------
(* The run of start.                                                       *)

\* The panel has rejected what the server would, so it accepts every file.
Initiated(t) ==
  /\ tab[t].at = "initiating"
  /\ Put(t, [tab[t] EXCEPT !.at = "putting"])
  /\ UNCHANGED <<cache, Server, history>>

FileStored(t, f) ==
  LET memory == tab[t].memory \cup {f} IN
  /\ tab[t].at = "putting" /\ f \in tab[t].queue
  /\ Put(t, [tab[t] EXCEPT !.queue = @ \ {f}, !.pending = @ \ {f}, !.memory = memory])
  /\ uploaded' = uploaded \cup {f}
  /\ cache' = memory
  /\ UNCHANGED <<ingested, history>>

FileFailed(t, f) ==
  /\ tab[t].at = "putting" /\ f \in tab[t].queue
  /\ Put(t, [tab[t] EXCEPT !.queue = @ \ {f}, !.pending = @ \ {f}])
  /\ UNCHANGED <<cache, Server, history>>

\* The manifest is what the run holds; with nothing in it the run ends.
SendManifest(t) ==
  /\ tab[t].at = "putting" /\ tab[t].queue = {}
  /\ IF tab[t].memory = {} THEN Put(t, Idle(t, FALSE))
                           ELSE Put(t, [tab[t] EXCEPT !.at = "completing"])
  /\ UNCHANGED <<cache, Server, history>>

\* UploadService.complete, in its transaction.
Complete(t) ==
  /\ tab[t].at = "completing"
  /\ Put(t, [tab[t] EXCEPT !.at = "answered"])
  /\ ingested' = ingested \cup tab[t].memory
  /\ UNCHANGED <<cache, uploaded, history>>

Completed(t) ==
  /\ tab[t].at = "answered"
  /\ Put(t, [Idle(t, FALSE) EXCEPT !.summary = TRUE, !.offered = FALSE, !.page = Asked])
  /\ cache' = {}
  /\ UNCHANGED <<Server, history>>

\* initiate or complete is refused, or its answer is lost.
Failed(t) ==
  /\ tab[t].at \in {"initiating", "completing", "answered"}
  /\ Put(t, Idle(t, TRUE))
  /\ UNCHANGED <<cache, Server, history>>

PanelNext == \E t \in Tabs :
  \/ Open(t) \/ ReadCount(t) \/ RenderPage(t) \/ Close(t)
  \/ ResetState(t) \/ StartUpload(t)
  \/ Initiated(t) \/ SendManifest(t) \/ Complete(t) \/ Completed(t) \/ Failed(t)
  \/ \E f \in Files : AddFiles(t, f) \/ FileStored(t, f) \/ FileFailed(t, f)

PanelSpec == PanelInit /\ [][PanelNext]_panelVars

-----------------------------------------------------------------------------
(* Properties.                                                             *)

(* The page resumes what it has uploaded.  Unless the user resets it, a    *)
(* page is loaded while the mission has no ingested image, or two runs     *)
(* overlap, a file that was uploaded is ingested or still in the cache;    *)
(* and the only instance of the page offers to ingest it whenever it is    *)
(* not busy doing so.                                                      *)
Remembered == ~disturbed => uploaded \subseteq ingested \cup cache
Offered ==
  ~disturbed /\ ~second =>
    \A t \in Tabs : tab[t].at = "idle" /\ ~(uploaded \subseteq ingested) => StartEnabled(t)
UploadsAreRemembered == Remembered /\ Offered
=============================================================================
