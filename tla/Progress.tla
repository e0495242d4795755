------------------------------ MODULE Progress ------------------------------
(***************************************************************************)
(* Live progress of one job: the worker writes the row and publishes on a  *)
(* Redis channel, the gateway relays to the sockets that have joined the   *)
(* job's room, and each monitor shows the last status it was sent.  The    *)
(* channel and the sockets keep order but lose what they carry when they   *)
(* break.                                                                  *)
(***************************************************************************)
EXTENDS Sequences, SequencesExt

CONSTANT Monitors     \* open job pages

VARIABLES
  row,          \* the status in the job's row, "GONE" once deleted
  worker,       \* the next line of the worker's script, what it owes the channel
  channel,      \* messages on their way from Redis to the gateway
  link,         \* the gateway's subscription is connected
  lost,         \* history: statuses whose message was lost on the way there
  socket,       \* each monitor's connection and how far its subscription is
  shown         \* the status each monitor shows

progressVars == <<row, worker, channel, link, lost, socket, shown>>

Verdicts == {"COMPLETE", "FAILED"}
Statuses == {"SUBMITTED", "INITIALIZING", "FEATURE_EXTRACTION",
             "ORTHOMOSAIC_GENERATION", "POST_PROCESSING", "CANCELLED"} \cup Verdicts
Nothing == "nothing"

\* What a run writes and tells, in order; one poll stands for the loop.
Line(status, writes, tells) == [status |-> status, writes |-> writes, tells |-> tells]
Script ==
  << Line("INITIALIZING", TRUE, TRUE), Line("FEATURE_EXTRACTION", TRUE, FALSE),
     Line("ORTHOMOSAIC_GENERATION", TRUE, TRUE),
     Line("POST_PROCESSING", FALSE, TRUE), Line("COMPLETE", TRUE, TRUE) >>
Finished == Len(Script) + 1
Over == Finished + 1   \* the run has failed, or is gone

\* state: opening, open, dropped (socket.io will try again), cut (the server
\* hung up: it will not), or closed; sub: how far the subscription is.
Opening == [state |-> "opening", checked |-> FALSE, sub |-> "none",
            snapshot |-> Nothing, missed |-> FALSE, down |-> <<>>]

ProgressInit ==
  /\ row = "SUBMITTED"
  /\ worker = [at |-> 1, owes |-> Nothing]
  /\ channel = <<>>
  /\ link = TRUE
  /\ lost = {}
  /\ socket = [m \in Monitors |-> Opening]
  /\ shown = [m \in Monitors |-> row]

-----------------------------------------------------------------------------
(* The worker, and the job's other writers.                                *)

\* An update of a deleted row matches nothing.
Write ==
  LET line == Script[worker.at] IN
  /\ worker.at < Finished
  /\ worker.owes = Nothing
  /\ row' = IF line.writes /\ row # "GONE" THEN line.status ELSE row
  /\ worker' = [at |-> worker.at + 1,
                owes |-> IF line.tells THEN line.status ELSE Nothing]
  /\ UNCHANGED <<channel, link, lost, socket, shown>>

Untold == IF worker.owes = Nothing THEN {} ELSE {worker.owes}

\* _fail: from any line of the run, when Redis refuses too, and in some tasks
\* even when COMPLETE is written already.
WriteFailed ==
  /\ worker.at \in 2 .. Finished
  /\ row' = IF row # "GONE" THEN "FAILED" ELSE row
  /\ worker' = [at |-> Over, owes |-> "FAILED"]
  /\ lost' = lost \cup Untold
  /\ UNCHANGED <<channel, link, socket, shown>>

\* Redis forgets a message nobody is subscribed to.
Publish ==
  /\ worker.owes # Nothing
  /\ channel' = IF link THEN Append(channel, worker.owes) ELSE channel
  /\ lost' = IF link THEN lost ELSE lost \cup {worker.owes}
  /\ worker' = [worker EXCEPT !.owes = Nothing]
  /\ UNCHANGED <<row, link, socket, shown>>

\* Redis refuses, which ends the run; or the worker is killed.
RunEnds ==
  /\ worker.at # 1
  /\ worker # [at |-> Over, owes |-> Nothing]
  /\ worker' = [at |-> Over, owes |-> Nothing]
  /\ lost' = lost \cup Untold
  /\ UNCHANGED <<row, channel, link, socket, shown>>

\* The API writes the row and tells nobody.
Cancel ==
  /\ row \notin Verdicts \cup {"CANCELLED", "GONE"}
  /\ row' = "CANCELLED"
  /\ UNCHANGED <<worker, channel, link, lost, socket, shown>>

DeleteJob ==
  /\ row # "GONE"
  /\ row' = "GONE"
  /\ UNCHANGED <<worker, channel, link, lost, socket, shown>>

-----------------------------------------------------------------------------
(* The gateway.                                                            *)

LinkBreaks ==
  /\ link
  /\ link' = FALSE
  /\ lost' = lost \cup ToSet(channel)
  /\ channel' = <<>>
  /\ UNCHANGED <<row, worker, socket, shown>>

LinkReturns ==
  /\ ~link
  /\ link' = TRUE
  /\ UNCHANGED <<row, worker, channel, lost, socket, shown>>

\* afterInit: the message goes to the sockets in the room; one that has read
\* its snapshot and not yet joined misses it.
Relay ==
  /\ channel # <<>>
  /\ channel' = Tail(channel)
  /\ socket' = [m \in Monitors |->
       CASE socket[m].sub = "joined" ->
              [socket[m] EXCEPT !.down = Append(socket[m].down, Head(channel))]
         [] socket[m].sub = "read" -> [socket[m] EXCEPT !.missed = TRUE]
         [] OTHER -> socket[m]]
  /\ UNCHANGED <<row, worker, link, lost, shown>>

\* handleConnection, which nobody waits for.
HandshakePasses(m) ==
  /\ socket[m].state = "open" /\ ~socket[m].checked
  /\ socket' = [socket EXCEPT ![m].checked = TRUE]
  /\ UNCHANGED <<row, worker, channel, link, lost, shown>>

HandshakeFails(m) ==
  /\ socket[m].state = "open" /\ ~socket[m].checked
  /\ socket' = [socket EXCEPT ![m] = [Opening EXCEPT !.state = "cut"]]
  /\ UNCHANGED <<row, worker, channel, link, lost, shown>>

\* Mutant: an early subscription is ignored.
Subscribe_Ignored(m) ==
  /\ socket[m].sub = "sent"
  /\ socket' = [socket EXCEPT ![m] =
       IF ~socket[m].checked THEN [socket[m] EXCEPT !.sub = "none"]
       ELSE IF row = "GONE" THEN [socket[m] EXCEPT !.sub = "refused"]
       ELSE [socket[m] EXCEPT !.sub = "read", !.snapshot = row]]
  /\ UNCHANGED <<row, worker, channel, link, lost, shown>>

\* onSubscribe: a subscription before the end of the handshake is hung up on;
\* one to a job that is gone is refused; else the row is read.
Subscribe(m) ==
  /\ socket[m].sub = "sent"
  /\ socket' = [socket EXCEPT ![m] =
       IF ~socket[m].checked THEN [Opening EXCEPT !.state = "cut"]
       ELSE IF row = "GONE" THEN [socket[m] EXCEPT !.sub = "refused"]
       ELSE [socket[m] EXCEPT !.sub = "read", !.snapshot = row]]
  /\ UNCHANGED <<row, worker, channel, link, lost, shown>>

\* Mutant: the snapshot is not sent.
Join_NoSnapshot(m) ==
  /\ socket[m].sub = "read"
  /\ socket' = [socket EXCEPT ![m] =
       [socket[m] EXCEPT !.sub = "joined", !.snapshot = Nothing]]
  /\ UNCHANGED <<row, worker, channel, link, lost, shown>>

\* It joins the room and is sent what was read.
Join(m) ==
  /\ socket[m].sub = "read"
  /\ socket' = [socket EXCEPT ![m] =
       [socket[m] EXCEPT !.sub = "joined", !.snapshot = Nothing,
                         !.down = Append(socket[m].down, socket[m].snapshot)]]
  /\ UNCHANGED <<row, worker, channel, link, lost, shown>>

-----------------------------------------------------------------------------
(* The monitor.                                                            *)

\* The page is rendered with the row; an error page for a job that is gone.
Load(m) ==
  /\ row # "GONE"
  /\ socket' = [socket EXCEPT ![m] = Opening]
  /\ shown' = [shown EXCEPT ![m] = row]
  /\ UNCHANGED <<row, worker, channel, link, lost>>

\* Every connection subscribes at once.
Connect(m) ==
  /\ socket[m].state \in {"opening", "dropped"}
  /\ socket' = [socket EXCEPT ![m] = [Opening EXCEPT !.state = "open", !.sub = "sent"]]
  /\ UNCHANGED <<row, worker, channel, link, lost, shown>>

\* No token, or no attempts left.
GiveUp(m) ==
  /\ socket[m].state \in {"opening", "dropped"}
  /\ socket' = [socket EXCEPT ![m] = [Opening EXCEPT !.state = "closed"]]
  /\ UNCHANGED <<row, worker, channel, link, lost, shown>>

Drop(m) ==
  /\ socket[m].state = "open"
  /\ socket' = [socket EXCEPT ![m] = [Opening EXCEPT !.state = "dropped"]]
  /\ UNCHANGED <<row, worker, channel, link, lost, shown>>

\* 'subscribed' and 'progress' are shown alike.
Receive(m) ==
  /\ socket[m].down # <<>>
  /\ shown' = [shown EXCEPT ![m] = Head(socket[m].down)]
  /\ socket' = [socket EXCEPT ![m].down = Tail(socket[m].down)]
  /\ UNCHANGED <<row, worker, channel, link, lost>>

Gateway(m) == HandshakePasses(m) \/ Subscribe(m) \/ Join(m)

ProgressNext ==
  \/ Write \/ WriteFailed \/ Publish \/ RunEnds \/ Cancel \/ DeleteJob
  \/ LinkBreaks \/ LinkReturns \/ Relay
  \/ \E m \in Monitors :
       \/ Gateway(m) \/ HandshakeFails(m)
       \/ Load(m) \/ Connect(m) \/ GiveUp(m) \/ Drop(m) \/ Receive(m)

\* The run goes on, and what is connected moves messages along.
ProgressSpec ==
  /\ ProgressInit
  /\ [][ProgressNext]_progressVars
  /\ WF_progressVars(Write \/ Publish)
  /\ WF_progressVars(Relay)
  /\ \A m \in Monitors : WF_progressVars(Gateway(m)) /\ WF_progressVars(Receive(m))

-----------------------------------------------------------------------------
(* Properties.                                                             *)

\* What a monitor shows once everything on its way has arrived.
Due(m) ==
  Last(<<shown[m]>> \o socket[m].down \o channel \o
       (IF worker.owes = Nothing THEN <<>> ELSE <<worker.owes>>))

\* A joined monitor that missed nothing shows the worker's verdict in the end,
\* though older messages may arrive after a newer snapshot (onSubscribe reads
\* the row first and joins afterwards; the worker writes first and publishes
\* afterwards).
VerdictIsDue ==
  \A m \in Monitors :
    /\ row \in Verdicts \ lost
    /\ socket[m].sub = "joined" /\ ~socket[m].missed
    => Due(m) = row

\* A connection that stays up to the end shows the end: the verdict, unless
\* its message was lost, or it was cancelled or deleted, which nobody is told.
SteadyMonitorSettles ==
  \A m \in Monitors :
    <>[](socket[m].state = "open") =>
      <>[](\/ shown[m] = row
           \/ row \notin Verdicts
           \/ row \in lost \/ socket[m].missed)
=============================================================================
