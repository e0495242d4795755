-------------------------------- MODULE Lists --------------------------------
(***************************************************************************)
(* The two tables of the web application that the user edits in place: the *)
(* jobs and the API keys.  A table is a copy of what the server listed     *)
(* when the page was rendered; every operation is a call, several of which *)
(* may be under way, and its answer changes the copy as it is by then.     *)
(* Jobs move on the server meanwhile, and refresh() keeps the copy.        *)
(*                                                                         *)
(* A call whose page was left goes on without anyone to answer.  Creating  *)
(* and listing of jobs and the keys' use are in JobApi and Access.         *)
(***************************************************************************)
EXTENDS FiniteSets

CONSTANTS
  TableJobs,   \* ids of jobs
  KeyIds,      \* ids of API keys
  Calls,       \* calls that are under way at the same time
  NoId         \* "no id"

VARIABLES
  jobRow,      \* jobs: none, active or terminal
  keyRow,      \* api_keys: none, active or revoked
  page,        \* the page that is open
  call,        \* the calls
  risen        \* history: jobs that were deleted, and that a stale save made again

listVars == <<jobRow, keyRow, page, call, risen>>

\* listed, swept, gone: history of this page: what it has shown, what the sweep
\* took from the table, and what it was told is deleted or revoked.
Closed == [at |-> "closed", jobs |-> [j \in TableJobs |-> "none"], busy |-> "none",
           keys |-> {}, creating |-> FALSE, revealed |-> NoId,
           listed |-> {}, swept |-> {}, gone |-> {}]
Free == [op |-> "none", id |-> NoId, todo |-> {}, at |-> "free", lost |-> FALSE]

ListsInit ==
  /\ jobRow = [j \in TableJobs |-> "active"]
  /\ keyRow = [k \in KeyIds |-> "none"]
  /\ page = Closed
  /\ call = [c \in Calls |-> Free]
  /\ risen = {}

Active == {k \in KeyIds : keyRow[k] = "active"}
Terminal == {j \in TableJobs : page.jobs[j] = "terminal"}
ShownJobs == {j \in TableJobs : page.jobs[j] # "none"}
Sent(c, op, id, todo) ==
  /\ call[c] = Free
  /\ call' = [call EXCEPT ![c] = [Free EXCEPT !.op = op, !.id = id, !.todo = todo,
                                              !.at = "sent"]]
Under(c, op) == call[c].op = op /\ call[c].at = "sent"
Settle(c, at) == call' = [call EXCEPT ![c].at = at]
Done(c, op) == call[c].op = op /\ call[c].at \in {"done", "failed"} /\ ~call[c].lost
Ok(c) == call[c].at = "done"
Release(c) == call' = [call EXCEPT ![c] = Free]
Server == <<jobRow, keyRow, risen>>
Gone(j) == jobRow' = [jobRow EXCEPT ![j] = "none"] /\ risen' = risen \ {j}

-----------------------------------------------------------------------------
(* The page.                                                               *)

OpenList(at) ==
  /\ page = Closed
  /\ page' = IF at = "jobs"
             THEN [Closed EXCEPT !.at = at, !.jobs = jobRow,
                                 !.listed = {j \in TableJobs : jobRow[j] # "none"}]
             ELSE [Closed EXCEPT !.at = at, !.keys = Active, !.listed = Active]
  /\ UNCHANGED <<Server, call>>

CloseList ==
  /\ page # Closed
  /\ page' = Closed
  /\ call' = [c \in Calls |-> IF call[c].at \in {"sent", "saving"}
                              THEN [call[c] EXCEPT !.lost = TRUE] ELSE Free]
  /\ UNCHANGED Server

\* One identifier is busy at a time: another operation takes the mark over.
OnCancel(c, j) ==
  /\ page.jobs[j] = "active" /\ page.busy # j
  /\ page' = [page EXCEPT !.busy = j]
  /\ Sent(c, "cancel", j, {})
  /\ UNCHANGED Server

OnDelete(c, j) ==
  /\ page.jobs[j] # "none" /\ page.busy # j
  /\ page' = [page EXCEPT !.busy = j]
  /\ Sent(c, "delete", j, {})
  /\ UNCHANGED Server

OnClearAllTerminal(c) ==
  /\ Terminal # {} /\ page.busy # "__bulk__"
  /\ page' = [page EXCEPT !.busy = "__bulk__"]
  /\ Sent(c, "clear", NoId, Terminal)
  /\ UNCHANGED Server

OnCreate(c) ==
  /\ page.at = "keys" /\ ~page.creating
  /\ page' = [page EXCEPT !.creating = TRUE]
  /\ Sent(c, "create", NoId, {})
  /\ UNCHANGED Server

OnRevoke(c, k) ==
  /\ k \in page.keys
  /\ Sent(c, "revoke", k, {})
  /\ UNCHANGED <<Server, page>>

Dismiss ==
  /\ page.revealed # NoId
  /\ page' = [page EXCEPT !.revealed = NoId]
  /\ UNCHANGED <<Server, call>>

-----------------------------------------------------------------------------
(* The server.                                                             *)

\* A worker writes statuses without looking at the row, over CANCELLED too.
JobMoves(j) ==
  /\ jobRow[j] # "none"
  /\ jobRow' = [jobRow EXCEPT ![j] = IF @ = "active" THEN "terminal" ELSE "active"]
  /\ UNCHANGED <<keyRow, page, call, risen>>

\* cancel() reads the row and saves what it read, as JobApi has it: a row that
\* was deleted in between is made again.
CancelRead(c) ==
  /\ Under(c, "cancel")
  /\ Settle(c, IF jobRow[call[c].id] = "active" THEN "saving" ELSE "failed")
  /\ UNCHANGED <<Server, page>>

CancelSave(c) ==
  LET j == call[c].id IN
  /\ call[c].at = "saving"
  /\ jobRow' = [jobRow EXCEPT ![j] = "terminal"]
  /\ risen' = IF jobRow[j] = "none" THEN risen \cup {j} ELSE risen
  /\ Settle(c, "done")
  /\ UNCHANGED <<keyRow, page>>

\* The row's status and its removal are one step, as JobApi.Remove has them.
Delete(c) ==
  LET j == call[c].id IN
  /\ Under(c, "delete")
  /\ IF jobRow[j] # "none"
     THEN Gone(j) /\ Settle(c, "done")
     ELSE UNCHANGED <<jobRow, risen>> /\ Settle(c, "failed")
  /\ UNCHANGED <<keyRow, page>>

\* One call for each identifier; a refusal does not stop the sweep.
SweepOne(c) ==
  /\ Under(c, "clear")
  /\ \E j \in call[c].todo :
       /\ Gone(j) \/ UNCHANGED <<jobRow, risen>>
       /\ call' = [call EXCEPT ![c].todo = @ \ {j},
                               ![c].at = IF call[c].todo = {j} THEN "done" ELSE @]
  /\ UNCHANGED <<keyRow, page>>

Create(c) ==
  /\ Under(c, "create")
  /\ \E k \in KeyIds :
       /\ keyRow[k] = "none"
       /\ keyRow' = [keyRow EXCEPT ![k] = "active"]
       /\ call' = [call EXCEPT ![c].id = k, ![c].at = "done"]
  /\ UNCHANGED <<jobRow, page, risen>>

Revoke(c) ==
  /\ Under(c, "revoke")
  /\ keyRow' = [keyRow EXCEPT ![call[c].id] = "revoked"]
  /\ Settle(c, "done")
  /\ UNCHANGED <<jobRow, page, risen>>

\* The call is refused or does not arrive, or its answer does not.
NotAnswered(c) ==
  /\ call[c].at \in {"sent", "done"} /\ ~call[c].lost
  /\ Settle(c, "failed")
  /\ UNCHANGED <<Server, page>>

Dropped(c) ==
  /\ call[c].lost
  /\ Release(c)
  /\ UNCHANGED <<Server, page>>

-----------------------------------------------------------------------------
(* The answers.                                                            *)

\* Mutant: the answer is put into the table, and not in its row's place.
Cancelled_Puts(c) ==
  /\ Done(c, "cancel")
  /\ page' = [page EXCEPT !.busy = "none",
                          !.jobs[call[c].id] = IF Ok(c) THEN "terminal" ELSE @]
  /\ Release(c)
  /\ UNCHANGED Server

Cancelled(c) ==
  /\ Done(c, "cancel")
  /\ page' = [page EXCEPT !.busy = "none",
                !.jobs[call[c].id] = IF Ok(c) /\ @ # "none" THEN "terminal" ELSE @]
  /\ Release(c)
  /\ UNCHANGED Server

Deleted(c) ==
  /\ Done(c, "delete")
  /\ page' = IF Ok(c)
             THEN [page EXCEPT !.busy = "none", !.jobs[call[c].id] = "none",
                               !.gone = @ \cup {call[c].id}]
             ELSE [page EXCEPT !.busy = "none"]
  /\ Release(c)
  /\ UNCHANGED Server

\* Every job that is terminal by now leaves the table, deleted or not.  When the
\* network fails, nothing catches it: the table stays as it is, and marked.
Swept(c) ==
  /\ Done(c, "clear")
  /\ page' = IF Ok(c)
             THEN [page EXCEPT !.busy = "none", !.swept = @ \cup Terminal,
                     !.jobs = [j \in TableJobs |-> IF j \in Terminal THEN "none" ELSE @[j]]]
             ELSE page
  /\ Release(c)
  /\ UNCHANGED Server

Created(c) ==
  LET k == call[c].id IN
  /\ Done(c, "create")
  /\ page' = IF Ok(c)
             THEN [page EXCEPT !.creating = FALSE, !.keys = @ \cup {k},
                               !.listed = @ \cup {k}, !.revealed = k]
             ELSE [page EXCEPT !.creating = FALSE]
  /\ Release(c)
  /\ UNCHANGED Server

Revoked(c) ==
  LET k == call[c].id IN
  /\ Done(c, "revoke")
  /\ page' = IF Ok(c) THEN [page EXCEPT !.keys = @ \ {k}, !.gone = @ \cup {k}] ELSE page
  /\ Release(c)
  /\ UNCHANGED Server

ListsNext ==
  \/ \E at \in {"jobs", "keys"} : OpenList(at)
  \/ CloseList \/ Dismiss
  \/ \E j \in TableJobs : JobMoves(j)
  \/ \E c \in Calls :
       \/ \E j \in TableJobs : OnCancel(c, j) \/ OnDelete(c, j)
       \/ \E k \in KeyIds : OnRevoke(c, k)
       \/ OnClearAllTerminal(c) \/ OnCreate(c)
       \/ CancelRead(c) \/ CancelSave(c) \/ Delete(c) \/ SweepOne(c) \/ Create(c) \/ Revoke(c)
       \/ NotAnswered(c) \/ Dropped(c)
       \/ Cancelled(c) \/ Deleted(c) \/ Swept(c) \/ Created(c) \/ Revoked(c)

ListsSpec == ListsInit /\ [][ListsNext]_listVars

-----------------------------------------------------------------------------
(* Properties.                                                             *)

(* A table does not lie about what is gone.  A job or key that has left it *)
(* is deleted or revoked on the server, save jobs the sweep took while     *)
(* they were terminal and jobs whose row a cancel inserted again after the *)
(* deletion; what the user was told is gone does not come back with a late *)
(* answer; and the secret on the screen is of a key the user can see, and  *)
(* revoke, in the table, or has revoked.                                   *)
ListsKeepUp ==
  LET missing == page.listed \ (ShownJobs \cup page.keys)
      deleted == {j \in TableJobs : jobRow[j] = "none"}
      revoked == {k \in KeyIds : keyRow[k] = "revoked"}
  IN /\ missing \subseteq deleted \cup risen \cup revoked \cup page.swept
     /\ page.gone \cap (ShownJobs \cup page.keys) = {}
     /\ page.revealed \in page.keys \cup revoked \cup {NoId}
=============================================================================
