---------------------------- MODULE SessionLedger ----------------------------
(***************************************************************************)
(* What the session store promises about a session: it is opened once, and *)
(* once it has ended it is open again only because an exchange of its      *)
(* refresh token that was admitted while it was open completed afterwards. *)
(* FR-AUTH-007 promises more: that a revoked session ends on its next      *)
(* request.  What the store does not keep of that promise is Exchange.     *)
(***************************************************************************)
CONSTANTS
  Sessions,     \* session ids
  Requests      \* requests that may exchange a refresh token

VARIABLES
  phase,        \* "none", "open" or "ended"
  admitted      \* the exchanges under way, per session

vars == <<phase, admitted>>

TypeOK ==
  /\ phase \in [Sessions -> {"none", "open", "ended"}]
  /\ admitted \in [Sessions -> SUBSET Requests]

Init ==
  /\ phase = [s \in Sessions |-> "none"]
  /\ admitted = [s \in Sessions |-> {}]

\* A sign-in opens a session that was never open.
Open(s) ==
  /\ phase[s] = "none"
  /\ phase' = [phase EXCEPT ![s] = "open"]
  /\ UNCHANGED admitted

\* An exchange is admitted only while the session is open.
Admit(s, r) ==
  /\ phase[s] = "open"
  /\ admitted' = [admitted EXCEPT ![s] = admitted[s] \cup {r}]
  /\ UNCHANGED phase

\* An admitted exchange completes: the session is open, also one that ended
\* in the meantime.
Exchange(s, r) ==
  /\ r \in admitted[s]
  /\ phase' = [phase EXCEPT ![s] = "open"]
  /\ admitted' = [admitted EXCEPT ![s] = admitted[s] \ {r}]

\* Admitted exchanges are given up: refused, or lost with their process.
Abandon ==
  /\ admitted' \in [Sessions -> SUBSET Requests]
  /\ \A s \in Sessions : admitted'[s] \subseteq admitted[s]
  /\ UNCHANGED phase

\* The session is revoked or expires; an exchange under way goes on.
End(s) ==
  /\ phase[s] = "open"
  /\ phase' = [phase EXCEPT ![s] = "ended"]
  /\ UNCHANGED admitted

\* Time ends any number of sessions at once.
Lapse ==
  \E S \in SUBSET {s \in Sessions : phase[s] = "open"} :
    /\ phase' = [s \in Sessions |-> IF s \in S THEN "ended" ELSE phase[s]]
    /\ UNCHANGED admitted

Next ==
  \/ \E s \in Sessions : Open(s) \/ End(s)
  \/ \E s \in Sessions, r \in Requests : Admit(s, r) \/ Exchange(s, r)
  \/ Abandon
  \/ Lapse

Spec == Init /\ [][Next]_vars
=============================================================================
