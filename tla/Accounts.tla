------------------------------ MODULE Accounts ------------------------------
(***************************************************************************)
(* Members of one organisation: invitation, acceptance and removal, the    *)
(* password check with its lockout, and multi-factor settings.  Every      *)
(* writer reads the whole account, works, and saves the whole account; the *)
(* save compares with the row as it is by then and writes what differs, or *)
(* inserts the account again when the row is gone.                         *)
(*                                                                         *)
(* No code disables an account, so that status is left out.  The caller of *)
(* an invitation or a removal is another member.                           *)
(***************************************************************************)
EXTENDS Integers, FiniteSets

CONSTANTS
  Members,      \* ids of invited users
  Requests,     \* requests that are open at the same time
  NoMember,     \* "no member"
  Secrets,      \* TOTP secrets
  MaxAttempts,  \* LOGIN_MAX_ATTEMPTS
  Lockout,      \* LOGIN_LOCKOUT_SECONDS, in ticks
  InviteTtl,    \* INVITE_TTL_SECONDS, in ticks
  MaxTime       \* bound on the clock

ASSUME AccountsAssumption ==
  /\ NoMember \notin Members
  /\ "none" \notin Secrets
  /\ MaxAttempts \in Nat \ {0}
  /\ Lockout \in Nat \ {0}
  /\ InviteTtl \in Nat \ {0}
  /\ MaxTime \in Nat \ {0}

VARIABLES
  row,          \* users: the committed account of each member
  granted,      \* role_assignments: members that hold the role of their invitation
  trail,        \* audit_log: members named as actors
  invitation,   \* invite:<token> in Redis: until when it is valid, 0 if never issued
  now,          \* the clock
  request,      \* the open requests
  guesses,      \* history: failed sign-ins saved since one began on an account
                \* that was at rest; Disturbed once anything else happened
  signedIn,     \* history: members that were given a session
  untold,       \* history: members with an audit entry that was not written
  reinserted    \* history: members inserted again by a stale save

vars == <<row, granted, trail, invitation, now, request, guesses, signedIn,
          untold, reinserted>>

Columns == {"status", "password", "failed", "locked", "mfa", "secret"}

Disturbed == -1

\* A row of users, INVITED or ACTIVE, as far as requests read and write it; the
\* second factor's secret is "none" or one of Secrets.
NoAccount == [status |-> "none", password |-> FALSE, failed |-> 0, locked |-> 0,
              mfa |-> FALSE, secret |-> "none"]
Invited == [NoAccount EXCEPT !.status = "INVITED"]

There(u) == row[u].status # "none"
Locked(u) == row[u].locked > now

\* op: what the request is; account: the entity in memory; lock: the
\* locked-until it read; columns: what the save will write.
Idle == [pc |-> "idle", op |-> "none", u |-> NoMember, account |-> NoAccount,
         lock |-> 0, columns |-> {}]

Init ==
  /\ row = [u \in Members |-> NoAccount]
  /\ granted = {}
  /\ trail = {}
  /\ invitation = [u \in Members |-> 0]
  /\ now = 1
  /\ request = [r \in Requests |-> Idle]
  /\ guesses = [u \in Members |-> Disturbed]
  /\ signedIn = {}
  /\ untold = {}
  /\ reinserted = {}

History == <<guesses, signedIn, untold, reinserted>>
Tables == <<row, granted, trail, invitation>>

\* The request has read the account; it has what it will save.
Read(r, u, op, pc, account) ==
  request' = [request EXCEPT ![r] =
    [Idle EXCEPT !.pc = pc, !.op = op, !.u = u, !.account = account,
                 !.lock = row[u].locked]]
Save(r, u, op, account) == Read(r, u, op, "select", account)
Keep(r, account, op) ==
  request' = [request EXCEPT ![r].account = account, ![r].op = op, ![r].pc = "select"]
Goto(r, pc) ==
  request' = [request EXCEPT ![r] =
    [Idle EXCEPT !.pc = pc, !.op = request[r].op, !.u = request[r].u]]
Finish(r) == request' = [request EXCEPT ![r] = Idle]

-----------------------------------------------------------------------------
(* Members.                                                                *)

\* The token is in Redis before the transaction commits, which may fail.  Every
\* id is used once.
Invite(u) ==
  /\ invitation[u] = 0
  /\ invitation' = [invitation EXCEPT ![u] = now + InviteTtl]
  /\ \/ /\ row' = [row EXCEPT ![u] = Invited]
        /\ granted' = granted \cup {u}
     \/ UNCHANGED <<row, granted>>
  /\ UNCHANGED <<trail, now, request, History>>

AcceptInvite(r, u) ==
  /\ request[r].pc = "idle"
  /\ invitation[u] > now
  /\ request' = [request EXCEPT ![r] = [Idle EXCEPT !.pc = "find", !.u = u]]
  /\ UNCHANGED <<Tables, now, History>>

\* The user is looked for; the password is hashed and the account saved.
AcceptFind(r) ==
  LET u == request[r].u IN
  /\ request[r].pc = "find"
  /\ IF There(u)
     THEN Save(r, u, "accept", [row[u] EXCEPT !.password = TRUE, !.status = "ACTIVE"])
     ELSE Finish(r)
  /\ UNCHANGED <<Tables, now, History>>

AcceptDelete(r) ==
  /\ request[r].pc = "delete"
  /\ invitation' = [invitation EXCEPT ![request[r].u] = now]
  /\ Finish(r)
  /\ UNCHANGED <<row, granted, trail, now, History>>

\* Mutant: role assignments outlive their user.
Remove_KeepsRoles(u) ==
  /\ There(u)
  /\ u \notin trail
  /\ row' = [row EXCEPT ![u] = NoAccount]
  /\ UNCHANGED <<granted, trail, invitation, now, request, History>>

\* Role assignments go with their user; an audit entry holds its actor, and the
\* delete then fails.
Remove(u) ==
  /\ There(u)
  /\ u \notin trail
  /\ row' = [row EXCEPT ![u] = NoAccount]
  /\ granted' = granted \ {u}
  /\ UNCHANGED <<trail, invitation, now, request, History>>

-----------------------------------------------------------------------------
(* Sign-in.                                                                *)

\* History: counting begins anew on an account without failed attempts that no
\* other request is about.
AtRest(u) ==
  guesses' = [guesses EXCEPT ![u] =
    IF row[u].failed = 0 /\ \A q \in Requests : request[q].u # u THEN 0 ELSE @]

\* Mutant: a locked account is let through.
Login_Locked(r, u) ==
  /\ request[r].pc = "idle"
  /\ row[u].password
  /\ Read(r, u, "login", "verify", row[u])
  /\ AtRest(u)
  /\ UNCHANGED <<Tables, now, signedIn, untold, reinserted>>

Login(r, u) ==
  /\ request[r].pc = "idle"
  /\ row[u].password
  /\ ~Locked(u)
  /\ Read(r, u, "login", "verify", row[u])
  /\ AtRest(u)
  /\ UNCHANGED <<Tables, now, signedIn, untold, reinserted>>

\* Mutant: one attempt too many.
WrongPassword_Late(r) ==
  LET account == request[r].account IN
  /\ request[r].pc = "verify"
  /\ Keep(r, IF account.failed >= MaxAttempts
             THEN [account EXCEPT !.failed = 0, !.locked = now + Lockout]
             ELSE [account EXCEPT !.failed = account.failed + 1], "wrong")
  /\ UNCHANGED <<Tables, now, History>>

\* The counter is the one read before the password was checked.
WrongPassword(r) ==
  LET account == request[r].account IN
  /\ request[r].pc = "verify"
  /\ Keep(r, IF account.failed + 1 >= MaxAttempts
             THEN [account EXCEPT !.failed = 0, !.locked = now + Lockout]
             ELSE [account EXCEPT !.failed = account.failed + 1], "wrong")
  /\ UNCHANGED <<Tables, now, History>>

\* An enrolled account needs its secret and the right code, too.
RightPassword(r) ==
  LET account == request[r].account IN
  /\ request[r].pc = "verify"
  /\ \/ /\ account.mfa => account.secret # "none"
        /\ Keep(r, [account EXCEPT !.failed = 0, !.locked = 0], "right")
     \/ /\ account.mfa
        /\ Finish(r)
  /\ UNCHANGED <<Tables, now, History>>

\* AuditService.write: a failed insert, also of an actor that is gone, is only
\* logged.  A successful sign-in then answers with a session.
WriteAudit(r) ==
  LET u == request[r].u
      signsIn == request[r].op = "right" IN
  /\ request[r].pc = "audit"
  /\ \/ /\ There(u)
        /\ trail' = trail \cup {u}
        /\ UNCHANGED untold
     \/ /\ untold' = untold \cup {u}
        /\ UNCHANGED trail
  /\ signedIn' = IF signsIn THEN signedIn \cup {u} ELSE signedIn
  /\ Finish(r)
  /\ UNCHANGED <<row, granted, invitation, now, guesses, reinserted>>

-----------------------------------------------------------------------------
(* Multi-factor settings, by the member.                                   *)

MfaSettings(r, u, account) ==
  /\ request[r].pc = "idle"
  /\ u \in signedIn /\ There(u)
  /\ Save(r, u, "mfa", account)
  /\ UNCHANGED <<Tables, now, History>>

EnrollMfa(r, u) ==
  \E s \in Secrets :
    MfaSettings(r, u, [row[u] EXCEPT !.secret = s])

ActivateMfa(r, u) ==
  /\ row[u].secret # "none"
  /\ MfaSettings(r, u, [row[u] EXCEPT !.mfa = TRUE])

DisableMfa(r, u) ==
  /\ row[u].mfa /\ row[u].secret # "none"
  /\ MfaSettings(r, u, [row[u] EXCEPT !.mfa = FALSE, !.secret = "none"])

-----------------------------------------------------------------------------
(* repo.save(user), outside any transaction.                               *)

SaveSelect(r) ==
  LET account == request[r].account
      current == row[request[r].u] IN
  /\ request[r].pc = "select"
  /\ request' = [request EXCEPT
       ![r].pc = IF There(request[r].u) THEN "update" ELSE "insert",
       ![r].columns = IF There(request[r].u)
                      THEN {c \in Columns : account[c] # current[c]} ELSE {}]
  /\ UNCHANGED <<Tables, now, History>>

Saved(r) ==
  LET u == request[r].u IN
  /\ CASE request[r].op \in {"wrong", "right"} -> Goto(r, "audit")
       [] request[r].op = "accept" -> Goto(r, "delete")
       [] OTHER -> Finish(r)
  /\ guesses' = [guesses EXCEPT ![u] =
                    IF request[r].op = "wrong" /\ guesses[u] # Disturbed
                    THEN guesses[u] + 1 ELSE Disturbed]

\* An update of a row that is gone matches nothing.
SaveUpdate(r) ==
  LET u == request[r].u
      written(c) == There(u) /\ c \in request[r].columns IN
  /\ request[r].pc = "update"
  /\ row' = [row EXCEPT ![u] =
               [c \in Columns |-> IF written(c) THEN request[r].account[c] ELSE row[u][c]]]
  /\ Saved(r)
  /\ UNCHANGED <<granted, trail, invitation, now, signedIn, untold, reinserted>>

\* The row is gone: the account is inserted again, or was by somebody else.
SaveInsert(r) ==
  LET u == request[r].u IN
  /\ request[r].pc = "insert"
  /\ IF There(u)
     THEN Finish(r) /\ UNCHANGED <<row, guesses, reinserted>>
     ELSE /\ row' = [row EXCEPT ![u] = request[r].account]
          /\ reinserted' = reinserted \cup {u}
          /\ Saved(r)
  /\ UNCHANGED <<granted, trail, invitation, now, signedIn, untold>>

Tick ==
  /\ now < MaxTime
  /\ now' = now + 1
  /\ guesses' = [u \in Members |-> Disturbed]
  /\ UNCHANGED <<Tables, request, signedIn, untold, reinserted>>

Work(r) ==
  \/ AcceptFind(r) \/ AcceptDelete(r)
  \/ WrongPassword(r) \/ RightPassword(r) \/ WriteAudit(r)
  \/ SaveSelect(r) \/ SaveUpdate(r) \/ SaveInsert(r)

Next ==
  \/ \E u \in Members : Invite(u) \/ Remove(u)
  \/ \E r \in Requests, u \in Members :
       \/ AcceptInvite(r, u) \/ Login(r, u)
       \/ EnrollMfa(r, u) \/ ActivateMfa(r, u) \/ DisableMfa(r, u)
  \/ \E r \in Requests : Work(r)
  \/ Tick

Spec == Init /\ [][Next]_vars

-----------------------------------------------------------------------------
(* Properties.                                                             *)

\* Overlapping sign-ins lose failed attempts and may even lift a lock, but two
\* at a time do not get past this many wrong passwords on an account that was at
\* rest, as long as no lock runs out and nothing else saves it (login).  With
\* the limit of 5 that is 20, where FR-AUTH-005 says 5 (README, Observations).
GuessBound ==
  \A u \in Members : guesses[u] <= (MaxAttempts * (MaxAttempts + 3)) \div 2

\* A lock ends with its time, or by the save of a request that read the account
\* before it was locked (login refuses a locked account); FR-AUTH-005 allows for
\* the first only (README, Observations).
LockHolds ==
  [][\A u \in Members : Locked(u) /\ now' = now /\ ~Locked(u)' =>
       \/ ~There(u)'
       \/ \E r \in Requests :
            /\ request[r].u = u /\ request[r].pc = "update"
            /\ request[r].lock # row[u].locked]_vars

\* What removing a member leaves: who comes back by a stale save holds no role,
\* and who was given a session can no longer be removed, unless the audit entry
\* of a sign-in was not written (remove, audit_log.actor_user_id), although the
\* endpoint is there to remove members (README, Observations).
RemovalHolds ==
  /\ reinserted \cap granted = {}
  /\ \A u \in signedIn \ untold : There(u)
=============================================================================
