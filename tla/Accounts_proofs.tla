-------------------------- MODULE Accounts_proofs --------------------------
(***************************************************************************)
(* Accounts and sign-up, proved for any number of members, attempts before *)
(* the lock, visitors, names and addresses.  The bound on guesses is about *)
(* two sign-ins at a time, as it says.                                     *)
(***************************************************************************)
EXTENDS Accounts, Registration, TLAPS

-----------------------------------------------------------------------------
(* Types.                                                                   *)

Attempts == 0 .. MaxAttempts - 1
Account == [status : {"none", "INVITED", "ACTIVE"}, password : BOOLEAN, failed : Attempts,
            locked : Nat, mfa : BOOLEAN, secret : Secrets \cup {"none"}]

\* Steps that hold an account that was read from a row.
Holding == {"verify", "select", "update", "insert"}
SaveSteps == {"select", "update", "insert"}
RequestSet ==
  [pc : Holding \cup {"idle", "find", "delete", "audit"},
   op : {"none", "accept", "login", "wrong", "right", "mfa"}, u : Members \cup {NoMember},
   account : Account, lock : Nat, columns : SUBSET Columns]

\* A request that holds an account is about a member that had one.
Sane(q) == /\ q.pc # "idle" => q.u \in Members
           /\ q.pc \in Holding => q.account.status # "none"
           /\ q.pc = "verify" <=> q.op = "login"
           /\ q.pc \in SaveSteps => q.op \in {"accept", "wrong", "right", "mfa"}

RequestsSane == /\ request \in [Requests -> RequestSet]
                /\ \A r \in Requests : Sane(request[r])

TypeOK ==
  /\ row \in [Members -> Account]
  /\ granted \subseteq Members /\ trail \subseteq Members
  /\ signedIn \subseteq Members /\ untold \subseteq Members /\ reinserted \subseteq Members
  /\ invitation \in [Members -> Nat]
  /\ now \in 1 .. MaxTime
  /\ RequestsSane
  /\ guesses \in [Members -> Nat \cup {Disturbed}]

-----------------------------------------------------------------------------
(* Removal.                                                                 *)

\* Why: every id is invited once, before anything is done with it; a role is of
\* somebody who is there; and so is whoever the audit log names.
RemovalInv ==
  /\ \A u \in Members :
       /\ ~There(u) => row[u] = NoAccount
       /\ There(u) \/ guesses[u] # Disturbed \/ u \in reinserted => invitation[u] # 0
  /\ \A r \in Requests : request[r].pc # "idle" => invitation[request[r].u] # 0
  /\ \A u \in granted : There(u) /\ u \notin reinserted
  /\ \A u \in trail : There(u)
  /\ \A u \in signedIn : u \in trail \cup untold

-----------------------------------------------------------------------------
(* The lock.                                                                *)

\* Why: a sign-in read an account that was not locked, and the other writers keep
\* the lock as they read it.
LockInv == \A r \in Requests :
  request[r].pc \in Holding =>
    IF request[r].op \in {"login", "wrong", "right"}
    THEN request[r].lock <= now
    ELSE request[r].account.locked = request[r].lock

-----------------------------------------------------------------------------
(* Guesses.                                                                 *)

\* As many wrong passwords as fit when n more lock the account.
Room(n) == (n * (n + 3)) \div 2

\* A sign-in that may yet save a wrong password of u.
Guessing(r, u) == /\ request[r].u = u
                  /\ \/ request[r].pc = "verify"
                     \/ request[r].pc \in SaveSteps /\ request[r].op = "wrong"

\* It locks the account; it was the failed attempt with this number, from zero.
Locks(r) == request[r].pc # "verify" /\ request[r].account.locked > now
Base(r) == CASE request[r].pc = "verify" -> request[r].account.failed
             [] request[r].pc # "verify" /\ Locks(r) -> MaxAttempts - 1
             [] OTHER -> request[r].account.failed - 1

\* Its save has nothing to write: the row had just these values.
Nothing(r) == /\ request[r].pc = "update" /\ ~Locks(r)
              /\ request[r].columns \cap {"failed", "locked"} = {}

\* How far the row is on the way to the lock; nobody gets past it then.
Level(u) == IF There(u) /\ ~Locked(u) THEN row[u].failed ELSE MaxAttempts
Lower(m, n) == IF m < n THEN m ELSE n
Reach(r, u) == IF Guessing(r, u) /\ ~Nothing(r) THEN Lower(Base(r), Level(u)) ELSE Level(u)
Spent(r, u) == IF Guessing(r, u) /\ Nothing(r) THEN 1 ELSE 0

\* What two sign-ins can still save: one goes on to the lock, then the other's
\* save puts the count back to where it began, and lifts the lock.
Left(x, y) ==
  IF x <= y THEN 1 + MaxAttempts - y + Room(MaxAttempts - x - 1)
            ELSE 1 + MaxAttempts - x + Room(MaxAttempts - y - 1)

\* A guess of an account that was at rest: what it read and what it will write.
GuessSane(r, u) == LET q == request[r] IN
  /\ q.lock <= now
  /\ q.pc = "verify" => q.account.locked = q.lock
  /\ q.pc # "verify" => \/ q.account.locked = q.lock /\ q.account.failed > 0
                        \/ q.account.locked = now + Lockout /\ q.account.failed = 0
  /\ There(u) => row[u].locked \in {q.lock, now + Lockout}

\* A save that leaves one of the two columns out meets them as it left them.
Unrivalled(r, u) == LET q == request[r] IN
  q.pc = "update" /\ (IF Locks(r) THEN "locked" \notin q.columns
                      ELSE "failed" \notin q.columns /\ "locked" \in q.columns)

PairSane(r, s, u) ==
  /\ Guessing(r, u) /\ Guessing(s, u) =>
       /\ request[r].lock = request[s].lock
       /\ There(u) => row[u].locked = request[r].lock
  /\ Guessing(r, u) /\ Unrivalled(r, u) =>
       /\ ~Guessing(s, u)
       /\ There(u) => /\ row[u].locked = now + Lockout
                      /\ ~Locks(r) => row[u].failed = request[r].account.failed

GuessOk(u) == \A r, s \in Requests :
  /\ Guessing(r, u) => GuessSane(r, u)
  /\ r # s => /\ PairSane(r, s, u)
              /\ guesses[u] + Spent(r, u) + Spent(s, u) + Left(Reach(r, u), Reach(s, u))
                   <= Room(MaxAttempts)

GuessInv == \A u \in Members : guesses[u] # Disturbed => GuessOk(u)

\* The accounts that no code but the database makes.
LEMMA NewAccounts == NoAccount \in Account /\ Invited \in Account
<1>1. 0 \in Attempts
  BY AccountsAssumption DEF Attempts
<1> QED
  BY <1>1 DEF NoAccount, Invited, Account

LEMMA IdleTyped == Idle \in RequestSet /\ Sane(Idle)
  BY NewAccounts DEF Idle, RequestSet, Sane, Holding, SaveSteps

\* A request that is replaced by another sane one.
LEMMA RequestTyped ==
  ASSUME RequestsSane, NEW r, NEW q \in RequestSet, Sane(q),
         request' = [request EXCEPT ![r] = q]
  PROVE  RequestsSane'
BY DEF RequestsSane, Sane

\* A request that has read an account holds it.
LEMMA ReadTyped ==
  ASSUME TypeOK, NEW r, NEW u \in Members, NEW op \in {"login", "accept", "mfa"},
         NEW pc \in {"verify", "select"}, pc = "verify" <=> op = "login",
         NEW account \in Account, account.status # "none", Read(r, u, op, pc, account)
  PROVE  RequestsSane'
<1> DEFINE q == [Idle EXCEPT !.pc = pc, !.op = op, !.u = u, !.account = account,
                             !.lock = row[u].locked]
<1>1. row[u].locked \in Nat
  BY DEF TypeOK, Account
<1>2. q \in RequestSet /\ Sane(q)
  BY <1>1 DEF Idle, RequestSet, Sane, Holding, SaveSteps
<1>3. request' = [request EXCEPT ![r] = q]
  BY DEF Read
<1>4. RequestsSane
  BY DEF TypeOK
<1> HIDE DEF q
<1> QED
  BY <1>2, <1>3, <1>4, RequestTyped

LEMMA GotoTyped ==
  ASSUME TypeOK, NEW r \in Requests, request[r].pc # "idle", request[r].op # "login",
         NEW pc \in {"audit", "delete"}, Goto(r, pc)
  PROVE  RequestsSane'
<1> DEFINE q == [Idle EXCEPT !.pc = pc, !.op = request[r].op, !.u = request[r].u]
<1>1. request[r] \in RequestSet /\ Sane(request[r])
  BY DEF TypeOK, RequestsSane
<1>2. q \in RequestSet /\ Sane(q)
  BY <1>1, NewAccounts DEF Idle, RequestSet, Sane, Holding, SaveSteps
<1>3. request' = [request EXCEPT ![r] = q]
  BY DEF Goto
<1>4. RequestsSane
  BY DEF TypeOK
<1> HIDE DEF q
<1> QED
  BY <1>2, <1>3, <1>4, RequestTyped

LEMMA FinishTyped ==
  ASSUME RequestsSane, NEW r \in Requests, Finish(r)
  PROVE  RequestsSane'
BY IdleTyped, RequestTyped DEF Finish

LEMMA KeepTyped ==
  ASSUME TypeOK, NEW r \in Requests, request[r].pc = "verify",
         NEW op \in {"wrong", "right"},
         NEW account \in Account, account.status # "none", Keep(r, account, op)
  PROVE  RequestsSane'
<1> DEFINE q == [request[r] EXCEPT !.account = account, !.op = op, !.pc = "select"]
<1>1. request[r] \in RequestSet /\ Sane(request[r])
  BY DEF TypeOK, RequestsSane
<1>2. q \in RequestSet /\ Sane(q)
  BY <1>1 DEF RequestSet, Sane, Holding, SaveSteps
<1>3. request' = [request EXCEPT ![r] = q]
  BY DEF Keep, TypeOK, RequestsSane, RequestSet
<1>4. RequestsSane
  BY DEF TypeOK
<1> HIDE DEF q
<1> QED
  BY <1>2, <1>3, <1>4, RequestTyped

LEMMA SavedTyped ==
  ASSUME TypeOK, NEW r \in Requests, request[r].pc \in SaveSteps, Saved(r)
  PROVE  RequestsSane' /\ guesses' \in [Members -> Nat \cup {Disturbed}]
<1>1. request[r] \in RequestSet /\ Sane(request[r])
  BY DEF TypeOK, RequestsSane
<1>2. request[r].op \in {"accept", "wrong", "right", "mfa"} /\ request[r].pc # "idle"
  BY <1>1 DEF Sane, SaveSteps
<1>3. guesses' \in [Members -> Nat \cup {Disturbed}]
  <2>1. request[r].u \in Members
    BY <1>1, <1>2 DEF Sane
  <2>2. guesses[request[r].u] \in Nat \cup {Disturbed}
    BY <2>1 DEF TypeOK
  <2>3. PICK g : g = IF request[r].op = "wrong" /\ guesses[request[r].u] # Disturbed
                     THEN guesses[request[r].u] + 1 ELSE Disturbed
    OBVIOUS
  <2>4. g \in Nat \cup {Disturbed}
    BY <2>2, <2>3 DEF Disturbed
  <2>5. guesses' = [guesses EXCEPT ![request[r].u] = g]
    BY <2>3 DEF Saved
  <2> QED
    BY <2>4, <2>5 DEF TypeOK
<1>4. RequestsSane
  BY DEF TypeOK
<1>5. CASE request[r].op \in {"wrong", "right"}
  BY <1>2, <1>3, <1>5, GotoTyped DEF Saved
<1>6. CASE request[r].op = "accept"
  BY <1>2, <1>3, <1>6, GotoTyped DEF Saved
<1>7. CASE request[r].op = "mfa"
  BY <1>2, <1>3, <1>4, <1>7, FinishTyped DEF Saved
<1> QED
  BY <1>2, <1>5, <1>6, <1>7

\* What is written of an account, over what the row has.
Written(r, u) ==
  [c \in Columns |-> IF There(u) /\ c \in request[r].columns
                     THEN request[r].account[c] ELSE row[u][c]]

LEMMA WrittenTyped ==
  ASSUME TypeOK, NEW r \in Requests, NEW u \in Members, request[r].pc \in Holding
  PROVE  /\ Written(r, u) \in Account
         /\ \A c \in Columns : Written(r, u)[c] =
              IF There(u) /\ c \in request[r].columns THEN request[r].account[c] ELSE row[u][c]
         /\ There(u) => Written(r, u).status # "none"
         /\ ~There(u) => Written(r, u) = row[u]
<1>1. request[r].account \in Account /\ request[r].account.status # "none"
  BY DEF TypeOK, RequestsSane, RequestSet, Sane
<1>2. row[u] \in Account
  BY DEF TypeOK
<1>3. PICK w : w = Written(r, u)
  OBVIOUS
<1>4. \A c \in Columns : w[c] =
        IF There(u) /\ c \in request[r].columns THEN request[r].account[c] ELSE row[u][c]
  BY <1>3 DEF Written
<1>5. w = [status |-> w.status, password |-> w.password, failed |-> w.failed,
           locked |-> w.locked, mfa |-> w.mfa, secret |-> w.secret]
  BY <1>3 DEF Written, Columns
<1>6. w \in Account
  <2>1. /\ w.status \in {"none", "INVITED", "ACTIVE"} /\ w.password \in BOOLEAN
        /\ w.failed \in Attempts /\ w.locked \in Nat /\ w.mfa \in BOOLEAN
        /\ w.secret \in Secrets \cup {"none"}
    BY <1>1, <1>2, <1>4 DEF Columns, Account
  <2> QED
    BY <2>1, <1>5 DEF Account
<1>7. There(u) => w.status # "none"
  BY <1>1, <1>2, <1>4 DEF Columns, There
<1>8. ~There(u) => w = row[u]
  BY <1>2, <1>4, <1>5 DEF Columns, Account
<1> QED
  BY <1>3, <1>4, <1>6, <1>7, <1>8

LEMMA InitTyped == Init => TypeOK
BY NewAccounts, IdleTyped, AccountsAssumption
   DEF Init, TypeOK, RequestsSane, Disturbed

LEMMA InviteTyped ==
  ASSUME TypeOK, NEW u \in Members, Invite(u)
  PROVE  TypeOK'
<1>1. now + InviteTtl \in Nat
  BY AccountsAssumption DEF TypeOK
<1>2. row' \in [Members -> Account]
  BY NewAccounts DEF Invite, TypeOK
<1> QED
  BY <1>1, <1>2 DEF Invite, TypeOK, RequestsSane, History

LEMMA AcceptInviteTyped ==
  ASSUME TypeOK, NEW r \in Requests, NEW u \in Members, AcceptInvite(r, u)
  PROVE  TypeOK'
<1> DEFINE q == [Idle EXCEPT !.pc = "find", !.u = u]
<1>1. q \in RequestSet /\ Sane(q)
  BY NewAccounts DEF Idle, RequestSet, Sane, Holding, SaveSteps
<1>2. request' = [request EXCEPT ![r] = q] /\ RequestsSane
  BY DEF AcceptInvite, TypeOK
<1> HIDE DEF q
<1>3. RequestsSane'
  BY <1>1, <1>2, RequestTyped
<1> QED
  BY <1>3 DEF AcceptInvite, TypeOK, Tables, History

LEMMA AcceptFindTyped ==
  ASSUME TypeOK, NEW r \in Requests, AcceptFind(r)
  PROVE  TypeOK'
<1>1. request[r].u \in Members
  BY DEF AcceptFind, TypeOK, RequestsSane, Sane
<1>2. PICK u \in Members : u = request[r].u
  BY <1>1
<1>3. PICK account : account = [row[u] EXCEPT !.password = TRUE, !.status = "ACTIVE"]
  OBVIOUS
<1>4. account \in Account /\ account.status # "none"
  BY <1>3 DEF TypeOK, Account
<1>5. RequestsSane'
  <2>1. CASE There(u)
    <3>1. Read(r, u, "accept", "select", account)
      BY <1>2, <1>3, <2>1 DEF AcceptFind, Save
    <3> QED
      BY <1>4, <3>1, ReadTyped
  <2>2. CASE ~There(u)
    BY <1>2, <2>2, FinishTyped DEF AcceptFind, TypeOK
  <2> QED
    BY <2>1, <2>2
<1> QED
  BY <1>5 DEF AcceptFind, TypeOK, Tables, History

LEMMA AcceptDeleteTyped ==
  ASSUME TypeOK, NEW r \in Requests, AcceptDelete(r)
  PROVE  TypeOK'
<1>1. RequestsSane'
  BY FinishTyped DEF AcceptDelete, TypeOK
<1>2. now \in Nat
  BY AccountsAssumption DEF TypeOK
<1>3. invitation' \in [Members -> Nat]
  BY <1>2 DEF AcceptDelete, TypeOK
<1> QED
  BY <1>1, <1>3 DEF AcceptDelete, TypeOK, History

LEMMA RemoveTyped ==
  ASSUME TypeOK, NEW u \in Members, Remove(u)
  PROVE  TypeOK'
BY NewAccounts DEF Remove, TypeOK, RequestsSane, History

LEMMA LoginTyped ==
  ASSUME TypeOK, RemovalInv, NEW r \in Requests, NEW u \in Members, Login(r, u)
  PROVE  TypeOK'
<1>1. PICK account : account = row[u]
  OBVIOUS
<1>2. account \in Account /\ account.status # "none"
  BY <1>1 DEF TypeOK, Login, RemovalInv, NoAccount, There
<1>3. Read(r, u, "login", "verify", account)
  BY <1>1 DEF Login
<1>4. RequestsSane'
  BY <1>2, <1>3, ReadTyped
<1>5. guesses' \in [Members -> Nat \cup {Disturbed}]
  BY DEF Login, AtRest, TypeOK
<1> QED
  BY <1>4, <1>5 DEF Login, TypeOK, Tables

\* What a password check makes of an account.
LEMMA FailedTyped ==
  ASSUME NEW a \in Account
  PROVE  /\ \A t \in 1 .. MaxTime :
              LET b == [a EXCEPT !.failed = 0, !.locked = t + Lockout] IN
              b \in Account /\ b.status = a.status /\ b.locked = t + Lockout /\ b.failed = 0
         /\ LET b == [a EXCEPT !.failed = 0, !.locked = 0] IN
              b \in Account /\ b.status = a.status /\ b.locked = 0
         /\ ~(a.failed + 1 >= MaxAttempts) =>
              LET b == [a EXCEPT !.failed = a.failed + 1] IN
              /\ b \in Account /\ b.status = a.status
              /\ b.locked = a.locked /\ b.failed = a.failed + 1
<1>1. 0 \in Attempts /\ a.failed \in Attempts /\ Lockout \in Nat /\ MaxTime \in Nat
  BY AccountsAssumption DEF Attempts, Account
<1>2. ~(a.failed + 1 >= MaxAttempts) => a.failed + 1 \in Attempts
  BY AccountsAssumption, <1>1 DEF Attempts
<1>3. \A t \in 1 .. MaxTime : t + Lockout \in Nat
  BY <1>1
<1> QED
  BY <1>1, <1>2, <1>3 DEF Account

LEMMA WrongPasswordTyped ==
  ASSUME TypeOK, NEW r \in Requests, WrongPassword(r)
  PROVE  TypeOK'
<1>1. request[r].account \in Account /\ request[r].account.status # "none"
  BY DEF WrongPassword, TypeOK, RequestsSane, RequestSet, Sane, Holding
<1>2. PICK account : account = IF request[r].account.failed + 1 >= MaxAttempts
             THEN [request[r].account EXCEPT !.failed = 0, !.locked = now + Lockout]
             ELSE [request[r].account EXCEPT !.failed = request[r].account.failed + 1]
  OBVIOUS
<1>3. account \in Account /\ account.status # "none"
  BY <1>1, <1>2, FailedTyped DEF TypeOK
<1>4. Keep(r, account, "wrong")
  BY <1>2 DEF WrongPassword
<1>5. RequestsSane'
  BY <1>3, <1>4, KeepTyped DEF WrongPassword
<1> QED
  BY <1>5 DEF WrongPassword, TypeOK, Tables, History

LEMMA RightPasswordTyped ==
  ASSUME TypeOK, NEW r \in Requests, RightPassword(r)
  PROVE  TypeOK'
<1>1. request[r].account \in Account /\ request[r].account.status # "none"
  BY DEF RightPassword, TypeOK, RequestsSane, RequestSet, Sane, Holding
<1>2. PICK account : account = [request[r].account EXCEPT !.failed = 0, !.locked = 0]
  OBVIOUS
<1>3. account \in Account /\ account.status # "none"
  BY <1>1, <1>2, FailedTyped
<1>4. Keep(r, account, "right") \/ Finish(r)
  BY <1>2 DEF RightPassword
<1>5. RequestsSane'
  BY <1>3, <1>4, KeepTyped, FinishTyped DEF RightPassword, TypeOK
<1> QED
  BY <1>5 DEF RightPassword, TypeOK, Tables, History

LEMMA WriteAuditTyped ==
  ASSUME TypeOK, NEW r \in Requests, WriteAudit(r)
  PROVE  TypeOK'
<1>1. request[r].u \in Members
  BY DEF WriteAudit, TypeOK, RequestsSane, Sane
<1>2. RequestsSane'
  BY FinishTyped DEF WriteAudit, TypeOK
<1> QED
  BY <1>1, <1>2 DEF WriteAudit, TypeOK

LEMMA MfaTyped ==
  ASSUME TypeOK, NEW r \in Requests, NEW u \in Members,
         NEW account \in Account, account.status = row[u].status, MfaSettings(r, u, account)
  PROVE  TypeOK'
<1>1. account.status # "none" /\ Read(r, u, "mfa", "select", account)
  BY DEF MfaSettings, There, Save
<1>2. RequestsSane'
  BY <1>1, ReadTyped
<1> QED
  BY <1>2 DEF MfaSettings, TypeOK, Tables, History

LEMMA SaveSelectTyped ==
  ASSUME TypeOK, NEW r \in Requests, SaveSelect(r)
  PROVE  TypeOK'
<1>1. PICK pc \in {"update", "insert"}, columns \in SUBSET Columns :
        request' = [request EXCEPT ![r].pc = pc, ![r].columns = columns]
  BY DEF SaveSelect, There
<1>2. PICK q : q = [request[r] EXCEPT !.pc = pc, !.columns = columns]
  OBVIOUS
<1>3. request[r] \in RequestSet /\ Sane(request[r]) /\ request[r].pc = "select"
  BY DEF TypeOK, RequestsSane, SaveSelect
<1>4. q \in RequestSet /\ Sane(q)
  BY <1>2, <1>3 DEF RequestSet, Sane, Holding, SaveSteps
<1>5. request' = [request EXCEPT ![r] = q] /\ RequestsSane
  BY <1>1, <1>2 DEF TypeOK, RequestsSane, RequestSet
<1>6. RequestsSane'
  BY <1>4, <1>5, RequestTyped
<1> QED
  BY <1>6 DEF SaveSelect, TypeOK, Tables, History

LEMMA SaveUpdateTyped ==
  ASSUME TypeOK, NEW r \in Requests, SaveUpdate(r)
  PROVE  /\ TypeOK'
         /\ row' = [row EXCEPT ![request[r].u] = Written(r, request[r].u)]
<1>1. request[r].u \in Members /\ request[r].pc \in Holding /\ request[r].pc \in SaveSteps
  BY DEF SaveUpdate, TypeOK, RequestsSane, Sane, Holding, SaveSteps
<1>2. Written(r, request[r].u) \in Account
  BY <1>1, WrittenTyped
<1>3. row' = [row EXCEPT ![request[r].u] = Written(r, request[r].u)]
  BY DEF SaveUpdate, Written
<1>4. RequestsSane' /\ guesses' \in [Members -> Nat \cup {Disturbed}]
  BY <1>1, SavedTyped DEF SaveUpdate
<1> QED
  <2>1. PICK w : w = Written(r, request[r].u)
    OBVIOUS
  <2>2. row' \in [Members -> Account]
    BY <1>2, <1>3, <2>1 DEF TypeOK
  <2> QED
    BY <1>3, <1>4, <2>2 DEF SaveUpdate, TypeOK

LEMMA SaveInsertTyped ==
  ASSUME TypeOK, NEW r \in Requests, SaveInsert(r)
  PROVE  TypeOK'
<1>1. request[r].u \in Members /\ request[r].pc \in SaveSteps /\ request[r].account \in Account
  BY DEF SaveInsert, TypeOK, RequestsSane, RequestSet, Sane, SaveSteps
<1>2. CASE There(request[r].u)
  <2>1. RequestsSane'
    BY <1>2, FinishTyped DEF SaveInsert, TypeOK
  <2> QED
    BY <1>2, <2>1 DEF SaveInsert, TypeOK
<1>3. CASE ~There(request[r].u)
  <2>1. RequestsSane' /\ guesses' \in [Members -> Nat \cup {Disturbed}]
    BY <1>1, <1>3, SavedTyped DEF SaveInsert
  <2> QED
    BY <1>1, <1>3, <2>1 DEF SaveInsert, TypeOK
<1> QED
  BY <1>2, <1>3

LEMMA TickTyped ==
  ASSUME TypeOK, Tick
  PROVE  TypeOK'
BY AccountsAssumption DEF Tick, TypeOK, RequestsSane, Tables, Disturbed

\* What the members' settings write is an account with the same status.
LEMMA SettingsAccounts ==
  ASSUME TypeOK, NEW u \in Members
  PROVE  /\ \A s \in Secrets : LET a == [row[u] EXCEPT !.secret = s] IN
               a \in Account /\ a.status = row[u].status /\ a.locked = row[u].locked
         /\ LET a == [row[u] EXCEPT !.mfa = TRUE] IN
               a \in Account /\ a.status = row[u].status /\ a.locked = row[u].locked
         /\ LET a == [row[u] EXCEPT !.mfa = FALSE, !.secret = "none"] IN
               a \in Account /\ a.status = row[u].status /\ a.locked = row[u].locked
BY DEF TypeOK, Account

\* The three settings differ in the account they save.
LEMMA SettingsStep ==
  ASSUME TypeOK, NEW r \in Requests, NEW u \in Members,
         EnrollMfa(r, u) \/ ActivateMfa(r, u) \/ DisableMfa(r, u)
  PROVE  \E account \in Account :
           /\ account.status = row[u].status /\ account.locked = row[u].locked
           /\ MfaSettings(r, u, account)
<1>1. CASE EnrollMfa(r, u)
  BY <1>1, SettingsAccounts DEF EnrollMfa
<1>2. CASE ActivateMfa(r, u)
  BY <1>2, SettingsAccounts DEF ActivateMfa
<1>3. CASE DisableMfa(r, u)
  BY <1>3, SettingsAccounts DEF DisableMfa
<1> QED
  BY <1>1, <1>2, <1>3

\* Every step is one of these.
LEMMA NextCases ==
  ASSUME TypeOK, Next
  PROVE  \/ \E u \in Members : Invite(u) \/ Remove(u)
         \/ \E r \in Requests, u \in Members :
              \/ AcceptInvite(r, u) \/ Login(r, u)
              \/ \E account \in Account :
                   /\ account.status = row[u].status /\ account.locked = row[u].locked
                   /\ MfaSettings(r, u, account)
         \/ \E r \in Requests : Work(r)
         \/ Tick
BY SettingsStep DEF Next

LEMMA NextTyped ==
  ASSUME TypeOK, RemovalInv, [Next]_vars
  PROVE  TypeOK'
<1>1. CASE UNCHANGED vars
  BY <1>1 DEF vars, TypeOK, RequestsSane
<1>2. ASSUME NEW u \in Members, Invite(u) \/ Remove(u) PROVE TypeOK'
  BY <1>2, InviteTyped, RemoveTyped
<1>3. ASSUME NEW r \in Requests, NEW u \in Members, AcceptInvite(r, u) \/ Login(r, u)
      PROVE  TypeOK'
  BY <1>3, AcceptInviteTyped, LoginTyped
<1>4. ASSUME NEW r \in Requests, NEW u \in Members, NEW account \in Account,
             account.status = row[u].status, MfaSettings(r, u, account)
      PROVE  TypeOK'
  BY <1>4, MfaTyped
<1>5. ASSUME NEW r \in Requests, Work(r) PROVE TypeOK'
  BY <1>5, AcceptFindTyped, AcceptDeleteTyped, WrongPasswordTyped, RightPasswordTyped,
     WriteAuditTyped, SaveSelectTyped, SaveUpdateTyped, SaveInsertTyped DEF Work
<1>6. CASE Tick
  BY <1>6, TickTyped
<1> QED
  BY <1>1, <1>2, <1>3, <1>4, <1>5, <1>6, NextCases

-----------------------------------------------------------------------------
(* Removal.                                                                 *)

\* A request that goes on is still about its member.
LEMMA AboutKept ==
  ASSUME TypeOK, RemovalInv, NEW r \in Requests, Work(r)
  PROVE  \A q \in Requests : request'[q].pc # "idle" =>
           request[q].pc # "idle" /\ request'[q].u = request[q].u
<1>1. \A q \in Requests : q # r => request'[q] = request[q]
  BY DEF Work, AcceptFind, AcceptDelete, WrongPassword, RightPassword, WriteAudit, SaveSelect,
     SaveUpdate, SaveInsert, Save, Read, Keep, Goto, Finish, Saved, TypeOK, RequestsSane
<1>2. request[r].pc # "idle"
  BY DEF Work, AcceptFind, AcceptDelete, WrongPassword, RightPassword, WriteAudit, SaveSelect,
     SaveUpdate, SaveInsert
<1>3. ASSUME request'[r].pc # "idle" PROVE request'[r].u = request[r].u
  <2> USE DEF TypeOK, RequestsSane, RequestSet
  <2>1. CASE AcceptFind(r)
    <3>1. CASE There(request[r].u)
      BY <2>1, <3>1 DEF AcceptFind, Save, Read, Idle
    <3>2. CASE ~There(request[r].u)
      BY <1>3, <2>1, <3>2 DEF AcceptFind, Finish, Idle
    <3> QED
      BY <3>1, <3>2
  <2>2. CASE AcceptDelete(r) \/ WriteAudit(r)
    BY <1>3, <2>2 DEF AcceptDelete, WriteAudit, Finish, Idle
  <2>3. CASE WrongPassword(r) \/ RightPassword(r)
    BY <1>3, <2>3 DEF WrongPassword, RightPassword, Keep, Finish, Idle
  <2>4. CASE SaveSelect(r)
    BY <1>3, <2>4 DEF SaveSelect
  <2>5. ASSUME Saved(r) PROVE request'[r].u = request[r].u
    <3>1. CASE request[r].op \in {"wrong", "right"}
      BY <2>5, <3>1 DEF Saved, Goto, Idle
    <3>2. CASE request[r].op = "accept"
      BY <2>5, <3>2 DEF Saved, Goto, Idle
    <3>3. CASE request[r].op \notin {"wrong", "right", "accept"}
      BY <1>3, <2>5, <3>3 DEF Saved, Finish, Idle
    <3> QED
      BY <3>1, <3>2, <3>3
  <2>6. CASE SaveUpdate(r)
    BY <2>5, <2>6 DEF SaveUpdate
  <2>7. CASE SaveInsert(r)
    BY <1>3, <2>5, <2>7 DEF SaveInsert, Finish, Idle
  <2> QED
    BY <2>1, <2>2, <2>3, <2>4, <2>6, <2>7 DEF Work
<1> QED
  BY <1>1, <1>2, <1>3

LEMMA InitRemoval == Init => RemovalInv
BY DEF Init, RemovalInv, There, Idle, NoAccount

LEMMA InviteRemoval ==
  ASSUME TypeOK, RemovalInv, NEW u \in Members, Invite(u)
  PROVE  RemovalInv'
<1>1. ~There(u) /\ u \notin reinserted
  BY DEF Invite, RemovalInv
<1>2. invitation'[u] # 0 /\ \A w \in Members : invitation[w] # 0 => invitation'[w] # 0
  BY AccountsAssumption DEF Invite, TypeOK
<1>3. row' = row \/ row' = [row EXCEPT ![u] = Invited]
  BY DEF Invite
<1>4. \A w \in Members : (There(w) => There(w)') /\ (w # u => row'[w] = row[w])
  <2>1. Invited.status = "INVITED"
    BY DEF Invited, NoAccount
  <2>2. row' = row \/ row'[u].status = "INVITED"
    BY <1>3, <2>1 DEF TypeOK
  <2>3. \A w \in Members : w # u => row'[w] = row[w]
    BY <1>3 DEF TypeOK
  <2> QED
    BY <2>2, <2>3 DEF There
<1>5. \A w \in Members : ~There(w)' => row'[w] = NoAccount
  <2>1. row' = row \/ row'[u] = Invited
    BY <1>3 DEF TypeOK
  <2>2. Invited.status = "INVITED"
    BY DEF Invited, NoAccount
  <2> QED
    BY <1>4, <2>1, <2>2 DEF There, RemovalInv
<1>6. \A w \in Members : There(w)' => There(w) \/ w = u
  BY <1>4 DEF There
<1>7. granted' = granted \/ (granted' = granted \cup {u} /\ There(u)')
  <2>1. Invited.status = "INVITED"
    BY DEF Invited, NoAccount
  <2>2. row' = [row EXCEPT ![u] = Invited] => There(u)'
    BY <2>1 DEF There, TypeOK
  <2> QED
    BY <2>2 DEF Invite
<1>8. UNCHANGED <<trail, request, guesses, signedIn, untold, reinserted>>
  BY DEF Invite, History
<1>9. \A w \in Members :
        There(w)' \/ guesses'[w] # Disturbed \/ w \in reinserted' => invitation'[w] # 0
  BY <1>2, <1>6, <1>8 DEF RemovalInv
<1>10. \A r \in Requests : request'[r].pc # "idle" => invitation'[request'[r].u] # 0
  BY <1>2, <1>8 DEF RemovalInv, TypeOK, RequestsSane, Sane
<1>11. \A w \in granted' : There(w)' /\ w \notin reinserted'
  BY <1>1, <1>4, <1>7, <1>8 DEF RemovalInv, TypeOK
<1>12. \A w \in trail' : There(w)'
  BY <1>4, <1>8 DEF RemovalInv, TypeOK
<1>13. \A w \in signedIn' : w \in trail' \cup untold'
  BY <1>8 DEF RemovalInv
<1> QED
  BY <1>5, <1>9, <1>10, <1>11, <1>12, <1>13 DEF RemovalInv

LEMMA RemoveRemoval ==
  ASSUME TypeOK, RemovalInv, NEW u \in Members, Remove(u)
  PROVE  RemovalInv'
<1>1. /\ \A w \in Members : w # u => row'[w] = row[w]
      /\ row'[u] = NoAccount
  BY DEF Remove, TypeOK
<1> QED
  BY <1>1 DEF Remove, RemovalInv, There, NoAccount, TypeOK, History

LEMMA AcceptInviteRemoval ==
  ASSUME TypeOK, RemovalInv, NEW r \in Requests, NEW u \in Members, AcceptInvite(r, u)
  PROVE  RemovalInv'
<1>1. invitation[u] # 0
  BY DEF AcceptInvite, TypeOK
<1>2. \A q \in Requests : \/ request'[q] = request[q]
                          \/ request'[q].u = u
  BY DEF AcceptInvite, TypeOK, RequestsSane, Idle
<1> QED
  BY <1>1, <1>2 DEF AcceptInvite, RemovalInv, There, Tables, History

LEMMA ReadRemoval ==
  ASSUME TypeOK, RemovalInv, NEW r \in Requests, NEW u \in Members, NEW op, NEW pc,
         NEW account, There(u), Read(r, u, op, pc, account),
         UNCHANGED <<Tables, now, signedIn, untold, reinserted>>,
         \A w \in Members : w # u => guesses'[w] = guesses[w]
  PROVE  RemovalInv'
<1>1. invitation[u] # 0
  BY DEF RemovalInv
<1>2. \A q \in Requests : \/ request'[q] = request[q]
                          \/ request'[q].u = u
  BY DEF Read, TypeOK, RequestsSane, Idle
<1> QED
  BY <1>1, <1>2 DEF RemovalInv, There, Tables

LEMMA LoginRemoval ==
  ASSUME TypeOK, RemovalInv, NEW r \in Requests, NEW u \in Members, Login(r, u)
  PROVE  RemovalInv'
<1>1. There(u)
  BY DEF Login, RemovalInv, NoAccount
<1>2. \A w \in Members : w # u => guesses'[w] = guesses[w]
  BY DEF Login, AtRest, TypeOK
<1>3. PICK account : Read(r, u, "login", "verify", account)
  BY DEF Login
<1> QED
  BY <1>1, <1>2, <1>3, ReadRemoval DEF Login

LEMMA MfaRemoval ==
  ASSUME TypeOK, RemovalInv, NEW r \in Requests, NEW u \in Members, NEW account,
         MfaSettings(r, u, account)
  PROVE  RemovalInv'
<1>1. Read(r, u, "mfa", "select", account)
  BY DEF MfaSettings, Save
<1>2. There(u) /\ UNCHANGED <<Tables, now, signedIn, untold, reinserted>> /\ guesses' = guesses
  BY DEF MfaSettings, History
<1> QED
  BY <1>1, <1>2, ReadRemoval

\* A save keeps the rows as they are there or not, or inserts one.
LEMMA WorkRemoval ==
  ASSUME TypeOK, TypeOK', RemovalInv, NEW r \in Requests, Work(r)
  PROVE  RemovalInv'
<1>1. \A q \in Requests : request'[q].pc # "idle" => invitation'[request'[q].u] # 0
  <2>1. \A w \in Members : invitation[w] # 0 => invitation'[w] # 0
    BY DEF Work, AcceptFind, AcceptDelete, WrongPassword, RightPassword, WriteAudit, SaveSelect,
       SaveUpdate, SaveInsert, Tables, TypeOK
  <2> QED
    BY <2>1, AboutKept DEF RemovalInv, TypeOK, RequestsSane, Sane
<1>2. CASE UNCHANGED <<row, granted, trail, signedIn, untold, reinserted, guesses>>
  <2>1. \A w \in Members : invitation[w] # 0 => invitation'[w] # 0
    BY DEF Work, AcceptFind, AcceptDelete, WrongPassword, RightPassword, WriteAudit, SaveSelect,
       SaveUpdate, SaveInsert, Tables, TypeOK
  <2> QED
    BY <1>1, <1>2, <2>1 DEF RemovalInv, There
<1>3. CASE WriteAudit(r)
  <2>1. request[r].u \in Members /\ UNCHANGED <<row, granted, invitation, guesses, reinserted>>
    BY <1>3 DEF WriteAudit, TypeOK, RequestsSane, Sane
  <2>2. \/ There(request[r].u) /\ trail' = trail \cup {request[r].u} /\ untold' = untold
        \/ untold' = untold \cup {request[r].u} /\ trail' = trail
    BY <1>3 DEF WriteAudit
  <2>3. signedIn' \subseteq signedIn \cup {request[r].u}
    BY <1>3 DEF WriteAudit
  <2> QED
    BY <1>1, <2>1, <2>2, <2>3 DEF RemovalInv, There
<1>4. CASE SaveUpdate(r)
  <2>1. PICK u \in Members : u = request[r].u
    BY <1>4 DEF SaveUpdate, TypeOK, RequestsSane, Sane
  <2>2. request[r].pc \in Holding /\ invitation[u] # 0
    BY <1>4, <2>1 DEF SaveUpdate, Holding, RemovalInv
  <2>3. PICK w : w = Written(r, u)
    OBVIOUS
  <2>4. row' = [row EXCEPT ![u] = w]
    BY <1>4, <2>1, <2>3, SaveUpdateTyped
  <2>5. (There(u) => w.status # "none") /\ (~There(u) => w = row[u])
    BY <2>2, <2>3, WrittenTyped
  <2>6. \A m \in Members : (There(m)' <=> There(m)) /\ (~There(m) => row'[m] = row[m])
    BY <2>4, <2>5 DEF There, TypeOK
  <2>7. \A m \in Members : m # u => guesses'[m] = guesses[m]
    BY <1>4, <2>1 DEF SaveUpdate, Saved, TypeOK
  <2> QED
    BY <1>1, <1>4, <2>2, <2>6, <2>7 DEF SaveUpdate, RemovalInv, TypeOK
<1>5. CASE SaveInsert(r) /\ ~There(request[r].u)
  <2>1. PICK u \in Members : u = request[r].u
    BY <1>5 DEF SaveInsert, TypeOK, RequestsSane, Sane
  <2>2. request[r].account.status # "none" /\ invitation[u] # 0
    BY <1>5, <2>1 DEF SaveInsert, Holding, RemovalInv, TypeOK, RequestsSane, Sane
  <2>3. /\ row' = [row EXCEPT ![u] = request[r].account] /\ reinserted' = reinserted \cup {u}
        /\ Saved(r) /\ UNCHANGED <<granted, trail, invitation, now, signedIn, untold>>
    BY <1>5, <2>1 DEF SaveInsert
  <2>4. There(u)' /\ ~There(u) /\ \A m \in Members : m # u => row'[m] = row[m]
    BY <1>5, <2>1, <2>2, <2>3 DEF There, TypeOK
  <2>5. \A m \in Members : m # u => guesses'[m] = guesses[m]
    BY <2>1, <2>3 DEF Saved, TypeOK
  <2>6. \A m \in Members : m # u => (There(m)' <=> There(m))
    BY <2>4 DEF There
  <2>7. \A m \in Members : ~There(m)' => row'[m] = NoAccount
    BY <2>4, <2>6 DEF RemovalInv
  <2>8. \A m \in Members :
          There(m)' \/ guesses'[m] # Disturbed \/ m \in reinserted' => invitation'[m] # 0
    BY <2>2, <2>3, <2>5, <2>6 DEF RemovalInv
  <2>9. \A m \in granted' : There(m)' /\ m \notin reinserted'
    BY <2>3, <2>4, <2>6 DEF RemovalInv, TypeOK
  <2>10. \A m \in trail' : There(m)'
    BY <2>3, <2>4, <2>6 DEF RemovalInv, TypeOK
  <2>11. \A m \in signedIn' : m \in trail' \cup untold'
    BY <2>3 DEF RemovalInv
  <2> QED
    BY <1>1, <2>7, <2>8, <2>9, <2>10, <2>11 DEF RemovalInv
<1>6. CASE ~(SaveInsert(r) /\ ~There(request[r].u)) /\ ~WriteAudit(r) /\ ~SaveUpdate(r)
  BY <1>2, <1>6 DEF Work, AcceptFind, AcceptDelete, WrongPassword, RightPassword, SaveSelect,
     SaveInsert, Tables, History
<1> QED
  BY <1>3, <1>4, <1>5, <1>6

LEMMA TickRemoval ==
  ASSUME TypeOK, RemovalInv, Tick
  PROVE  RemovalInv'
BY DEF Tick, RemovalInv, Tables, There

LEMMA NextRemoval ==
  ASSUME TypeOK, TypeOK', RemovalInv, [Next]_vars
  PROVE  RemovalInv'
<1>1. CASE UNCHANGED vars
  BY <1>1 DEF vars, RemovalInv, There
<1>2. ASSUME NEW u \in Members, Invite(u) \/ Remove(u) PROVE RemovalInv'
  BY <1>2, InviteRemoval, RemoveRemoval
<1>3. ASSUME NEW r \in Requests, NEW u \in Members, AcceptInvite(r, u) \/ Login(r, u)
      PROVE  RemovalInv'
  BY <1>3, AcceptInviteRemoval, LoginRemoval
<1>4. ASSUME NEW r \in Requests, NEW u \in Members, NEW account \in Account,
             MfaSettings(r, u, account)
      PROVE  RemovalInv'
  BY <1>4, MfaRemoval
<1>5. ASSUME NEW r \in Requests, Work(r) PROVE RemovalInv'
  BY <1>5, WorkRemoval
<1>6. CASE Tick
  BY <1>6, TickRemoval
<1> QED
  BY <1>1, <1>2, <1>3, <1>4, <1>5, <1>6, NextCases

\* The types, and what every account's life goes by: one invitation, no role without
\* an account, and no sign-in without an audit entry or the loss of one.
THEOREM AccountsTyping == Spec => [](TypeOK /\ RemovalInv)
<1>1. Init => TypeOK /\ RemovalInv
  BY InitTyped, InitRemoval
<1>2. TypeOK /\ RemovalInv /\ [Next]_vars => TypeOK' /\ RemovalInv'
  BY NextTyped, NextRemoval
<1> QED
  BY <1>1, <1>2, PTL DEF Spec

\* Who comes back by a stale save holds no role, and who was given a session stays
\* unless the audit entry of a sign-in was not written (remove, WriteAudit).
THEOREM AccountsRemoval == Spec => []RemovalHolds
<1>1. TypeOK /\ RemovalInv => RemovalHolds
  BY DEF TypeOK, RemovalInv, RemovalHolds
<1> QED
  BY <1>1, AccountsTyping, PTL

-----------------------------------------------------------------------------
(* The lock.                                                                *)

LEMMA InitLock == Init => LockInv
BY DEF Init, LockInv, Idle, Holding

\* What the invariant says of one request.
LockOf(q, t) == q.pc \in Holding =>
  IF q.op \in {"login", "wrong", "right"} THEN q.lock <= t ELSE q.account.locked = q.lock

\* A request that is replaced by one that is right.
LEMMA LockReplaced ==
  ASSUME TypeOK, LockInv, NEW r, NEW q, LockOf(q, now), now' = now,
         request' = [request EXCEPT ![r] = q]
  PROVE  LockInv'
BY DEF TypeOK, RequestsSane, LockInv, LockOf

LEMMA LockRead ==
  ASSUME TypeOK, LockInv, NEW r, NEW u, NEW op, NEW pc, NEW account,
         Read(r, u, op, pc, account), now' = now,
         op = "login" => row[u].locked <= now,
         op # "login" => account.locked = row[u].locked, op \notin {"wrong", "right"}
  PROVE  LockInv'
<1>1. PICK q : q = [Idle EXCEPT !.pc = pc, !.op = op, !.u = u, !.account = account,
                                !.lock = row[u].locked]
  OBVIOUS
<1>2. LockOf(q, now)
  BY <1>1 DEF LockOf, Idle
<1>3. request' = [request EXCEPT ![r] = q]
  BY <1>1 DEF Read
<1> QED
  BY <1>2, <1>3, LockReplaced

LEMMA LockDone ==
  ASSUME TypeOK, LockInv, NEW r, now' = now,
         Finish(r) \/ Goto(r, "audit") \/ Goto(r, "delete")
  PROVE  LockInv'
<1>1. CASE Finish(r)
  <2>1. LockOf(Idle, now)
    BY DEF LockOf, Idle, Holding
  <2> QED
    BY <1>1, <2>1, LockReplaced DEF Finish
<1>2. ASSUME NEW pc \in {"audit", "delete"}, Goto(r, pc) PROVE LockInv'
  <2>1. PICK q : q = [Idle EXCEPT !.pc = pc, !.op = request[r].op, !.u = request[r].u]
    OBVIOUS
  <2>2. LockOf(q, now)
    BY <2>1 DEF LockOf, Idle, Holding
  <2> QED
    BY <1>2, <2>1, <2>2, LockReplaced DEF Goto
<1> QED
  BY <1>1, <1>2

LEMMA LockSaved ==
  ASSUME TypeOK, LockInv, NEW r \in Requests, now' = now, Saved(r)
  PROVE  LockInv'
<1>1. Finish(r) \/ Goto(r, "audit") \/ Goto(r, "delete")
  BY DEF Saved
<1> QED
  BY <1>1, LockDone

LEMMA WorkLock ==
  ASSUME TypeOK, LockInv, NEW r \in Requests, Work(r)
  PROVE  LockInv'
<1>1. CASE AcceptFind(r)
  <2>1. now' = now
    BY <1>1 DEF AcceptFind
  <2>2. CASE There(request[r].u)
    <3>1. PICK u \in Members : u = request[r].u
      BY <1>1 DEF AcceptFind, TypeOK, RequestsSane, Sane
    <3>2. PICK account : account = [row[u] EXCEPT !.password = TRUE, !.status = "ACTIVE"]
      OBVIOUS
    <3>3. account.locked = row[u].locked
      BY <3>2 DEF TypeOK, Account
    <3>4. Read(r, u, "accept", "select", account)
      BY <1>1, <2>2, <3>1, <3>2 DEF AcceptFind, Save
    <3> QED
      BY <2>1, <3>3, <3>4, LockRead
  <2> QED
    BY <1>1, <2>1, <2>2, LockDone DEF AcceptFind
<1>2. CASE AcceptDelete(r) \/ WriteAudit(r)
  BY <1>2, LockDone DEF AcceptDelete, WriteAudit
<1>3. CASE WrongPassword(r) \/ RightPassword(r)
  <2>1. now' = now
    BY <1>3 DEF WrongPassword, RightPassword
  <2>2. ASSUME NEW account, NEW op \in {"wrong", "right"}, Keep(r, account, op)
        PROVE  LockInv'
    <3>1. PICK q : q = [request[r] EXCEPT !.account = account, !.op = op, !.pc = "select"]
      OBVIOUS
    <3>2. request[r] \in RequestSet /\ request[r].pc = "verify" /\ request[r].op = "login"
      BY <1>3 DEF WrongPassword, RightPassword, TypeOK, RequestsSane, Sane
    <3>3. request' = [request EXCEPT ![r] = q]
      BY <2>2, <3>1, <3>2 DEF Keep, TypeOK, RequestsSane, RequestSet
    <3>4. request[r].lock <= now
      BY <3>2 DEF LockInv, Holding
    <3>5. LockOf(q, now)
      BY <3>1, <3>2, <3>4 DEF LockOf, RequestSet
    <3> QED
      BY <2>1, <3>3, <3>5, LockReplaced
  <2>3. (\E account : Keep(r, account, "wrong") \/ Keep(r, account, "right")) \/ Finish(r)
    BY <1>3 DEF WrongPassword, RightPassword
  <2> QED
    BY <2>1, <2>2, <2>3, LockDone
<1>4. CASE SaveSelect(r)
  <2>1. PICK pc \in {"update", "insert"}, columns \in SUBSET Columns :
          request' = [request EXCEPT ![r].pc = pc, ![r].columns = columns]
    BY <1>4 DEF SaveSelect
  <2>2. PICK q : q = [request[r] EXCEPT !.pc = pc, !.columns = columns]
    OBVIOUS
  <2>3. request[r] \in RequestSet /\ request[r].pc = "select"
    BY <1>4 DEF SaveSelect, TypeOK, RequestsSane
  <2>4. request' = [request EXCEPT ![r] = q]
    BY <2>1, <2>2 DEF TypeOK, RequestsSane, RequestSet
  <2>5. LockOf(q, now)
    BY <2>2, <2>3 DEF LockOf, LockInv, RequestSet, Holding
  <2> QED
    BY <1>4, <2>4, <2>5, LockReplaced DEF SaveSelect
<1>5. CASE SaveUpdate(r)
  BY <1>5, LockSaved DEF SaveUpdate
<1>6. CASE SaveInsert(r)
  BY <1>6, LockSaved, LockDone DEF SaveInsert
<1> QED
  BY <1>1, <1>2, <1>3, <1>4, <1>5, <1>6 DEF Work

LEMMA NextLock ==
  ASSUME TypeOK, TypeOK', LockInv, [Next]_vars
  PROVE  LockInv'
<1>1. CASE UNCHANGED vars
  BY <1>1 DEF vars, LockInv
<1>2. ASSUME NEW u \in Members, Invite(u) \/ Remove(u) PROVE LockInv'
  BY <1>2 DEF Invite, Remove, LockInv
<1>3. ASSUME NEW r \in Requests, NEW u \in Members, AcceptInvite(r, u) PROVE LockInv'
  <2>1. PICK q : q.pc = "find" /\ request' = [request EXCEPT ![r] = q] /\ now' = now
    BY <1>3 DEF AcceptInvite, Idle
  <2> QED
    BY <2>1, LockReplaced DEF LockOf, Holding
<1>4. ASSUME NEW r \in Requests, NEW u \in Members, Login(r, u) PROVE LockInv'
  <2>1. row[u].locked <= now
    BY <1>4 DEF Login, Locked, TypeOK, Account
  <2>2. PICK account : Read(r, u, "login", "verify", account) /\ now' = now
    BY <1>4 DEF Login
  <2> QED
    BY <2>1, <2>2, LockRead
<1>5. ASSUME NEW r \in Requests, NEW u \in Members, NEW account \in Account,
             account.locked = row[u].locked, MfaSettings(r, u, account)
      PROVE  LockInv'
  BY <1>5, LockRead DEF MfaSettings, Save
<1>6. ASSUME NEW r \in Requests, Work(r) PROVE LockInv'
  BY <1>6, WorkLock
<1>7. CASE Tick
  <2>1. now' >= now /\ request' = request /\ now \in Int /\ now' \in Int
    BY <1>7 DEF Tick, TypeOK
  <2>2. \A r \in Requests : request[r].lock \in Nat
    BY DEF TypeOK, RequestsSane, RequestSet
  <2> QED
    BY <2>1, <2>2 DEF LockInv
<1> QED
  BY <1>1, <1>2, <1>3, <1>4, <1>5, <1>6, <1>7, NextCases

\* Only a save unlocks.
LEMMA LockStep ==
  ASSUME TypeOK, TypeOK', RemovalInv, LockInv, [Next]_vars, NEW u \in Members,
         Locked(u), now' = now, ~Locked(u)', There(u)'
  PROVE  \E r \in Requests :
           /\ request[r].u = u /\ request[r].pc = "update"
           /\ request[r].lock # row[u].locked
<1>1. There(u) /\ row[u].locked > now
  BY AccountsAssumption DEF Locked, RemovalInv, NoAccount, TypeOK
<1>2. row'[u].locked # row[u].locked /\ ~(row'[u].locked > now)
  BY DEF Locked
<1>3. PICK r \in Requests : SaveUpdate(r)
  <2>1. ~(\E r \in Requests : Work(r)) => FALSE
    <3>1. \A w \in Members : Invite(w) => w # u
      BY <1>1 DEF Invite, RemovalInv
    <3>2. ASSUME NEW w \in Members, Invite(w) \/ Remove(w) PROVE FALSE
      BY <1>1, <1>2, <3>1, <3>2 DEF Invite, Remove, There, NoAccount, TypeOK
    <3> QED
      BY <1>2, <3>2, NextCases DEF vars, AcceptInvite, Login, MfaSettings, Tick, Tables
  <2>2. PICK r \in Requests : Work(r)
    BY <2>1
  <2>3. ~SaveInsert(r)
    <3>1. ASSUME SaveInsert(r) PROVE request[r].u # u /\ request[r].u \in Members
      BY <1>1, <1>2, <3>1 DEF SaveInsert, TypeOK, RequestsSane, Sane
    <3> QED
      BY <1>2, <3>1 DEF SaveInsert, TypeOK
  <2> QED
    BY <1>2, <2>2, <2>3 DEF Work, AcceptFind, AcceptDelete, WrongPassword, RightPassword,
       WriteAudit, SaveSelect, Tables
<1>4. PICK m \in Members : m = request[r].u
  BY <1>3 DEF SaveUpdate, TypeOK, RequestsSane, Sane
<1>5. PICK w : w = Written(r, m)
  OBVIOUS
<1>6. row' = [row EXCEPT ![m] = w]
  BY <1>3, <1>4, <1>5, SaveUpdateTyped
<1>7. m = u
  BY <1>2, <1>6 DEF TypeOK
<1>8. w.locked = request[r].account.locked /\ request[r].account.locked # row[u].locked
  BY <1>1, <1>2, <1>3, <1>5, <1>6, <1>7, WrittenTyped DEF SaveUpdate, Holding, Columns, TypeOK
<1>9. request[r].lock # row[u].locked
  <2>1. request[r].lock \in Nat /\ row[u].locked \in Nat /\ now \in Int
    BY DEF TypeOK, RequestsSane, RequestSet, Account
  <2> QED
    BY <1>1, <1>3, <1>8, <2>1 DEF LockInv, SaveUpdate, Holding
<1> QED
  BY <1>3, <1>4, <1>7, <1>9 DEF SaveUpdate

\* A lock ends with its time, with the account, or by the save of a request that read
\* the account before it was locked (login).
THEOREM AccountsLock == Spec => LockHolds
<1>1. Init => LockInv
  BY InitLock
<1>2. TypeOK /\ TypeOK' /\ LockInv /\ [Next]_vars => LockInv'
  BY NextLock
<1>3. TypeOK /\ TypeOK' /\ RemovalInv /\ LockInv /\ [Next]_vars =>
      [\A u \in Members : Locked(u) /\ now' = now /\ ~Locked(u)' =>
       \/ ~There(u)'
       \/ \E r \in Requests :
            /\ request[r].u = u /\ request[r].pc = "update"
            /\ request[r].lock # row[u].locked]_vars
  BY LockStep
<1> QED
  BY <1>1, <1>2, <1>3, AccountsTyping, PTL DEF Spec, LockHolds

-----------------------------------------------------------------------------
(* Guesses.                                                                 *)

LEMMA RoomStep ==
  ASSUME NEW n \in Int, n >= -1
  PROVE  /\ Room(n) \in Int
         /\ Room(n + 1) = Room(n) + n + 2
<1>1. \A p, k \in Int : (p + 2 * k) \div 2 = p \div 2 + k
  OBVIOUS
<1>2. (n + 1) * ((n + 1) + 3) = n * (n + 3) + 2 * (n + 2)
  OBVIOUS
<1>3. n * (n + 3) \in Int /\ n + 2 \in Int
  OBVIOUS
<1>4. ((n + 1) * ((n + 1) + 3)) \div 2 = (n * (n + 3)) \div 2 + (n + 2)
  BY <1>1, <1>2, <1>3
<1> QED
  BY <1>3, <1>4 DEF Room

LEMMA RoomEnds == Room(0) = 0 /\ Room(-1) = -1
BY DEF Room

LEMMA RoomGrows ==
  ASSUME NEW m \in Int, NEW n \in Int, -1 <= m, m <= n
  PROVE  Room(m) <= Room(n)
<1>1. n * (n + 3) = m * (m + 3) + (n - m) * (n + m + 3)
  OBVIOUS
<1>2. (n - m) * (n + m + 3) >= 0
  <2>1. \A x, y \in Nat : x * y >= 0
    OBVIOUS
  <2>2. n - m \in Nat /\ n + m + 3 \in Nat
    OBVIOUS
  <2> QED
    BY <2>1, <2>2
<1>3. PICK p \in Int, q \in Int : p = m * (m + 3) /\ q = n * (n + 3) /\ p <= q
  <2>1. m * (m + 3) \in Int /\ n * (n + 3) \in Int /\ (n - m) * (n + m + 3) \in Int
    OBVIOUS
  <2> QED
    BY <1>1, <1>2, <2>1
<1>4. p \div 2 <= q \div 2
  BY <1>3
<1> QED
  BY <1>3, <1>4 DEF Room

Steps == 0 .. MaxAttempts

LEMMA LeftTyped ==
  ASSUME NEW x \in Steps, NEW y \in Steps
  PROVE  /\ Left(x, y) \in Int /\ Left(x, y) >= 0
         /\ Left(x, y) = Left(y, x)
<1> USE AccountsAssumption
<1>1. /\ MaxAttempts - x - 1 \in Int /\ MaxAttempts - x - 1 >= -1
      /\ MaxAttempts - y - 1 \in Int /\ MaxAttempts - y - 1 >= -1
  BY DEF Steps
<1>2. /\ Room(MaxAttempts - x - 1) \in Int /\ Room(MaxAttempts - x - 1) >= -1
      /\ Room(MaxAttempts - y - 1) \in Int /\ Room(MaxAttempts - y - 1) >= -1
  BY <1>1, RoomStep, RoomGrows, RoomEnds
<1> QED
  BY <1>2 DEF Left, Steps

\* Whoever has got further has less left.
LEMMA LeftShrinks ==
  ASSUME NEW x \in Steps, NEW y \in Steps, NEW v \in Steps, NEW w \in Steps, x <= v, y <= w
  PROVE  Left(v, w) <= Left(x, y)
<1> USE AccountsAssumption DEF Steps
<1>1. PICK lo \in Steps : lo = Lower(x, y)
  BY DEF Lower
<1>2. PICK hi \in Steps : hi = IF x <= y THEN y ELSE x
  OBVIOUS
<1>3. PICK lo2 \in Steps : lo2 = Lower(v, w)
  BY DEF Lower
<1>4. PICK hi2 \in Steps : hi2 = IF v <= w THEN w ELSE v
  OBVIOUS
<1>5. lo <= lo2 /\ hi <= hi2
  BY <1>1, <1>2, <1>3, <1>4 DEF Lower
<1>6. /\ Left(x, y) = 1 + MaxAttempts - hi + Room(MaxAttempts - lo - 1)
      /\ Left(v, w) = 1 + MaxAttempts - hi2 + Room(MaxAttempts - lo2 - 1)
  BY <1>1, <1>2, <1>3, <1>4 DEF Left, Lower
<1>7. /\ MaxAttempts - lo - 1 \in Int /\ MaxAttempts - lo2 - 1 \in Int
      /\ -1 <= MaxAttempts - lo2 - 1 /\ MaxAttempts - lo2 - 1 <= MaxAttempts - lo - 1
  BY <1>5
<1>8. /\ Room(MaxAttempts - lo2 - 1) <= Room(MaxAttempts - lo - 1)
      /\ Room(MaxAttempts - lo - 1) \in Int /\ Room(MaxAttempts - lo2 - 1) \in Int
  BY <1>7, RoomGrows, RoomStep
<1> HIDE DEF Steps
<1> QED
  BY <1>5, <1>6, <1>8 DEF Steps

\* A wrong password that takes its request a step further.
LEMMA LeftStep ==
  ASSUME NEW x \in Steps, NEW y \in Steps, x < MaxAttempts
  PROVE  x + 1 \in Steps /\ 1 + Left(x + 1, y) <= Left(x, y)
<1> USE AccountsAssumption
<1>1. PICK n \in Int : n = MaxAttempts - x - 2 /\ n >= -1
  BY DEF Steps
<1>2. Room(n) \in Int /\ Room(n + 1) = Room(n) + n + 2
  BY <1>1, RoomStep
<1>3. n + 1 = MaxAttempts - x - 1 /\ n = MaxAttempts - (x + 1) - 1
  BY <1>1 DEF Steps
<1>4. MaxAttempts - y - 1 \in Int /\ MaxAttempts - y - 1 >= -1
  BY DEF Steps
<1>5. Room(MaxAttempts - y - 1) \in Int
  BY <1>4, RoomStep
<1>6. CASE x + 1 <= y
  BY <1>1, <1>2, <1>3, <1>6 DEF Left, Steps
<1>7. CASE y < x + 1
  <2>1. CASE x = y
    <3>1. MaxAttempts - y - 1 = MaxAttempts - x - 1
      BY <2>1
    <3> QED
      BY <2>1, <3>1, <1>5 DEF Left, Steps
  <2>2. CASE y < x
    BY <2>2, <1>5 DEF Left, Steps
  <2> QED
    BY <1>7, <2>1, <2>2 DEF Steps
<1>8. x + 1 \in Steps
  BY DEF Steps
<1> QED
  BY <1>6, <1>7, <1>8 DEF Steps

\* A save that puts the count back to one after where it began.
LEMMA LeftBack ==
  ASSUME NEW x \in Steps, NEW y \in Steps, x < MaxAttempts, x < y
  PROVE  1 + Left(x + 1, x + 1) <= Left(x, y)
<1> USE AccountsAssumption
<1>1. PICK n \in Int : n = MaxAttempts - x - 2 /\ n >= -1
  BY DEF Steps
<1>2. Room(n) \in Int /\ Room(n + 1) = Room(n) + n + 2
  BY <1>1, RoomStep
<1>3. n + 1 = MaxAttempts - x - 1 /\ n = MaxAttempts - (x + 1) - 1
  BY <1>1 DEF Steps
<1> QED
  BY <1>1, <1>2, <1>3 DEF Left, Steps

LEMMA LeftAll == Left(0, 0) = Room(MaxAttempts) /\ 0 \in Steps /\ Room(MaxAttempts) \in Int
<1> USE AccountsAssumption
<1>1. PICK n \in Int : n = MaxAttempts - 1 /\ n >= -1 /\ n = MaxAttempts - 0 - 1
  OBVIOUS
<1>2. Room(n) \in Int /\ Room(n + 1) = Room(n) + n + 2 /\ n + 1 = MaxAttempts
  BY <1>1, RoomStep
<1> QED
  BY <1>1, <1>2 DEF Left, Steps

\* The ranges of what the potential is made of.
LEMMA Ranges ==
  ASSUME TypeOK, NEW u \in Members, NEW r \in Requests,
         Guessing(r, u) => GuessSane(r, u)
  PROVE  /\ Level(u) \in Steps
         /\ Reach(r, u) \in Steps /\ Reach(r, u) <= Level(u)
         /\ Spent(r, u) \in {0, 1}
         /\ Guessing(r, u) => Base(r) \in Steps /\ Base(r) < MaxAttempts
<1> USE AccountsAssumption
<1>1. /\ request[r].account.failed \in 0 .. MaxAttempts - 1 /\ request[r].account.locked \in Nat
      /\ request[r].lock \in Nat /\ now \in Nat
      /\ row[u].failed \in 0 .. MaxAttempts - 1 /\ row[u].locked \in Nat
  BY DEF TypeOK, RequestsSane, RequestSet, Account, Attempts
<1>2. Level(u) \in Steps
  BY <1>1 DEF Level, Steps
<1>3. ASSUME Guessing(r, u) PROVE Base(r) \in Steps /\ Base(r) < MaxAttempts
  <2>1. CASE request[r].pc = "verify"
    BY <1>1, <2>1 DEF Base, Steps
  <2>2. CASE Locks(r)
    BY <2>2 DEF Base, Steps, Locks
  <2>3. CASE request[r].pc # "verify" /\ ~Locks(r)
    <3>1. request[r].account.failed > 0
      BY <1>1, <1>3, <2>3 DEF GuessSane, Locks
    <3> QED
      BY <1>1, <2>3, <3>1 DEF Base, Steps
  <2> QED
    BY <2>1, <2>2, <2>3
<1>4. Reach(r, u) \in Steps /\ Reach(r, u) <= Level(u)
  BY <1>2, <1>3 DEF Reach, Lower, Steps
<1>5. Spent(r, u) \in {0, 1}
  BY DEF Spent
<1> QED
  BY <1>2, <1>3, <1>4, <1>5

LEMMA RangesNext ==
  ASSUME TypeOK', NEW u \in Members, NEW r \in Requests,
         Guessing(r, u)' => GuessSane(r, u)'
  PROVE  /\ Level(u)' \in Steps
         /\ Reach(r, u)' \in Steps /\ Reach(r, u)' <= Level(u)'
         /\ Spent(r, u)' \in {0, 1}
<1> USE AccountsAssumption
<1>1. /\ request'[r].account.failed \in 0 .. MaxAttempts - 1 /\ request'[r].account.locked \in Nat
      /\ request'[r].lock \in Nat /\ now' \in Nat
      /\ row'[u].failed \in 0 .. MaxAttempts - 1 /\ row'[u].locked \in Nat
  BY DEF TypeOK, RequestsSane, RequestSet, Account, Attempts
<1>2. Level(u)' \in Steps
  BY <1>1 DEF Level, Steps
<1>3. ASSUME Guessing(r, u)' PROVE Base(r)' \in Steps
  <2>1. CASE request'[r].pc = "verify"
    BY <1>1, <2>1 DEF Base, Steps
  <2>2. CASE Locks(r)'
    BY <2>2 DEF Base, Steps, Locks
  <2>3. CASE request'[r].pc # "verify" /\ ~Locks(r)'
    <3>1. request'[r].account.failed > 0
      BY <1>1, <1>3, <2>3 DEF GuessSane, Locks
    <3> QED
      BY <1>1, <2>3, <3>1 DEF Base, Steps
  <2> QED
    BY <2>1, <2>2, <2>3
<1>4. Reach(r, u)' \in Steps /\ Reach(r, u)' <= Level(u)'
  BY <1>2, <1>3 DEF Reach, Lower, Steps
<1>5. Spent(r, u)' \in {0, 1}
  BY DEF Spent
<1> QED
  BY <1>2, <1>4, <1>5

\* The account and the other requests stay as they are; a request that was not
\* replaced, or that does not guess now, is no further back than it was.
LEMMA GuessSteady ==
  ASSUME TypeOK, TypeOK', NEW u \in Members, GuessOk(u), guesses[u] # Disturbed,
         guesses'[u] = guesses[u], row'[u] = row[u], now' = now,
         \A r \in Requests : request'[r] = request[r] \/ ~Guessing(r, u)'
  PROVE  GuessOk(u)'
<1>1. Level(u)' = Level(u)
  BY DEF Level, There, Locked
<1>2. \A r \in Requests : request'[r] = request[r] =>
        /\ Guessing(r, u)' <=> Guessing(r, u)
        /\ Base(r)' = Base(r) /\ (Nothing(r)' <=> Nothing(r))
        /\ Spent(r, u)' = Spent(r, u) /\ Reach(r, u)' = Reach(r, u)
        /\ GuessSane(r, u)' <=> GuessSane(r, u)
        /\ Unrivalled(r, u)' <=> Unrivalled(r, u)
  BY <1>1 DEF Guessing, Base, Locks, Nothing, Spent, Reach, Lower, GuessSane, Unrivalled, There
<1>3. \A r \in Requests : ~Guessing(r, u)' => Reach(r, u)' = Level(u) /\ Spent(r, u)' = 0
  BY <1>1 DEF Reach, Spent
<1>4. \A r \in Requests : Guessing(r, u)' => GuessSane(r, u)' /\ Guessing(r, u)
  BY <1>2 DEF GuessOk
<1>5. \A r \in Requests : /\ Reach(r, u) \in Steps /\ Reach(r, u) <= Level(u)
                          /\ Spent(r, u) \in {0, 1} /\ Level(u) \in Steps
  BY Ranges DEF GuessOk
<1>6. \A r \in Requests : /\ Reach(r, u)' \in Steps /\ Reach(r, u) <= Reach(r, u)'
                          /\ Spent(r, u)' \in {0, 1} /\ Spent(r, u)' <= Spent(r, u)
  BY <1>2, <1>3, <1>5 DEF Steps
<1>7. ASSUME NEW r \in Requests, NEW s \in Requests, r # s PROVE PairSane(r, s, u)'
  <2>1. PairSane(r, s, u)
    BY <1>7 DEF GuessOk
  <2>2. ASSUME Guessing(r, u)', Guessing(s, u)'
        PROVE  /\ request'[r].lock = request'[s].lock
               /\ There(u)' => row'[u].locked = request'[r].lock
    <3>1. request'[r] = request[r] /\ request'[s] = request[s]
      BY <2>2
    <3> QED
      BY <1>4, <2>1, <2>2, <3>1 DEF PairSane, There
  <2>3. ASSUME Guessing(r, u)', Unrivalled(r, u)'
        PROVE  /\ ~Guessing(s, u)'
               /\ There(u)' => /\ row'[u].locked = now' + Lockout
                               /\ ~Locks(r)' => row'[u].failed = request'[r].account.failed
    <3>1. request'[r] = request[r]
      BY <2>3
    <3>2. Guessing(r, u) /\ Unrivalled(r, u) /\ (Locks(r)' <=> Locks(r))
      BY <1>2, <2>3, <3>1 DEF Locks
    <3> QED
      BY <1>4, <2>1, <3>1, <3>2 DEF PairSane, There
  <2> QED
    BY <2>2, <2>3 DEF PairSane
<1>8. ASSUME NEW r \in Requests, NEW s \in Requests, r # s
      PROVE  guesses'[u] + Spent(r, u)' + Spent(s, u)' + Left(Reach(r, u)', Reach(s, u)')
               <= Room(MaxAttempts)
  <2>1. guesses[u] + Spent(r, u) + Spent(s, u) + Left(Reach(r, u), Reach(s, u))
          <= Room(MaxAttempts)
    BY <1>8 DEF GuessOk
  <2>2. Left(Reach(r, u)', Reach(s, u)') <= Left(Reach(r, u), Reach(s, u))
    BY <1>5, <1>6, LeftShrinks
  <2>3. Left(Reach(r, u)', Reach(s, u)') \in Int /\ Left(Reach(r, u), Reach(s, u)) \in Int
    BY <1>5, <1>6, LeftTyped
  <2>4. guesses[u] \in Int /\ Room(MaxAttempts) \in Int
    BY LeftAll DEF TypeOK, Disturbed
  <2>5. /\ Spent(r, u)' \in {0, 1} /\ Spent(r, u)' <= Spent(r, u) /\ Spent(r, u) \in {0, 1}
        /\ Spent(s, u)' \in {0, 1} /\ Spent(s, u)' <= Spent(s, u) /\ Spent(s, u) \in {0, 1}
    BY <1>5, <1>6
  <2> QED
    BY <2>1, <2>2, <2>3, <2>4, <2>5
<1> QED
  BY <1>4, <1>7, <1>8 DEF GuessOk

\* Two requests: what is to be shown of them.
LEMMA GuessOfTwo ==
  ASSUME NEW r, NEW s, r # s, Requests = {r, s}, NEW u \in Members, TypeOK',
         Guessing(r, u)' => GuessSane(r, u)', Guessing(s, u)' => GuessSane(s, u)',
         PairSane(r, s, u)', PairSane(s, r, u)',
         guesses'[u] \in Nat,
         guesses'[u] + Spent(r, u)' + Spent(s, u)' + Left(Reach(r, u)', Reach(s, u)')
           <= Room(MaxAttempts)
  PROVE  GuessOk(u)'
<1>1. /\ Reach(r, u)' \in Steps /\ Reach(s, u)' \in Steps
      /\ Spent(r, u)' \in {0, 1} /\ Spent(s, u)' \in {0, 1}
  BY RangesNext
<1>2. Left(Reach(r, u)', Reach(s, u)') = Left(Reach(s, u)', Reach(r, u)')
  BY <1>1, LeftTyped
<1>3. Left(Reach(r, u)', Reach(s, u)') \in Int
  BY <1>1, LeftTyped
<1>4. guesses'[u] + Spent(s, u)' + Spent(r, u)' + Left(Reach(s, u)', Reach(r, u)')
        <= Room(MaxAttempts)
  <2>1. guesses'[u] + Spent(s, u)' + Spent(r, u)' = guesses'[u] + Spent(r, u)' + Spent(s, u)'
    BY <1>1
  <2> QED
    BY <1>2, <2>1
<1> QED
  BY <1>4 DEF GuessOk

\* What a request that stays as it is keeps when its member's row does not change.
LEMMA OtherKept ==
  ASSUME NEW s, NEW u, request'[s] = request[s], row'[u] = row[u], now' = now
  PROVE  /\ Level(u)' = Level(u)
         /\ Guessing(s, u)' <=> Guessing(s, u)
         /\ Base(s)' = Base(s) /\ (Nothing(s)' <=> Nothing(s)) /\ (Locks(s)' <=> Locks(s))
         /\ Spent(s, u)' = Spent(s, u) /\ Reach(s, u)' = Reach(s, u)
         /\ GuessSane(s, u)' <=> GuessSane(s, u)
         /\ Unrivalled(s, u)' <=> Unrivalled(s, u)
BY DEF Guessing, Base, Locks, Nothing, Spent, Reach, Lower, GuessSane, Unrivalled, There, Level,
       Locked

LEMMA LoginGuess ==
  ASSUME TypeOK, TypeOK', RemovalInv, NEW r, NEW s, r # s, Requests = {r, s},
         NEW u \in Members, Login(r, u),
         guesses[u] # Disturbed => GuessOk(u), guesses'[u] # Disturbed
  PROVE  GuessOk(u)'
<1>1. /\ request'[r].pc = "verify" /\ request'[r].u = u /\ request'[r].account = row[u]
      /\ request'[r].lock = row[u].locked
      /\ request'[s] = request[s]
      /\ request[r].pc = "idle" /\ row' = row /\ now' = now
  BY DEF Login, Read, Idle, Tables, TypeOK, RequestsSane
<1>2. There(u) /\ ~Locked(u)
  BY DEF Login, RemovalInv, NoAccount
<1>3. /\ row[u].failed \in 0 .. MaxAttempts - 1 /\ row[u].locked \in Nat /\ now \in Nat
      /\ row[u].locked <= now
  BY <1>2, AccountsAssumption DEF TypeOK, Account, Attempts, Locked
<1>4. Level(u) = row[u].failed /\ Level(u)' = row[u].failed
  BY <1>1, <1>2 DEF Level, There, Locked
<1>5. Base(r)' = row[u].failed /\ Guessing(r, u)' /\ ~Nothing(r)'
  BY <1>1 DEF Base, Guessing, Nothing
<1>6. Reach(r, u)' = row[u].failed /\ Spent(r, u)' = 0
  BY <1>3, <1>4, <1>5 DEF Reach, Spent, Lower
<1>7. GuessSane(r, u)' /\ ~Unrivalled(r, u)'
  BY <1>1, <1>3 DEF GuessSane, Unrivalled
<1>8. ~Guessing(r, u) /\ Reach(r, u) = Level(u) /\ Spent(r, u) = 0
  BY <1>1 DEF Guessing, Reach, Spent, SaveSteps
<1>9. CASE row[u].failed = 0 /\ \A q \in Requests : request[q].u # u
  <2>1. guesses'[u] = 0
    BY <1>9 DEF Login, AtRest, TypeOK
  <2>2. ~Guessing(s, u)'
    BY <1>1, <1>9 DEF Guessing
  <2>3. Reach(s, u)' = 0 /\ Spent(s, u)' = 0
    BY <1>4, <1>9, <2>2 DEF Reach, Spent
  <2>4. PairSane(r, s, u)' /\ PairSane(s, r, u)'
    BY <1>7, <2>2 DEF PairSane
  <2>5. guesses'[u] + Spent(r, u)' + Spent(s, u)' + Left(Reach(r, u)', Reach(s, u)')
          <= Room(MaxAttempts)
    BY <1>6, <1>9, <2>1, <2>3, LeftAll
  <2> QED
    BY <1>7, <2>1, <2>2, <2>4, <2>5, GuessOfTwo
<1>10. CASE ~(row[u].failed = 0 /\ \A q \in Requests : request[q].u # u)
  <2>1. guesses'[u] = guesses[u] /\ guesses'[u] \in Nat
    <3>1. guesses'[u] = guesses[u]
      BY <1>10 DEF Login, AtRest, TypeOK
    <3> QED
      BY <3>1 DEF TypeOK
  <2>2. GuessOk(u)
    BY <2>1
  <2>3. /\ Guessing(s, u)' <=> Guessing(s, u)
        /\ Spent(s, u)' = Spent(s, u) /\ Reach(s, u)' = Reach(s, u)
        /\ GuessSane(s, u)' <=> GuessSane(s, u)
        /\ Unrivalled(s, u)' <=> Unrivalled(s, u)
    BY <1>1, OtherKept
  <2>4. Guessing(s, u) => GuessSane(s, u) /\ PairSane(s, r, u)
    BY <2>2 DEF GuessOk
  <2>5. ASSUME Guessing(s, u)
        PROVE  request[s].lock = row[u].locked /\ ~Unrivalled(s, u)
    <3>1. request[s].lock = row[u].locked
      BY <1>2, <1>3, <2>4, <2>5, AccountsAssumption DEF GuessSane
    <3>2. ASSUME Unrivalled(s, u) PROVE FALSE
      <4>1. row[u].locked = now + Lockout
        BY <1>2, <2>4, <2>5, <3>2 DEF PairSane
      <4> QED
        BY <1>3, <4>1, AccountsAssumption
    <3> QED
      BY <3>1, <3>2
  <2>6. PairSane(r, s, u)' /\ PairSane(s, r, u)'
    <3>1. Guessing(s, u)' => request'[s].lock = row'[u].locked /\ ~Unrivalled(s, u)'
      BY <1>1, <2>3, <2>5
    <3> QED
      BY <1>1, <1>7, <3>1 DEF PairSane
  <2>7. guesses[u] + Spent(r, u) + Spent(s, u) + Left(Reach(r, u), Reach(s, u))
          <= Room(MaxAttempts)
    BY <2>2 DEF GuessOk
  <2>8. guesses'[u] + Spent(r, u)' + Spent(s, u)' + Left(Reach(r, u)', Reach(s, u)')
          <= Room(MaxAttempts)
    BY <1>4, <1>6, <1>8, <2>1, <2>3, <2>7
  <2> QED
    BY <1>7, <2>1, <2>3, <2>4, <2>6, <2>8, GuessOfTwo
<1> QED
  BY <1>9, <1>10

LEMMA WrongGuess ==
  ASSUME TypeOK, TypeOK', NEW r, NEW s, r # s, Requests = {r, s},
         NEW u \in Members, WrongPassword(r), request[r].u = u,
         guesses[u] # Disturbed, GuessOk(u)
  PROVE  GuessOk(u)'
<1> DEFINE a == request[r].account
<1>1. Guessing(r, u) /\ GuessSane(r, u)
  BY DEF WrongPassword, Guessing, GuessOk
<1>2. /\ a \in Account /\ a.failed \in 0 .. MaxAttempts - 1 /\ a.locked = request[r].lock
      /\ request[r].lock <= now /\ request[r].lock \in Nat /\ now \in 1 .. MaxTime
  BY <1>1 DEF GuessSane, WrongPassword, TypeOK, RequestsSane, RequestSet, Account, Attempts
<1>3. PICK b : b = IF a.failed + 1 >= MaxAttempts
                   THEN [a EXCEPT !.failed = 0, !.locked = now + Lockout]
                   ELSE [a EXCEPT !.failed = a.failed + 1]
  OBVIOUS
<1>4. \/ b.locked = now + Lockout /\ b.failed = 0 /\ a.failed = MaxAttempts - 1
      \/ b.locked = request[r].lock /\ b.failed = a.failed + 1
  <2>1. CASE a.failed + 1 >= MaxAttempts
    <3>1. b.locked = now + Lockout /\ b.failed = 0
      BY <1>2, <1>3, <2>1, FailedTyped
    <3> QED
      BY <1>2, <2>1, <3>1, AccountsAssumption
  <2>2. CASE ~(a.failed + 1 >= MaxAttempts)
    BY <1>2, <1>3, <2>2, FailedTyped
  <2> QED
    BY <2>1, <2>2
<1> HIDE DEF a
<1>5. PICK q : q = [request[r] EXCEPT !.account = b, !.op = "wrong", !.pc = "select"]
  OBVIOUS
<1>6. Keep(r, b, "wrong") /\ request[r].pc = "verify" /\ UNCHANGED <<row, now, guesses>>
  BY <1>3 DEF WrongPassword, Tables, History, a
<1>7. request' = [request EXCEPT ![r] = q]
  BY <1>5, <1>6 DEF Keep, TypeOK, RequestsSane, RequestSet
<1>8. /\ q.pc = "select" /\ q.op = "wrong" /\ q.u = u /\ q.account = b /\ q.lock = request[r].lock
  BY <1>5 DEF TypeOK, RequestsSane, RequestSet
<1>9. request'[r] = q /\ request'[s] = request[s]
  BY <1>7 DEF TypeOK, RequestsSane
<1>10. Guessing(r, u)' /\ ~Nothing(r)' /\ ~Unrivalled(r, u)'
  BY <1>8, <1>9 DEF Guessing, Nothing, Unrivalled, SaveSteps
<1>11. GuessSane(r, u)'
  <2>1. There(u) => row[u].locked \in {request[r].lock, now + Lockout}
    BY <1>1 DEF GuessSane
  <2>2. \/ b.locked = request[r].lock /\ b.failed > 0
        \/ b.locked = now + Lockout /\ b.failed = 0
    BY <1>2, <1>4
  <2> QED
    BY <1>2, <1>6, <1>8, <1>9, <2>1, <2>2 DEF GuessSane, There
<1>12. Base(r) = a.failed /\ Base(r)' = a.failed
  <2>1. Base(r) = a.failed
    BY <1>6 DEF Base, a
  <2>2. CASE b.locked = now + Lockout /\ b.failed = 0 /\ a.failed = MaxAttempts - 1
    <3>1. Locks(r)'
      BY <1>2, <1>6, <1>8, <1>9, <2>2, AccountsAssumption DEF Locks
    <3> QED
      BY <1>8, <1>9, <2>1, <2>2, <3>1 DEF Base
  <2>3. CASE b.locked = request[r].lock /\ b.failed = a.failed + 1
    <3>1. ~Locks(r)'
      BY <1>2, <1>6, <1>8, <1>9, <2>3 DEF Locks
    <3> QED
      BY <1>2, <1>8, <1>9, <2>1, <2>3, <3>1 DEF Base
  <2> QED
    BY <1>4, <2>2, <2>3
<1>13. /\ Guessing(s, u)' <=> Guessing(s, u)
       /\ Spent(s, u)' = Spent(s, u) /\ Reach(s, u)' = Reach(s, u)
       /\ GuessSane(s, u)' <=> GuessSane(s, u)
       /\ Unrivalled(s, u)' <=> Unrivalled(s, u)
       /\ Level(u)' = Level(u)
  BY <1>6, <1>9, OtherKept
<1>14. Reach(r, u)' = Reach(r, u) /\ Spent(r, u)' = Spent(r, u)
  <2>1. ~Nothing(r)
    BY <1>6 DEF Nothing
  <2> QED
    BY <1>1, <1>10, <1>12, <1>13, <2>1 DEF Reach, Spent, Lower
<1>15. /\ Guessing(s, u) => GuessSane(s, u)
       /\ PairSane(r, s, u) /\ PairSane(s, r, u)
       /\ guesses[u] + Spent(r, u) + Spent(s, u) + Left(Reach(r, u), Reach(s, u))
            <= Room(MaxAttempts)
  BY DEF GuessOk
<1>16. ~(Guessing(s, u) /\ Unrivalled(s, u))
  BY <1>1, <1>15 DEF PairSane
<1>17. PairSane(r, s, u)' /\ PairSane(s, r, u)'
  BY <1>1, <1>6, <1>8, <1>9, <1>10, <1>13, <1>15, <1>16 DEF PairSane, There
<1>18. guesses'[u] = guesses[u] /\ guesses'[u] \in Nat
  BY <1>6 DEF TypeOK
<1> QED
  BY <1>11, <1>13, <1>14, <1>15, <1>17, <1>18, GuessOfTwo

\* What a guess is about to write.
LEMMA WritesWhat ==
  ASSUME TypeOK, NEW r \in Requests, NEW u \in Members, Guessing(r, u), GuessSane(r, u),
         request[r].pc # "verify"
  PROVE  /\ request[r].account.failed \in 0 .. MaxAttempts - 1
         /\ request[r].account.locked \in Nat /\ request[r].lock \in Nat
         /\ now \in Nat /\ row[u].failed \in 0 .. MaxAttempts - 1 /\ row[u].locked \in Nat
         /\ request[r].lock <= now
         /\ \/ /\ Locks(r) /\ request[r].account.locked = now + Lockout
               /\ Base(r) = MaxAttempts - 1
            \/ /\ ~Locks(r) /\ request[r].account.locked = request[r].lock
               /\ request[r].account.failed > 0
               /\ Base(r) = request[r].account.failed - 1
<1> USE AccountsAssumption
<1>1. /\ request[r].account.failed \in 0 .. MaxAttempts - 1
      /\ request[r].account.locked \in Nat /\ request[r].lock \in Nat
      /\ now \in Nat /\ row[u].failed \in 0 .. MaxAttempts - 1 /\ row[u].locked \in Nat
  BY DEF TypeOK, RequestsSane, RequestSet, Account, Attempts
<1>2. request[r].lock <= now
  BY DEF GuessSane
<1> QED
  BY <1>1, <1>2 DEF GuessSane, Locks, Base

LEMMA SelectGuess ==
  ASSUME TypeOK, TypeOK', NEW r, NEW s, r # s, Requests = {r, s},
         NEW u \in Members, SaveSelect(r), request[r].u = u, request[r].op = "wrong",
         guesses[u] # Disturbed, GuessOk(u)
  PROVE  GuessOk(u)'
<1>1. Guessing(r, u) /\ GuessSane(r, u) /\ request[r].pc = "select"
  BY DEF SaveSelect, Guessing, GuessOk, SaveSteps
<1>2. PICK pc \in {"update", "insert"}, columns \in SUBSET Columns :
        /\ pc = (IF There(u) THEN "update" ELSE "insert")
        /\ columns = (IF There(u) THEN {c \in Columns : request[r].account[c] # row[u][c]} ELSE {})
  BY DEF There
<1>3. PICK q : q = [request[r] EXCEPT !.pc = pc, !.columns = columns]
  OBVIOUS
<1>4. request' = [request EXCEPT ![r] = q]
  <2>1. request' = [request EXCEPT ![r].pc = pc, ![r].columns = columns]
    BY <1>2 DEF SaveSelect
  <2> QED
    BY <1>3, <2>1 DEF TypeOK, RequestsSane, RequestSet
<1>5. /\ q.pc = pc /\ q.columns = columns /\ q.op = "wrong" /\ q.u = u
      /\ q.account = request[r].account /\ q.lock = request[r].lock
  BY <1>3 DEF TypeOK, RequestsSane, RequestSet
<1>6. request'[r] = q /\ request'[s] = request[s]
  BY <1>4 DEF TypeOK, RequestsSane
<1>7. UNCHANGED <<row, now, guesses>>
  BY DEF SaveSelect, Tables, History
<1>8. /\ Guessing(s, u)' <=> Guessing(s, u)
      /\ Spent(s, u)' = Spent(s, u) /\ Reach(s, u)' = Reach(s, u)
      /\ GuessSane(s, u)' <=> GuessSane(s, u)
      /\ Unrivalled(s, u)' <=> Unrivalled(s, u)
      /\ Level(u)' = Level(u) /\ (There(u)' <=> There(u))
  <2>1. There(u)' <=> There(u)
    BY <1>7 DEF There
  <2> QED
    BY <1>6, <1>7, <2>1, OtherKept
<1>9. /\ Guessing(s, u) => GuessSane(s, u)
      /\ PairSane(r, s, u) /\ PairSane(s, r, u)
      /\ guesses[u] + Spent(r, u) + Spent(s, u) + Left(Reach(r, u), Reach(s, u))
           <= Room(MaxAttempts)
  BY DEF GuessOk
<1>10. Guessing(r, u)' /\ (Locks(r)' <=> Locks(r)) /\ Base(r)' = Base(r)
  BY <1>1, <1>5, <1>6, <1>7 DEF Guessing, Locks, Base, SaveSteps
<1>11. GuessSane(r, u)'
  BY <1>1, <1>5, <1>6, <1>7, <1>8 DEF GuessSane
<1>12. /\ request[r].account.failed \in 0 .. MaxAttempts - 1
       /\ request[r].account.locked \in Nat /\ request[r].lock \in Nat
       /\ now \in Nat /\ row[u].failed \in 0 .. MaxAttempts - 1 /\ row[u].locked \in Nat
       /\ request[r].lock <= now
       /\ \/ /\ Locks(r) /\ request[r].account.locked = now + Lockout
             /\ Base(r) = MaxAttempts - 1
          \/ /\ ~Locks(r) /\ request[r].account.locked = request[r].lock
             /\ request[r].account.failed > 0
             /\ Base(r) = request[r].account.failed - 1
  BY <1>1, WritesWhat
<1>13. There(u) =>
         /\ "failed" \in columns <=> request[r].account.failed # row[u].failed
         /\ "locked" \in columns <=> request[r].account.locked # row[u].locked
  BY <1>2 DEF Columns
<1>14. ~(Guessing(s, u) /\ Unrivalled(s, u))
  BY <1>1, <1>9 DEF PairSane
<1>15. ASSUME Unrivalled(r, u)'
       PROVE  /\ ~Guessing(s, u) /\ row[u].locked = now + Lockout
              /\ ~Locks(r) => row[u].failed = request[r].account.failed
  <2>1. There(u)
    BY <1>2, <1>5, <1>6, <1>15 DEF Unrivalled
  <2>2. row[u].locked = now + Lockout /\ (~Locks(r) => row[u].failed = request[r].account.failed)
    <3>1. CASE Locks(r)
      BY <1>5, <1>6, <1>10, <1>12, <1>13, <1>15, <2>1, <3>1 DEF Unrivalled
    <3>2. CASE ~Locks(r)
      <4>1. "failed" \notin columns /\ "locked" \in columns
        BY <1>5, <1>6, <1>10, <1>15, <3>2 DEF Unrivalled
      <4>2. row[u].locked \in {request[r].lock, now + Lockout}
        BY <1>1, <2>1 DEF GuessSane
      <4> QED
        BY <1>12, <1>13, <2>1, <3>2, <4>1, <4>2
    <3> QED
      BY <3>1, <3>2
  <2>3. Guessing(s, u) => row[u].locked = request[r].lock
    BY <1>1, <1>9, <2>1 DEF PairSane
  <2> QED
    BY <1>12, <2>2, <2>3, AccountsAssumption
<1>16. PairSane(r, s, u)' /\ PairSane(s, r, u)'
  <2>1. PairSane(r, s, u)'
    BY <1>1, <1>5, <1>6, <1>7, <1>8, <1>9, <1>10, <1>15 DEF PairSane
  <2>2. PairSane(s, r, u)'
    BY <1>1, <1>5, <1>6, <1>7, <1>8, <1>9, <1>14 DEF PairSane
  <2> QED
    BY <2>1, <2>2
<1>17. /\ Level(u) \in Steps /\ Reach(r, u) \in Steps /\ Reach(s, u) \in Steps
       /\ Base(r) \in Steps /\ Spent(r, u) \in {0, 1} /\ Spent(s, u) \in {0, 1}
  BY <1>1, <1>9, Ranges
<1>18. ~Nothing(r) /\ Spent(r, u) = 0 /\ Reach(r, u) = Lower(Base(r), Level(u))
  BY <1>1 DEF Nothing, Spent, Reach
<1>19. guesses'[u] = guesses[u] /\ guesses'[u] \in Nat
  BY <1>7 DEF TypeOK
<1>20. guesses'[u] + Spent(r, u)' + Spent(s, u)' + Left(Reach(r, u)', Reach(s, u)')
         <= Room(MaxAttempts)
  <2>1. CASE ~Nothing(r)'
    <3>1. Spent(r, u)' = 0 /\ Reach(r, u)' = Lower(Base(r), Level(u))
      BY <1>8, <1>10, <2>1 DEF Spent, Reach, Lower
    <3> QED
      BY <1>8, <1>9, <1>18, <1>19, <3>1
  <2>2. CASE Nothing(r)'
    <3>1. /\ There(u) /\ ~Locks(r) /\ request[r].account.failed = row[u].failed
          /\ request[r].account.locked = row[u].locked
      BY <1>2, <1>5, <1>6, <1>10, <1>13, <2>2 DEF Nothing
    <3>2. Level(u) = Base(r) + 1
      BY <1>12, <3>1 DEF Level, Locked
    <3>3. Spent(r, u)' = 1 /\ Reach(r, u)' = Level(u)
      BY <1>8, <1>10, <2>2 DEF Spent, Reach
    <3>4. Reach(r, u) = Base(r) /\ Base(r) < MaxAttempts
      BY <1>12, <1>17, <1>18, <3>2, AccountsAssumption DEF Lower, Steps
    <3>5. 1 + Left(Reach(r, u)', Reach(s, u)') <= Left(Reach(r, u), Reach(s, u))
      BY <1>8, <1>17, <3>2, <3>3, <3>4, LeftStep
    <3>6. Left(Reach(r, u)', Reach(s, u)') \in Int /\ Left(Reach(r, u), Reach(s, u)) \in Int
      BY <1>8, <1>17, <3>3, LeftTyped
    <3>7. guesses[u] \in Nat /\ Room(MaxAttempts) \in Int
      BY <1>19, LeftAll
    <3> QED
      BY <1>8, <1>9, <1>17, <1>18, <1>19, <3>3, <3>5, <3>6, <3>7
  <2> QED
    BY <2>1, <2>2
<1> QED
  BY <1>8, <1>9, <1>11, <1>16, <1>19, <1>20, GuessOfTwo

\* A wrong password is saved: what the row is after it.
LEMMA WriteGuess ==
  ASSUME TypeOK, TypeOK', NEW r, NEW s, r # s, Requests = {r, s},
         NEW u \in Members, Guessing(r, u), guesses[u] # Disturbed, GuessOk(u),
         request'[s] = request[s], ~Guessing(r, u)', now' = now, guesses'[u] = guesses[u] + 1,
         \/ Nothing(r) /\ Level(u)' = Level(u)
         \/ ~Nothing(r) /\ Level(u)' \in {Base(r) + 1, MaxAttempts},
         There(u)' => \/ There(u) /\ row'[u].locked = row[u].locked
                      \/ row'[u].locked = request[r].account.locked,
         request[r].pc # "verify"
  PROVE  GuessOk(u)'
<1>1. /\ GuessSane(r, u) /\ (Guessing(s, u) => GuessSane(s, u))
      /\ PairSane(r, s, u) /\ PairSane(s, r, u)
      /\ guesses[u] + Spent(r, u) + Spent(s, u) + Left(Reach(r, u), Reach(s, u))
           <= Room(MaxAttempts)
  BY DEF GuessOk
<1>2. /\ Guessing(s, u)' <=> Guessing(s, u)
      /\ Unrivalled(s, u)' <=> Unrivalled(s, u)
      /\ Nothing(s)' <=> Nothing(s)
      /\ Base(s)' = Base(s) /\ Spent(s, u)' = Spent(s, u)
  BY DEF Guessing, Unrivalled, Nothing, Locks, Base, Spent
<1>3. ASSUME Guessing(s, u)' PROVE GuessSane(s, u)'
  <2>1. GuessSane(s, u) /\ request[r].lock = request[s].lock
    BY <1>1, <1>2, <1>3 DEF PairSane
  <2>2. request[r].account.locked \in {request[r].lock, now + Lockout}
    BY <1>1 DEF GuessSane
  <2>3. There(u)' => row'[u].locked \in {request[s].lock, now + Lockout}
    BY <2>1, <2>2 DEF GuessSane
  <2> QED
    BY <2>1, <2>3 DEF GuessSane
<1>4. ~(Guessing(s, u) /\ Unrivalled(s, u))
  BY <1>1 DEF PairSane
<1>5. PairSane(r, s, u)' /\ PairSane(s, r, u)'
  BY <1>2, <1>4 DEF PairSane
<1>6. /\ Level(u) \in Steps /\ Reach(r, u) \in Steps /\ Reach(s, u) \in Steps
      /\ Base(r) \in Steps /\ Base(r) < MaxAttempts
      /\ Spent(r, u) \in {0, 1} /\ Spent(s, u) \in {0, 1}
      /\ Reach(s, u) <= Level(u)
      /\ Guessing(s, u) => Base(s) \in Steps
  BY <1>1, Ranges
<1>7. /\ Level(u)' \in Steps /\ Reach(r, u)' \in Steps /\ Reach(s, u)' \in Steps
  BY <1>3, RangesNext
<1>8. Spent(r, u)' = 0 /\ Reach(r, u)' = Level(u)'
  BY DEF Spent, Reach
<1>9. PICK x \in Steps, y \in Steps, v \in Steps, w \in Steps :
        x = Reach(r, u) /\ y = Reach(s, u) /\ v = Level(u)' /\ w = Reach(s, u)'
  BY <1>6, <1>7
<1>10. Left(x, y) \in Int /\ Left(v, w) \in Int /\ guesses[u] \in Nat /\ Room(MaxAttempts) \in Int
  BY LeftTyped, LeftAll DEF TypeOK
<1>11. 1 + Left(v, w) <= Spent(r, u) + Left(x, y)
  <2>1. CASE Nothing(r)
    <3>1. Level(u)' = Level(u) /\ Spent(r, u) = 1 /\ Reach(r, u) = Level(u)
      BY <2>1 DEF Spent, Reach
    <3>2. Reach(s, u)' = Reach(s, u)
      BY <1>2, <3>1 DEF Reach, Lower
    <3> QED
      BY <1>9, <1>10, <3>1, <3>2
  <2>2. CASE ~Nothing(r)
    <3>1. /\ Spent(r, u) = 0 /\ x = Lower(Base(r), Level(u))
          /\ v \in {Base(r) + 1, MaxAttempts}
      BY <1>9, <2>2 DEF Spent, Reach
    <3>2. x \in Int /\ x <= Base(r) /\ x < MaxAttempts /\ x + 1 <= v
      BY <1>6, <3>1, AccountsAssumption DEF Lower, Steps
    <3>3. /\ y = IF Guessing(s, u) /\ ~Nothing(s) THEN Lower(Base(s), Level(u)) ELSE Level(u)
          /\ w = IF Guessing(s, u) /\ ~Nothing(s) THEN Lower(Base(s), v) ELSE v
      BY <1>2, <1>9 DEF Reach, Lower
    <3>4. CASE y <= w
      <4>1. x + 1 \in Steps /\ 1 + Left(x + 1, y) <= Left(x, y)
        BY <3>2, LeftStep
      <4>2. Left(v, w) <= Left(x + 1, y) /\ Left(x + 1, y) \in Int
        BY <3>2, <3>4, <4>1, LeftShrinks, LeftTyped
      <4> QED
        BY <1>10, <3>1, <4>1, <4>2
    <3>5. CASE w < y
      <4>1. v < Level(u) /\ w = v
        BY <1>6, <1>9, <3>3, <3>5 DEF Lower, Steps
      <4>2. v = x + 1 /\ x < y
        BY <1>6, <1>9, <3>1, <3>2, <3>5, <4>1, AccountsAssumption DEF Lower, Steps
      <4>3. 1 + Left(x + 1, x + 1) <= Left(x, y)
        BY <3>2, <4>2, LeftBack
      <4> QED
        BY <1>10, <3>1, <4>1, <4>2, <4>3
    <3> QED
      BY <3>4, <3>5 DEF Steps
  <2> QED
    BY <2>1, <2>2
<1>12. guesses'[u] + Spent(r, u)' + Spent(s, u)' + Left(Reach(r, u)', Reach(s, u)')
         <= Room(MaxAttempts)
  BY <1>1, <1>2, <1>6, <1>8, <1>9, <1>10, <1>11
<1>13. guesses'[u] \in Nat
  BY <1>10
<1> QED
  BY <1>3, <1>5, <1>12, <1>13, GuessOfTwo

\* What saving does with its request and with the history.
LEMMA SavedEffect ==
  ASSUME TypeOK, NEW r \in Requests, NEW u \in Members, request[r].u = u, Saved(r)
  PROVE  /\ \A q \in Requests : q # r => request'[q] = request[q]
         /\ \A m \in Members : ~Guessing(r, m)'
         /\ \A m \in Members : m # u => guesses'[m] = guesses[m]
         /\ guesses'[u] # Disturbed =>
              request[r].op = "wrong" /\ guesses[u] # Disturbed /\ guesses'[u] = guesses[u] + 1
<1>1. \A q \in Requests : q # r => request'[q] = request[q]
  BY DEF Saved, Goto, Finish, TypeOK, RequestsSane
<1>2. request'[r].pc \in {"idle", "audit", "delete"}
  <2>1. ASSUME Finish(r) PROVE request'[r].pc = "idle"
    BY <2>1 DEF Finish, Idle, TypeOK, RequestsSane
  <2>2. ASSUME NEW pc, Goto(r, pc) PROVE request'[r].pc = pc
    BY <2>2 DEF Goto, Idle, TypeOK, RequestsSane
  <2>3. Finish(r) \/ Goto(r, "audit") \/ Goto(r, "delete")
    BY DEF Saved
  <2> QED
    BY <2>1, <2>2, <2>3
<1>3. guesses' = [guesses EXCEPT ![u] = IF request[r].op = "wrong" /\ guesses[u] # Disturbed
                                        THEN guesses[u] + 1 ELSE Disturbed]
  BY DEF Saved
<1> QED
  BY <1>1, <1>2, <1>3 DEF Guessing, SaveSteps, TypeOK

LEMMA UpdateGuess ==
  ASSUME TypeOK, TypeOK', RemovalInv, NEW r, NEW s, r # s, Requests = {r, s},
         NEW u \in Members, SaveUpdate(r), request[r].u = u, guesses'[u] # Disturbed,
         guesses[u] # Disturbed => GuessOk(u)
  PROVE  GuessOk(u)'
<1>1. Saved(r) /\ now' = now /\ request[r].pc = "update"
  BY DEF SaveUpdate
<1>2. /\ request'[s] = request[s] /\ ~Guessing(r, u)'
      /\ request[r].op = "wrong" /\ guesses[u] # Disturbed /\ guesses'[u] = guesses[u] + 1
  BY <1>1, SavedEffect
<1>3. GuessOk(u) /\ Guessing(r, u)
  BY <1>1, <1>2 DEF Guessing, SaveSteps
<1>4. GuessSane(r, u) /\ PairSane(r, s, u)
  BY <1>3 DEF GuessOk
<1>5. /\ request[r].account.failed \in 0 .. MaxAttempts - 1
      /\ request[r].account.locked \in Nat /\ request[r].lock \in Nat
      /\ now \in Nat /\ row[u].failed \in 0 .. MaxAttempts - 1 /\ row[u].locked \in Nat
      /\ request[r].lock <= now
      /\ \/ /\ Locks(r) /\ request[r].account.locked = now + Lockout
            /\ Base(r) = MaxAttempts - 1
         \/ /\ ~Locks(r) /\ request[r].account.locked = request[r].lock
            /\ request[r].account.failed > 0
            /\ Base(r) = request[r].account.failed - 1
  BY <1>1, <1>3, <1>4, WritesWhat
<1>6. PICK w : w = Written(r, u)
  OBVIOUS
<1>7. row'[u] = w
  BY <1>6, SaveUpdateTyped DEF TypeOK
<1>8. /\ w.failed = IF There(u) /\ "failed" \in request[r].columns
                    THEN request[r].account.failed ELSE row[u].failed
      /\ w.locked = IF There(u) /\ "locked" \in request[r].columns
                    THEN request[r].account.locked ELSE row[u].locked
      /\ There(u) => w.status # "none"
      /\ ~There(u) => w = row[u]
  BY <1>1, <1>6, WrittenTyped DEF Holding, Columns
<1>9. There(u)' <=> There(u)
  BY <1>7, <1>8 DEF There
<1>10. There(u)' => \/ There(u) /\ row'[u].locked = row[u].locked
                    \/ row'[u].locked = request[r].account.locked
  BY <1>7, <1>8, <1>9
<1>11. \/ Nothing(r) /\ Level(u)' = Level(u)
       \/ ~Nothing(r) /\ Level(u)' \in {Base(r) + 1, MaxAttempts}
  <2>1. CASE ~There(u)
    <3>1. Level(u) = MaxAttempts /\ Level(u)' = MaxAttempts
      BY <1>9, <2>1 DEF Level
    <3> QED
      BY <3>1
  <2>2. CASE There(u) /\ Nothing(r)
    <3>1. row'[u].failed = row[u].failed /\ row'[u].locked = row[u].locked
      BY <1>7, <1>8, <2>2 DEF Nothing
    <3> QED
      BY <1>1, <1>9, <2>2, <3>1 DEF Level, Locked
  <2>3. CASE There(u) /\ ~Nothing(r) /\ Locks(r)
    <3>1. row'[u].locked = now + Lockout
      <4>1. CASE "locked" \in request[r].columns
        BY <1>5, <1>7, <1>8, <2>3, <4>1
      <4>2. CASE "locked" \notin request[r].columns
        <5>1. Unrivalled(r, u)
          BY <1>1, <2>3, <4>2 DEF Unrivalled
        <5> QED
          BY <1>3, <1>4, <1>7, <1>8, <2>3, <4>2, <5>1 DEF PairSane
      <4> QED
        BY <4>1, <4>2
    <3>2. Locked(u)'
      BY <1>1, <1>5, <3>1, AccountsAssumption DEF Locked
    <3> QED
      BY <2>3, <3>2 DEF Level
  <2>4. CASE There(u) /\ ~Nothing(r) /\ ~Locks(r)
    <3>1. "failed" \in request[r].columns \/ "locked" \in request[r].columns
      BY <1>1, <2>4 DEF Nothing
    <3>2. row'[u].failed = request[r].account.failed
      <4>1. CASE "failed" \in request[r].columns
        BY <1>7, <1>8, <2>4, <4>1
      <4>2. CASE "failed" \notin request[r].columns
        <5>1. Unrivalled(r, u)
          BY <1>1, <2>4, <3>1, <4>2 DEF Unrivalled
        <5> QED
          BY <1>3, <1>4, <1>7, <1>8, <2>4, <4>2, <5>1 DEF PairSane
      <4> QED
        BY <4>1, <4>2
    <3>3. request[r].account.failed = Base(r) + 1
      BY <1>5, <2>4
    <3> QED
      BY <2>4, <3>2, <3>3 DEF Level
  <2> QED
    BY <2>1, <2>2, <2>3, <2>4
<1> QED
  BY <1>1, <1>2, <1>3, <1>10, <1>11, WriteGuess

LEMMA InsertGuess ==
  ASSUME TypeOK, TypeOK', RemovalInv, NEW r, NEW s, r # s, Requests = {r, s},
         NEW u \in Members, SaveInsert(r), request[r].u = u, guesses'[u] # Disturbed,
         guesses[u] # Disturbed => GuessOk(u)
  PROVE  GuessOk(u)'
<1>1. now' = now /\ request[r].pc = "insert"
  BY DEF SaveInsert
<1>2. CASE There(u)
  <2>1. Finish(r) /\ row' = row /\ guesses' = guesses
    BY <1>2 DEF SaveInsert
  <2>2. request'[s] = request[s] /\ request'[r] = Idle
    BY <2>1 DEF Finish, TypeOK, RequestsSane
  <2>3. ~Guessing(r, u)'
    BY <2>2 DEF Guessing, Idle, SaveSteps
  <2> QED
    BY <1>1, <2>1, <2>2, <2>3, GuessSteady
<1>3. CASE ~There(u)
  <2>1. Saved(r) /\ row' = [row EXCEPT ![u] = request[r].account]
    BY <1>3 DEF SaveInsert
  <2>2. /\ request'[s] = request[s] /\ ~Guessing(r, u)'
        /\ request[r].op = "wrong" /\ guesses[u] # Disturbed /\ guesses'[u] = guesses[u] + 1
    BY <2>1, SavedEffect
  <2>3. GuessOk(u) /\ Guessing(r, u)
    BY <1>1, <2>2 DEF Guessing, SaveSteps
  <2>4. GuessSane(r, u)
    BY <2>3 DEF GuessOk
  <2>5. row'[u] = request[r].account /\ There(u)'
    <3>1. row'[u] = request[r].account
      BY <2>1 DEF TypeOK
    <3>2. request[r].account.status # "none"
      BY <1>1 DEF TypeOK, RequestsSane, Sane, Holding
    <3> QED
      BY <3>1, <3>2 DEF There
  <2>6. ~Nothing(r)
    BY <1>1 DEF Nothing
  <2>7. /\ request[r].lock <= now /\ request[r].lock \in Nat /\ now \in Nat
        /\ \/ /\ Locks(r) /\ request[r].account.locked = now + Lockout
              /\ Base(r) = MaxAttempts - 1
           \/ /\ ~Locks(r) /\ request[r].account.locked = request[r].lock
              /\ request[r].account.failed > 0
              /\ Base(r) = request[r].account.failed - 1
        /\ request[r].account.failed \in 0 .. MaxAttempts - 1
    BY <1>1, <2>3, <2>4, WritesWhat
  <2>8. Level(u)' \in {Base(r) + 1, MaxAttempts}
    BY <1>1, <2>5, <2>7, AccountsAssumption DEF Level, Locked
  <2> QED
    BY <1>1, <2>2, <2>3, <2>5, <2>6, <2>8, WriteGuess
<1> QED
  BY <1>2, <1>3

\* An account that is removed leaves nobody behind where he was.
LEMMA RemoveGuess ==
  ASSUME TypeOK, TypeOK', NEW r, NEW s, r # s, Requests = {r, s},
         NEW u \in Members, Remove(u), guesses[u] # Disturbed, GuessOk(u)
  PROVE  GuessOk(u)'
<1>1. row'[u] = NoAccount /\ UNCHANGED <<now, request, guesses>>
  BY DEF Remove, TypeOK, History
<1>2. ~There(u)'
  BY <1>1 DEF There, NoAccount
<1>3. Level(u)' = MaxAttempts
  BY <1>2 DEF Level
<1>4. \A q \in Requests : /\ Guessing(q, u)' <=> Guessing(q, u)
                          /\ Base(q)' = Base(q) /\ (Nothing(q)' <=> Nothing(q))
                          /\ Spent(q, u)' = Spent(q, u)
                          /\ Unrivalled(q, u)' <=> Unrivalled(q, u)
  BY <1>1 DEF Guessing, Base, Locks, Nothing, Spent, Unrivalled
<1>5. /\ (Guessing(r, u) => GuessSane(r, u)) /\ (Guessing(s, u) => GuessSane(s, u))
      /\ PairSane(r, s, u) /\ PairSane(s, r, u)
      /\ guesses[u] + Spent(r, u) + Spent(s, u) + Left(Reach(r, u), Reach(s, u))
           <= Room(MaxAttempts)
  BY DEF GuessOk
<1>6. \A q \in Requests : GuessSane(q, u) => GuessSane(q, u)'
  BY <1>1, <1>2 DEF GuessSane
<1>7. PairSane(r, s, u)' /\ PairSane(s, r, u)'
  BY <1>1, <1>2, <1>4, <1>5 DEF PairSane
<1>8. ASSUME NEW q \in Requests, Guessing(q, u) => GuessSane(q, u)
      PROVE  Reach(q, u) \in Steps /\ Reach(q, u)' \in Steps /\ Reach(q, u) <= Reach(q, u)'
  <2>1. /\ Reach(q, u) \in Steps /\ Reach(q, u) <= Level(u) /\ Level(u) \in Steps
        /\ Guessing(q, u) => Base(q) \in Steps
    BY <1>8, Ranges
  <2>2. Reach(q, u)' = IF Guessing(q, u) /\ ~Nothing(q)
                       THEN Lower(Base(q), MaxAttempts) ELSE MaxAttempts
    BY <1>3, <1>4 DEF Reach, Lower
  <2> QED
    BY <2>1, <2>2, AccountsAssumption DEF Reach, Lower, Steps
<1>9. /\ Left(Reach(r, u)', Reach(s, u)') <= Left(Reach(r, u), Reach(s, u))
      /\ Left(Reach(r, u)', Reach(s, u)') \in Int /\ Left(Reach(r, u), Reach(s, u)) \in Int
  BY <1>5, <1>8, LeftShrinks, LeftTyped
<1>10. guesses'[u] = guesses[u] /\ guesses'[u] \in Nat /\ Room(MaxAttempts) \in Int
  BY <1>1, LeftAll DEF TypeOK
<1>11. Spent(r, u) \in {0, 1} /\ Spent(s, u) \in {0, 1}
  BY DEF Spent
<1>12. guesses'[u] + Spent(r, u)' + Spent(s, u)' + Left(Reach(r, u)', Reach(s, u)')
         <= Room(MaxAttempts)
  BY <1>4, <1>5, <1>9, <1>10, <1>11
<1> QED
  BY <1>4, <1>5, <1>6, <1>7, <1>10, <1>12, GuessOfTwo

\* The steps that are about somebody else, or do not guess.
LEMMA InitGuess == Init => GuessInv
BY DEF Init, GuessInv

LEMMA OthersWork ==
  ASSUME TypeOK, TypeOK', RemovalInv, NEW r \in Requests, Work(r),
         NEW u \in Members, request[r].u # u, guesses'[u] # Disturbed,
         guesses[u] # Disturbed => GuessOk(u)
  PROVE  GuessOk(u)'
<1>1. PICK m \in Members : m = request[r].u
  BY DEF Work, AcceptFind, AcceptDelete, WrongPassword, RightPassword, WriteAudit, SaveSelect,
     SaveUpdate, SaveInsert, TypeOK, RequestsSane, Sane
<1>2. row'[u] = row[u] /\ now' = now
  BY DEF Work, AcceptFind, AcceptDelete, WrongPassword, RightPassword, WriteAudit, SaveSelect,
     SaveUpdate, SaveInsert, TypeOK, Tables
<1>3. guesses'[u] = guesses[u]
  BY <1>1, SavedEffect DEF Work, AcceptFind, AcceptDelete, WrongPassword, RightPassword,
     WriteAudit, SaveSelect, SaveUpdate, SaveInsert, TypeOK, History
<1>4. ~Guessing(r, u)'
  BY AboutKept DEF Guessing, SaveSteps
<1>5. \A q \in Requests : q # r => request'[q] = request[q]
  BY <1>1, SavedEffect DEF Work, AcceptFind, AcceptDelete, WrongPassword, RightPassword,
     WriteAudit, SaveSelect, SaveUpdate, SaveInsert, Save, Read, Keep, Finish, TypeOK,
     RequestsSane
<1> QED
  BY <1>2, <1>3, <1>4, <1>5, GuessSteady

\* Saving something else than a wrong password disturbs the count.
LEMMA WorkGuess ==
  ASSUME TypeOK, TypeOK', RemovalInv, NEW r, NEW s, r # s, Requests = {r, s},
         Work(r), NEW u \in Members, guesses'[u] # Disturbed,
         guesses[u] # Disturbed => GuessOk(u)
  PROVE  GuessOk(u)'
<1>1. CASE request[r].u # u
  BY <1>1, OthersWork
<1>2. CASE request[r].u = u
  <2>1. CASE WrongPassword(r)
    BY <1>2, <2>1, WrongGuess DEF WrongPassword, History
  <2>2. CASE SaveSelect(r) /\ request[r].op = "wrong"
    BY <1>2, <2>2, SelectGuess DEF SaveSelect, History
  <2>3. CASE SaveUpdate(r)
    BY <1>2, <2>3, UpdateGuess
  <2>4. CASE SaveInsert(r)
    BY <1>2, <2>4, InsertGuess
  <2>5. ASSUME UNCHANGED <<row, now, guesses>>, ~Guessing(r, u)',
               \A q \in Requests : q # r => request'[q] = request[q]
        PROVE  GuessOk(u)'
    BY <2>5, GuessSteady
  <2>6. CASE SaveSelect(r) /\ request[r].op # "wrong"
    <3>1. UNCHANGED <<row, now, guesses>> /\ request[r].pc = "select"
      BY <2>6 DEF SaveSelect, Tables, History
    <3>2. request'[r].op = request[r].op /\ request'[r].pc \in {"update", "insert"}
      BY <2>6 DEF SaveSelect, TypeOK, RequestsSane, RequestSet
    <3>3. \A q \in Requests : q # r => request'[q] = request[q]
      BY <2>6 DEF SaveSelect, TypeOK, RequestsSane
    <3>4. ~Guessing(r, u)'
      BY <2>6, <3>2 DEF Guessing
    <3> QED
      BY <2>5, <3>1, <3>3, <3>4
  <2>7. ASSUME Finish(r), UNCHANGED <<row, now, guesses>> PROVE GuessOk(u)'
    <3>1. request'[r] = Idle /\ \A q \in Requests : q # r => request'[q] = request[q]
      BY <2>7 DEF Finish, TypeOK, RequestsSane
    <3>2. ~Guessing(r, u)'
      BY <3>1 DEF Guessing, Idle, SaveSteps
    <3> QED
      BY <2>5, <2>7, <3>1, <3>2
  <2>8. CASE AcceptDelete(r) \/ WriteAudit(r)
    BY <2>7, <2>8 DEF AcceptDelete, WriteAudit, History
  <2>9. CASE AcceptFind(r)
    <3>1. UNCHANGED <<row, now, guesses>>
      BY <2>9 DEF AcceptFind, Tables, History
    <3>2. CASE ~There(u)
      BY <1>2, <2>7, <2>9, <3>1, <3>2 DEF AcceptFind
    <3>3. CASE There(u)
      <4>1. PICK account : Read(r, u, "accept", "select", account)
        BY <1>2, <2>9, <3>3 DEF AcceptFind, Save
      <4>2. /\ request'[r].op = "accept" /\ request'[r].pc = "select"
            /\ \A q \in Requests : q # r => request'[q] = request[q]
        BY <4>1 DEF Read, Idle, TypeOK, RequestsSane
      <4> QED
        BY <2>5, <3>1, <4>2 DEF Guessing
    <3> QED
      BY <3>2, <3>3
  <2>10. CASE RightPassword(r)
    <3>1. UNCHANGED <<row, now, guesses>> /\ request[r].pc = "verify"
      BY <2>10 DEF RightPassword, Tables, History
    <3>2. CASE Finish(r)
      BY <2>7, <3>1, <3>2
    <3>3. ASSUME NEW account, Keep(r, account, "right") PROVE GuessOk(u)'
      <4>1. /\ request'[r].op = "right" /\ request'[r].pc = "select"
            /\ \A q \in Requests : q # r => request'[q] = request[q]
        BY <3>3 DEF Keep, TypeOK, RequestsSane, RequestSet
      <4> QED
        BY <2>5, <3>1, <4>1 DEF Guessing
    <3> QED
      BY <2>10, <3>2, <3>3 DEF RightPassword
  <2> QED
    BY <2>1, <2>2, <2>3, <2>4, <2>6, <2>8, <2>9, <2>10 DEF Work
<1> QED
  BY <1>1, <1>2

\* A request that begins with somebody, and not to sign in.
LEMMA BeginGuess ==
  ASSUME TypeOK, TypeOK', NEW r \in Requests, NEW q,
         request' = [request EXCEPT ![r] = q], UNCHANGED <<row, now>>,
         NEW u \in Members, guesses'[u] = guesses[u], guesses'[u] # Disturbed,
         q.u # u \/ (q.op \in {"none", "accept", "mfa"} /\ q.pc # "verify"),
         guesses[u] # Disturbed => GuessOk(u)
  PROVE  GuessOk(u)'
<1>1. request'[r] = q /\ \A p \in Requests : p # r => request'[p] = request[p]
  BY DEF TypeOK, RequestsSane
<1>2. ~Guessing(r, u)'
  BY <1>1 DEF Guessing
<1> QED
  BY <1>1, <1>2, GuessSteady

LEMMA NextGuess ==
  ASSUME NEW a, NEW b, a # b, Requests = {a, b},
         TypeOK, TypeOK', RemovalInv, GuessInv, [Next]_vars
  PROVE  GuessInv'
<1> SUFFICES ASSUME NEW u \in Members, guesses'[u] # Disturbed PROVE GuessOk(u)'
  BY DEF GuessInv
<1>1. guesses[u] # Disturbed => GuessOk(u)
  BY DEF GuessInv
<1>2. \A r \in Requests : \E s : r # s /\ Requests = {r, s}
  OBVIOUS
<1>3. CASE UNCHANGED vars
  BY <1>1, <1>3, GuessSteady DEF vars
<1>4. ASSUME NEW m \in Members, Invite(m) PROVE GuessOk(u)'
  <2>1. guesses' = guesses /\ request' = request /\ now' = now
    BY <1>4 DEF Invite, History
  <2>2. m # u
    BY <1>4, <2>1 DEF Invite, RemovalInv
  <2>3. row'[u] = row[u]
    BY <1>4, <2>2 DEF Invite, TypeOK
  <2> QED
    BY <1>1, <2>1, <2>3, GuessSteady
<1>5. ASSUME NEW m \in Members, Remove(m) PROVE GuessOk(u)'
  <2>1. guesses' = guesses /\ request' = request /\ now' = now
    BY <1>5 DEF Remove, History
  <2>2. CASE m # u
    <3>1. row'[u] = row[u]
      BY <1>5, <2>2 DEF Remove, TypeOK
    <3> QED
      BY <1>1, <2>1, <3>1, GuessSteady
  <2>3. CASE m = u
    BY <1>1, <1>5, <2>1, <2>3, RemoveGuess
  <2> QED
    BY <2>2, <2>3
<1>6. ASSUME NEW r \in Requests, NEW m \in Members, AcceptInvite(r, m) PROVE GuessOk(u)'
  <2>1. PICK q : q = [Idle EXCEPT !.pc = "find", !.u = m]
    OBVIOUS
  <2>2. q.op = "none" /\ q.pc = "find"
    BY <2>1 DEF Idle
  <2>3. request' = [request EXCEPT ![r] = q] /\ UNCHANGED <<row, now, guesses>>
    BY <1>6, <2>1 DEF AcceptInvite, Tables, History
  <2> QED
    BY <1>1, <2>2, <2>3, BeginGuess
<1>7. ASSUME NEW r \in Requests, NEW m \in Members, Login(r, m) PROVE GuessOk(u)'
  <2>1. CASE m = u
    BY <1>1, <1>2, <1>7, <2>1, LoginGuess
  <2>2. CASE m # u
    <3>1. PICK q : q = [Idle EXCEPT !.pc = "verify", !.op = "login", !.u = m,
                                    !.account = row[m], !.lock = row[m].locked]
      OBVIOUS
    <3>2. q.u = m
      BY <3>1 DEF Idle
    <3>3. request' = [request EXCEPT ![r] = q] /\ UNCHANGED <<row, now>>
      BY <1>7, <3>1 DEF Login, Read, Tables
    <3>4. guesses'[u] = guesses[u]
      BY <1>7, <2>2 DEF Login, AtRest, TypeOK
    <3>5. q.u # u
      BY <2>2, <3>2
    <3>6. row' = row /\ now' = now
      BY <3>3
    <3>7. \A p \in Requests : request'[p] = request[p] \/ ~Guessing(p, u)'
      BY <3>3, <3>5 DEF Guessing, TypeOK, RequestsSane
    <3>8. guesses[u] # Disturbed
      BY <3>4
    <3>9. GuessOk(u) /\ row'[u] = row[u]
      BY <1>1, <3>6, <3>8
    <3> QED
      BY <3>4, <3>6, <3>7, <3>8, <3>9, GuessSteady
  <2> QED
    BY <2>1, <2>2
<1>8. ASSUME NEW r \in Requests, NEW m \in Members, NEW account \in Account,
             MfaSettings(r, m, account)
      PROVE  GuessOk(u)'
  <2>1. PICK q : q = [Idle EXCEPT !.pc = "select", !.op = "mfa", !.u = m,
                                  !.account = account, !.lock = row[m].locked]
    OBVIOUS
  <2>2. q.op = "mfa" /\ q.pc = "select"
    BY <2>1 DEF Idle
  <2>3. request' = [request EXCEPT ![r] = q] /\ UNCHANGED <<row, now, guesses>>
    BY <1>8, <2>1 DEF MfaSettings, Save, Read, Tables, History
  <2> QED
    BY <1>1, <2>2, <2>3, BeginGuess
<1>9. ASSUME NEW r \in Requests, Work(r) PROVE GuessOk(u)'
  BY <1>1, <1>2, <1>9, WorkGuess
<1>10. CASE Tick
  BY <1>10 DEF Tick
<1> QED
  BY <1>3, <1>4, <1>5, <1>6, <1>7, <1>8, <1>9, <1>10, NextCases

\* Two sign-ins at a time do not get past the bound: what they have guessed and what
\* they can still guess is never more than it.
THEOREM AccountsGuesses ==
  ASSUME NEW a, NEW b, a # b, Requests = {a, b}
  PROVE  Spec => []GuessBound
<1>1. Init => GuessInv
  BY InitGuess
<1>2. TypeOK /\ TypeOK' /\ RemovalInv /\ GuessInv /\ [Next]_vars => GuessInv'
  BY NextGuess
<1>3. TypeOK /\ GuessInv => GuessBound
  <2> SUFFICES ASSUME TypeOK, GuessInv, NEW u \in Members
               PROVE  guesses[u] <= Room(MaxAttempts)
    BY DEF GuessBound, Room
  <2>1. Room(MaxAttempts) \in Int /\ Room(MaxAttempts) >= 0
    BY LeftAll, LeftTyped
  <2>2. CASE guesses[u] = Disturbed
    BY <2>1, <2>2 DEF Disturbed
  <2>3. CASE guesses[u] # Disturbed
    <3>1. GuessOk(u) /\ guesses[u] \in Nat
      BY <2>3 DEF GuessInv, TypeOK
    <3>2. /\ Reach(a, u) \in Steps /\ Reach(b, u) \in Steps
          /\ Spent(a, u) \in {0, 1} /\ Spent(b, u) \in {0, 1}
      BY <3>1, Ranges DEF GuessOk
    <3>3. Left(Reach(a, u), Reach(b, u)) \in Int /\ Left(Reach(a, u), Reach(b, u)) >= 0
      BY <3>2, LeftTyped
    <3>4. guesses[u] + Spent(a, u) + Spent(b, u) + Left(Reach(a, u), Reach(b, u))
            <= Room(MaxAttempts)
      BY <3>1 DEF GuessOk
    <3> QED
      BY <2>1, <3>1, <3>2, <3>3, <3>4
  <2> QED
    BY <2>2, <2>3
<1> QED
  BY <1>1, <1>2, <1>3, AccountsTyping, PTL DEF Spec

-----------------------------------------------------------------------------
(* Sign-up.                                                                 *)

Transaction == {"user", "grant", "commit"}
Bases == {""} \cup {BaseSlug[name] : name \in Names}
Slugs == Bases \cup UNION {Suffixed[base] : base \in Bases}
Addresses == {""} \cup {Address[typed] : typed \in Typed}
VisitSet ==
  [at : {"form", "email", "slug", "organisation", "session", "in"} \cup Transaction,
   tries : Nat, region : Regions, base : Bases, address : Addresses, slug : Slugs,
   told : {"nothing", "refused", "exists", "error", "welcome"}]

\* What an attempt has inserted.
Mine(v) == {org \in organisations : org.id = Id(v)}
HasOwner(id) == \E user \in accounts : user.id = id
HasGrant(id) == \E grant \in grants : grant.id = id

\* The rows of the attempt that is under way, by how far it is.
Underway(v) ==
  /\ v \in Visitors
  /\ visit[v].at # "form" => visit[v].tries > 0 /\ visit[v].region \in DataResidencyRegion
  /\ visit[v].at \in {"email", "slug", "organisation"} =>
       Mine(v) = {} /\ ~HasOwner(Id(v)) /\ ~HasGrant(Id(v))
  /\ visit[v].at \in Transaction <=> Id(v) \in open
  /\ visit[v].at \in Transaction \cup {"session", "in"} =>
       \E org \in Mine(v) : org.region = visit[v].region
  /\ visit[v].at = "user" => ~HasOwner(Id(v)) /\ ~HasGrant(Id(v))
  /\ visit[v].at \in {"grant", "commit"} => HasOwner(Id(v))
  /\ visit[v].at = "grant" => ~HasGrant(Id(v))
  /\ visit[v].at = "commit" => HasGrant(Id(v))
  /\ visit[v].told = "welcome" => visit[v].at = "in"
  /\ visit[v].told = "exists" =>
       /\ visit[v].at = "form"
       /\ \E user \in Committed(accounts) : user.address = visit[v].address

Ids == {id \in Visitors \X Nat : 0 < id[2] /\ id[2] <= visit[id[1]].tries}
Invitation == <<Elsewhere, 0>>

\* Why: rows are of attempts that were made, and of no other's; and what is
\* committed is whole.
RegistrationInv ==
  /\ visit \in [Visitors -> VisitSet]
  /\ \A v \in Visitors : Underway(v)
  /\ \A org \in organisations : org.id \in Ids /\ org.region \in DataResidencyRegion
  /\ \A user \in accounts : user.id \in Ids \cup {Invitation}
  /\ \A grant \in grants : grant.id \in Ids /\ grant.role = "ORG_OWNER"
  /\ \A user, other \in accounts : user.id = other.id /\ user.id # Invitation => user = other
  /\ \A entry \in accounts \cup grants :
       entry.id = Invitation \/ \E org \in organisations : org.id = entry.id
  /\ \A org \in Committed(organisations) : HasOwner(org.id) /\ HasGrant(org.id)
  /\ \A org, other \in organisations : org.slug = other.slug => org = other
  /\ \A user, other \in accounts : user.address = other.address => user = other
  /\ \A id \in open : \E v \in Visitors : id = Id(v)

LEMMA InitRegistration == RegistrationInit => RegistrationInv
<1> SUFFICES ASSUME RegistrationInit PROVE RegistrationInv
  OBVIOUS
<1>1. visit \in [Visitors -> VisitSet]
  BY DEF RegistrationInit, VisitSet, Regions, Bases, Slugs, Addresses
<1>2. \A v \in Visitors : visit[v].at = "form" /\ visit[v].told = "nothing"
  BY DEF RegistrationInit
<1>3. organisations = {} /\ accounts = {} /\ grants = {} /\ open = {}
  BY DEF RegistrationInit
<1>4. \A v \in Visitors : Underway(v)
  BY <1>2, <1>3 DEF Underway, Transaction
<1> QED
  BY <1>1, <1>3, <1>4 DEF RegistrationInv, Committed

\* A visitor moves on, or is told something: the rest of the form stays.
LEMMA GoEffect ==
  ASSUME visit \in [Visitors -> VisitSet], NEW v \in Visitors,
         NEW place \in {"slug", "user", "grant", "commit", "session"}, Go(v, place)
  PROVE  /\ visit' \in [Visitors -> VisitSet]
         /\ \A w \in Visitors : w # v => visit'[w] = visit[w]
         /\ visit'[v].at = place /\ visit'[v].tries = visit[v].tries
         /\ visit'[v].region = visit[v].region /\ visit'[v].told = visit[v].told
         /\ visit'[v].address = visit[v].address
<1>1. PICK q : q = [visit[v] EXCEPT !.at = place]
  OBVIOUS
<1>2. /\ q \in VisitSet /\ q.at = place /\ q.tries = visit[v].tries
      /\ q.region = visit[v].region /\ q.told = visit[v].told /\ q.address = visit[v].address
  BY <1>1 DEF VisitSet, Transaction
<1>3. visit' = [visit EXCEPT ![v] = q]
  BY <1>1 DEF Go, VisitSet
<1> QED
  BY <1>2, <1>3

LEMMA AnswerEffect ==
  ASSUME visit \in [Visitors -> VisitSet], NEW v \in Visitors,
         NEW told \in {"exists", "error"}, Answer(v, told)
  PROVE  /\ visit' \in [Visitors -> VisitSet]
         /\ \A w \in Visitors : w # v => visit'[w] = visit[w]
         /\ visit'[v].at = "form" /\ visit'[v].tries = visit[v].tries
         /\ visit'[v].region = visit[v].region /\ visit'[v].told = told
         /\ visit'[v].address = visit[v].address
<1>1. PICK q : q = [visit[v] EXCEPT !.at = "form", !.told = told]
  OBVIOUS
<1>2. /\ q \in VisitSet /\ q.at = "form" /\ q.tries = visit[v].tries
      /\ q.region = visit[v].region /\ q.told = told /\ q.address = visit[v].address
  BY <1>1 DEF VisitSet, Transaction
<1>3. visit' = [visit EXCEPT ![v] = q]
  BY <1>1 DEF Answer, VisitSet
<1> QED
  BY <1>2, <1>3

LEMMA IdsApart ==
  ASSUME visit \in [Visitors -> VisitSet], NEW v \in Visitors
  PROVE  /\ Id(v) = <<v, visit[v].tries>> /\ visit[v].tries \in Nat
         /\ \A w \in Visitors : w # v => Id(w) # Id(v)
         /\ visit[v].tries > 0 => Id(v) \in Ids
         /\ \A id \in Ids : id # Invitation
BY DEF Id, Ids, Invitation, VisitSet

\* The rows of another visitor's attempt are not touched.
LEMMA OtherVisitor ==
  ASSUME RegistrationInv, NEW w \in Visitors, visit'[w] = visit[w],
         \A entry : entry.id = Id(w) =>
           /\ entry \in organisations' <=> entry \in organisations
           /\ entry \in accounts' <=> entry \in accounts
           /\ entry \in grants' <=> entry \in grants,
         Id(w) \in open' <=> Id(w) \in open,
         Committed(accounts) \subseteq Committed(accounts)'
  PROVE  Underway(w)'
<1>1. Id(w)' = Id(w)
  BY DEF Id
<1>2. Mine(w)' = Mine(w)
  BY <1>1 DEF Mine
<1>3. HasOwner(Id(w))' <=> HasOwner(Id(w))
  BY <1>1 DEF HasOwner
<1>4. HasGrant(Id(w))' <=> HasGrant(Id(w))
  BY <1>1 DEF HasGrant
<1>5. Underway(w)
  BY DEF RegistrationInv
<1> QED
  BY <1>1, <1>2, <1>3, <1>4, <1>5 DEF Underway

\* Nothing but the visitor's form changes, and his attempt is the same.
LEMMA OnlyTheForm ==
  ASSUME RegistrationInv, NEW v \in Visitors, UNCHANGED Rows,
         visit' \in [Visitors -> VisitSet],
         \A w \in Visitors : w # v => visit'[w] = visit[w],
         visit'[v].tries >= visit[v].tries, Underway(v)',
         visit'[v].tries = visit[v].tries \/ Id(v) \notin open
  PROVE  RegistrationInv'
<1>1. UNCHANGED organisations /\ UNCHANGED accounts /\ UNCHANGED grants /\ UNCHANGED open
  BY DEF Rows
<1>2. \A w \in Visitors : w # v => Underway(w)'
  BY <1>1, OtherVisitor DEF Committed
<1>3. Ids \subseteq Ids'
  BY DEF Ids, RegistrationInv, VisitSet
<1>4. \A id \in open' : \E w \in Visitors : id = Id(w)'
  <2>1. \A w \in Visitors : Id(w)' = Id(w) \/ (w = v /\ Id(v) \notin open)
    BY DEF Id
  <2> QED
    BY <1>1, <2>1 DEF RegistrationInv
<1>5. Committed(organisations)' = Committed(organisations)
  BY <1>1 DEF Committed
<1>6. \A id : (HasOwner(id)' <=> HasOwner(id)) /\ (HasGrant(id)' <=> HasGrant(id))
  BY <1>1 DEF HasOwner, HasGrant
<1>7. Invitation' = Invitation
  BY DEF Invitation
<1>8. \A w \in Visitors : Underway(w)'
  BY <1>2
<1>9. \A org \in organisations' : org.id \in Ids' /\ org.region \in DataResidencyRegion
  BY <1>1, <1>3 DEF RegistrationInv
<1>10. \A user \in accounts' : user.id \in Ids' \cup {Invitation}
  BY <1>1, <1>3 DEF RegistrationInv
<1>11. \A grant \in grants' : grant.id \in Ids' /\ grant.role = "ORG_OWNER"
  BY <1>1, <1>3 DEF RegistrationInv
<1>12. \A user, other \in accounts' : user.id = other.id /\ user.id # Invitation => user = other
  BY <1>1 DEF RegistrationInv
<1>13. \A entry \in accounts' \cup grants' :
         entry.id = Invitation \/ \E org \in organisations' : org.id = entry.id
  BY <1>1 DEF RegistrationInv
<1>14. \A org \in Committed(organisations)' : HasOwner(org.id)' /\ HasGrant(org.id)'
  BY <1>5, <1>6 DEF RegistrationInv
<1>15. \A org, other \in organisations' : org.slug = other.slug => org = other
  BY <1>1 DEF RegistrationInv
<1>16. \A user, other \in accounts' : user.address = other.address => user = other
  BY <1>1 DEF RegistrationInv
<1> QED
  BY <1>4, <1>7, <1>8, <1>9, <1>10, <1>11, <1>12, <1>13, <1>14, <1>15, <1>16 DEF RegistrationInv

LEMMA SubmitKeeps ==
  ASSUME RegistrationInv, NEW v \in Visitors, NEW form \in Fields, Submit(v, form)
  PROVE  RegistrationInv'
<1>1. PICK q : q = [at |-> IF Valid(form) THEN "email" ELSE "form",
                    told |-> IF Valid(form) THEN "nothing" ELSE "refused",
                    tries |-> visit[v].tries + 1, region |-> form.region,
                    base |-> BaseSlug[form.name], address |-> Address[form.typed], slug |-> ""]
  OBVIOUS
<1>2. visit' = [visit EXCEPT ![v] = q] /\ UNCHANGED Rows /\ visit[v].at = "form"
  BY <1>1 DEF Submit, At
<1>3. visit[v].tries \in Nat /\ visit \in [Visitors -> VisitSet]
  BY DEF RegistrationInv, VisitSet
<1>4. /\ q.at \in {"email", "form"} /\ q.told \in {"nothing", "refused"}
      /\ q.tries = visit[v].tries + 1
      /\ q.at = "email" => q.region \in DataResidencyRegion
  BY <1>1 DEF Valid
<1>5. q \in VisitSet
  <2>1. form.name \in Names /\ form.region \in Regions /\ form.typed \in Typed
    BY DEF Fields
  <2>2. BaseSlug[form.name] \in Bases /\ Address[form.typed] \in Addresses /\ "" \in Slugs
    BY <2>1 DEF Bases, Slugs, Addresses
  <2>3. visit[v].tries + 1 \in Nat
    BY <1>3
  <2> QED
    BY <1>1, <2>1, <2>2, <2>3 DEF VisitSet
<1>6. /\ visit' \in [Visitors -> VisitSet]
      /\ \A w \in Visitors : w # v => visit'[w] = visit[w]
      /\ visit'[v] = q
  BY <1>2, <1>3, <1>5
<1>7. Id(v)' = <<v, visit[v].tries + 1>> /\ Id(v) = <<v, visit[v].tries>>
  BY <1>4, <1>6 DEF Id
<1>8. Id(v)' \notin Ids \cup {Invitation} /\ Id(v)' \notin open /\ Id(v) \notin open
  <2>1. Id(v)' \notin Ids \cup {Invitation}
    BY <1>3, <1>7 DEF Ids, Invitation
  <2>2. \A w \in Visitors : Id(w) # Id(v)'
    BY <1>3, <1>7 DEF Id
  <2>3. Id(v) \notin open
    BY <1>2 DEF RegistrationInv, Underway, Transaction
  <2> QED
    BY <2>1, <2>2, <2>3 DEF RegistrationInv
<1>9. Underway(v)'
  <2>1. /\ \A org \in organisations' : org.id # Id(v)'
        /\ \A user \in accounts' : user.id # Id(v)'
        /\ \A grant \in grants' : grant.id # Id(v)'
        /\ Id(v)' \notin open'
    BY <1>2, <1>8 DEF Rows, RegistrationInv
  <2>2. Mine(v)' = {} /\ ~HasOwner(Id(v))' /\ ~HasGrant(Id(v))'
    BY <2>1 DEF Mine, HasOwner, HasGrant
  <2> QED
    BY <1>3, <1>4, <1>6, <2>1, <2>2 DEF Underway, Transaction
<1> QED
  BY <1>2, <1>3, <1>4, <1>6, <1>8, <1>9, OnlyTheForm

LEMMA CheckEmailKeeps ==
  ASSUME RegistrationInv, NEW v \in Visitors, CheckEmail(v)
  PROVE  RegistrationInv'
<1>1. UNCHANGED Rows /\ visit[v].at = "email" /\ visit \in [Visitors -> VisitSet]
  BY DEF CheckEmail, At, RegistrationInv
<1>2. UNCHANGED organisations /\ UNCHANGED accounts /\ UNCHANGED grants /\ UNCHANGED open
  BY <1>1 DEF Rows
<1>3. Underway(v)
  BY DEF RegistrationInv
<1>4. \/ \E user \in Committed(accounts) : user.address = visit[v].address /\ Answer(v, "exists")
      \/ Go(v, "slug")
  BY DEF CheckEmail
<1>5. /\ visit' \in [Visitors -> VisitSet]
      /\ \A w \in Visitors : w # v => visit'[w] = visit[w]
      /\ visit'[v].tries = visit[v].tries /\ visit'[v].region = visit[v].region
      /\ visit'[v].address = visit[v].address
      /\ \/ /\ \E user \in Committed(accounts) : user.address = visit[v].address
            /\ visit'[v].at = "form" /\ visit'[v].told = "exists"
         \/ visit'[v].at = "slug" /\ visit'[v].told = visit[v].told
  BY <1>1, <1>4, GoEffect, AnswerEffect
<1>6. Id(v)' = Id(v) /\ Committed(accounts)' = Committed(accounts)
  BY <1>2, <1>5 DEF Id, Committed
<1>7. Mine(v)' = Mine(v) /\ (HasOwner(Id(v))' <=> HasOwner(Id(v)))
      /\ (HasGrant(Id(v))' <=> HasGrant(Id(v)))
  BY <1>2, <1>6 DEF Mine, HasOwner, HasGrant
<1>8. Underway(v)'
  BY <1>1, <1>2, <1>3, <1>5, <1>6, <1>7 DEF Underway, Transaction
<1>9. visit'[v].tries >= visit[v].tries
  BY <1>1, <1>5 DEF VisitSet
<1> QED
  BY <1>1, <1>5, <1>8, <1>9, OnlyTheForm

LEMMA UniqueSlugKeeps ==
  ASSUME RegistrationInv, NEW v \in Visitors, UniqueSlug(v)
  PROVE  RegistrationInv'
<1>1. UNCHANGED Rows /\ visit[v].at = "slug" /\ visit \in [Visitors -> VisitSet]
  BY DEF UniqueSlug, At, RegistrationInv
<1>2. UNCHANGED organisations /\ UNCHANGED accounts /\ UNCHANGED grants /\ UNCHANGED open
  BY <1>1 DEF Rows
<1>3. Underway(v)
  BY DEF RegistrationInv
<1>4. PICK slug \in Slugs : visit' = [visit EXCEPT ![v].at = "organisation", ![v].slug = slug]
  <2>1. visit[v].base \in Bases
    BY <1>1 DEF VisitSet
  <2>2. {visit[v].base} \subseteq Slugs /\ Suffixed[visit[v].base] \subseteq Slugs
    BY <2>1 DEF Slugs
  <2> QED
    BY <2>2 DEF UniqueSlug
<1>5. PICK q : q = [visit[v] EXCEPT !.at = "organisation", !.slug = slug]
  OBVIOUS
<1>6. /\ q \in VisitSet /\ q.at = "organisation" /\ q.tries = visit[v].tries
      /\ q.region = visit[v].region /\ q.told = visit[v].told /\ q.address = visit[v].address
  BY <1>1, <1>5 DEF VisitSet
<1>7. visit' = [visit EXCEPT ![v] = q]
  BY <1>1, <1>4, <1>5 DEF VisitSet
<1>8. /\ visit' \in [Visitors -> VisitSet]
      /\ \A w \in Visitors : w # v => visit'[w] = visit[w]
      /\ visit'[v] = q
  BY <1>1, <1>6, <1>7
<1>9. Id(v)' = Id(v) /\ Committed(accounts)' = Committed(accounts)
  BY <1>2, <1>6, <1>8 DEF Id, Committed
<1>10. Mine(v)' = Mine(v) /\ (HasOwner(Id(v))' <=> HasOwner(Id(v)))
       /\ (HasGrant(Id(v))' <=> HasGrant(Id(v)))
  BY <1>2, <1>9 DEF Mine, HasOwner, HasGrant
<1>11. Underway(v)'
  BY <1>1, <1>2, <1>3, <1>6, <1>8, <1>9, <1>10 DEF Underway, Transaction
<1>12. visit'[v].tries >= visit[v].tries
  BY <1>1, <1>6, <1>8 DEF VisitSet
<1> QED
  BY <1>1, <1>6, <1>8, <1>11, <1>12, OnlyTheForm

LEMMA WelcomeKeeps ==
  ASSUME RegistrationInv, NEW v \in Visitors, Welcome(v)
  PROVE  RegistrationInv'
<1>1. UNCHANGED Rows /\ visit[v].at = "session" /\ visit \in [Visitors -> VisitSet]
  BY DEF Welcome, At, RegistrationInv
<1>2. UNCHANGED organisations /\ UNCHANGED accounts /\ UNCHANGED grants /\ UNCHANGED open
  BY <1>1 DEF Rows
<1>3. Underway(v)
  BY DEF RegistrationInv
<1>4. /\ visit' \in [Visitors -> VisitSet]
      /\ \A w \in Visitors : w # v => visit'[w] = visit[w]
      /\ visit'[v].tries = visit[v].tries /\ visit'[v].region = visit[v].region
      /\ \/ visit'[v].at = "form" /\ visit'[v].told = "error"
         \/ visit'[v].at = "in" /\ visit'[v].told = "welcome"
  <2>1. CASE Answer(v, "error")
    BY <1>1, <2>1, AnswerEffect
  <2>2. CASE visit' = [visit EXCEPT ![v].at = "in", ![v].told = "welcome"]
    <3>1. PICK q : q = [visit[v] EXCEPT !.at = "in", !.told = "welcome"]
      OBVIOUS
    <3>2. /\ q \in VisitSet /\ q.at = "in" /\ q.tries = visit[v].tries
          /\ q.region = visit[v].region /\ q.told = "welcome"
      BY <1>1, <3>1 DEF VisitSet
    <3>3. visit' = [visit EXCEPT ![v] = q]
      BY <1>1, <2>2, <3>1 DEF VisitSet
    <3> QED
      BY <1>1, <3>2, <3>3
  <2> QED
    BY <2>1, <2>2 DEF Welcome
<1>5. Id(v)' = Id(v)
  BY <1>4 DEF Id
<1>6. Mine(v)' = Mine(v) /\ (HasOwner(Id(v))' <=> HasOwner(Id(v)))
      /\ (HasGrant(Id(v))' <=> HasGrant(Id(v)))
  BY <1>2, <1>5 DEF Mine, HasOwner, HasGrant
<1>7. Underway(v)'
  BY <1>1, <1>2, <1>3, <1>4, <1>5, <1>6 DEF Underway, Transaction
<1>8. visit'[v].tries >= visit[v].tries
  BY <1>1, <1>4 DEF VisitSet
<1> QED
  BY <1>1, <1>4, <1>7, <1>8, OnlyTheForm

\* An attempt that ends takes with it what it inserted, and nothing else.
LEMMA AbortKeeps ==
  ASSUME RegistrationInv, NEW v \in Visitors, Abort(v),
         visit[v].at \in {"slug", "organisation"} \cup Transaction
  PROVE  RegistrationInv'
<1>1. /\ Answer(v, "error") /\ open' = open \ {Id(v)}
      /\ organisations' = {org \in organisations : org.id # Id(v)}
      /\ accounts' = {user \in accounts : user.id # Id(v)}
      /\ grants' = {grant \in grants : grant.id # Id(v)}
  BY DEF Abort
<1>2. visit \in [Visitors -> VisitSet] /\ Underway(v)
  BY DEF RegistrationInv
<1>3. /\ visit' \in [Visitors -> VisitSet]
      /\ \A w \in Visitors : w # v => visit'[w] = visit[w]
      /\ visit'[v].at = "form" /\ visit'[v].tries = visit[v].tries /\ visit'[v].told = "error"
  BY <1>1, <1>2, AnswerEffect
<1>4. \A w \in Visitors : Id(w)' = Id(w)
  BY <1>3 DEF Id
<1>5. \A w \in Visitors : w # v => Id(w) # Id(v)
  BY <1>2, IdsApart
<1>6. Ids' = Ids
  <2>1. \A w \in Visitors : visit'[w].tries = visit[w].tries
    BY <1>3
  <2> QED
    BY <2>1 DEF Ids
<1>7. \A user \in accounts : user.id = Id(v) => Id(v) \in open
  BY <1>2 DEF Underway, HasOwner
<1>8. Committed(accounts) \subseteq Committed(accounts)'
  BY <1>1, <1>7 DEF Committed
<1>9. ASSUME NEW w \in Visitors, w # v PROVE Underway(w)'
  <2>1. Id(w) # Id(v) /\ visit'[w] = visit[w]
    BY <1>3, <1>5, <1>9
  <2>2. Id(w) \in open' <=> Id(w) \in open
    BY <1>1, <2>1
  <2>3. \A entry : entry.id = Id(w) => /\ entry \in organisations' <=> entry \in organisations
                                       /\ entry \in accounts' <=> entry \in accounts
                                       /\ entry \in grants' <=> entry \in grants
    BY <1>1, <2>1
  <2> QED
    BY <1>8, <2>1, <2>2, <2>3, OtherVisitor
<1>10. Underway(v)'
  BY <1>1, <1>3, <1>4 DEF Underway, Transaction
<1>11. \A org \in organisations' : org.id \in Ids' /\ org.region \in DataResidencyRegion
  BY <1>1, <1>6 DEF RegistrationInv
<1>12. \A user \in accounts' : user.id \in Ids' \cup {Invitation}
  BY <1>1, <1>6 DEF RegistrationInv
<1>13. \A grant \in grants' : grant.id \in Ids' /\ grant.role = "ORG_OWNER"
  BY <1>1, <1>6 DEF RegistrationInv
<1>14. \A user, other \in accounts' : user.id = other.id /\ user.id # Invitation => user = other
  BY <1>1 DEF RegistrationInv
<1>15. ASSUME NEW entry \in accounts' \cup grants'
       PROVE  entry.id = Invitation \/ \E org \in organisations' : org.id = entry.id
  <2>1. entry \in accounts \cup grants /\ entry.id # Id(v)
    BY <1>1, <1>15
  <2> QED
    BY <1>1, <2>1 DEF RegistrationInv
<1>16. ASSUME NEW org \in Committed(organisations)' PROVE HasOwner(org.id)' /\ HasGrant(org.id)'
  <2>1. org \in organisations /\ org.id # Id(v) /\ org.id \notin open
    BY <1>1, <1>16 DEF Committed
  <2>2. HasOwner(org.id) /\ HasGrant(org.id)
    BY <2>1 DEF RegistrationInv, Committed
  <2> QED
    BY <1>1, <2>1, <2>2 DEF HasOwner, HasGrant
<1>17. \A org, other \in organisations' : org.slug = other.slug => org = other
  BY <1>1 DEF RegistrationInv
<1>18. \A user, other \in accounts' : user.address = other.address => user = other
  BY <1>1 DEF RegistrationInv
<1>19. \A id \in open' : \E w \in Visitors : id = Id(w)'
  BY <1>1, <1>4 DEF RegistrationInv
<1>20. \A w \in Visitors : Underway(w)'
  BY <1>9, <1>10
<1>21. Invitation' = Invitation
  BY DEF Invitation
<1> QED
  BY <1>3, <1>11, <1>12, <1>13, <1>14, <1>15, <1>16, <1>17, <1>18, <1>19, <1>20, <1>21
     DEF RegistrationInv

\* The same for a step of the transaction that goes on.
LEMMA InsertOrganisationKeeps ==
  ASSUME RegistrationInv, NEW v \in Visitors, InsertOrganisation(v)
  PROVE  RegistrationInv'
<1>1. visit[v].at = "organisation" /\ visit \in [Visitors -> VisitSet] /\ Underway(v)
  BY DEF InsertOrganisation, At, RegistrationInv
<1>2. CASE Abort(v)
  BY <1>1, <1>2, AbortKeeps
<1>3. CASE ~Abort(v)
  <2>1. PICK new : new = [id |-> Id(v), slug |-> visit[v].slug, region |-> visit[v].region]
    OBVIOUS
  <2>2. /\ organisations' = organisations \cup {new} /\ open' = open \cup {Id(v)}
        /\ Go(v, "user") /\ accounts' = accounts /\ grants' = grants
        /\ \A org \in organisations : org.slug # new.slug
    BY <1>3, <2>1 DEF InsertOrganisation
  <2>3. new.id = Id(v) /\ new.region = visit[v].region /\ new.slug = visit[v].slug
    BY <2>1
  <2>4. /\ visit' \in [Visitors -> VisitSet]
        /\ \A w \in Visitors : w # v => visit'[w] = visit[w]
        /\ visit'[v].at = "user" /\ visit'[v].tries = visit[v].tries
        /\ visit'[v].told = visit[v].told /\ visit'[v].region = visit[v].region
        /\ visit'[v].address = visit[v].address
    BY <1>1, <2>2, GoEffect
  <2>5. \A w \in Visitors : Id(w)' = Id(w)
    BY <2>4 DEF Id
  <2>6. Ids' = Ids
    <3>1. \A w \in Visitors : visit'[w].tries = visit[w].tries
      BY <2>4
    <3> QED
      BY <3>1 DEF Ids
  <2>7. Id(v) \in Ids /\ visit[v].region \in DataResidencyRegion
    BY <1>1, IdsApart DEF Underway, VisitSet
  <2>8. \A user \in accounts : user.id # Id(v)
    BY <1>1 DEF Underway, HasOwner
  <2>9. Committed(accounts) \subseteq Committed(accounts)'
    BY <2>2, <2>8 DEF Committed
  <2>10. ASSUME NEW w \in Visitors, w # v PROVE Underway(w)'
    <3>1. Id(w) # Id(v) /\ visit'[w] = visit[w]
      BY <1>1, <2>4, <2>10, IdsApart
    <3>2. Id(w) \in open' <=> Id(w) \in open
      BY <2>2, <3>1
    <3>3. \A entry : entry.id = Id(w) => /\ entry \in organisations' <=> entry \in organisations
                                         /\ entry \in accounts' <=> entry \in accounts
                                         /\ entry \in grants' <=> entry \in grants
      BY <2>2, <2>3, <3>1
    <3> QED
      BY <2>9, <3>1, <3>2, <3>3, OtherVisitor
  <2>11. Underway(v)'
    <3>1. new \in Mine(v)' /\ Id(v)' \in open'
      BY <2>2, <2>3, <2>5 DEF Mine
    <3>2. ~HasOwner(Id(v))' /\ ~HasGrant(Id(v))'
      BY <1>1, <2>2, <2>5 DEF Underway, HasOwner, HasGrant
    <3> QED
      BY <1>1, <2>3, <2>4, <2>7, <3>1, <3>2 DEF Underway, Transaction
  <2>12. \A org \in organisations' : org.id \in Ids' /\ org.region \in DataResidencyRegion
    BY <2>2, <2>3, <2>6, <2>7 DEF RegistrationInv
  <2>13. \A entry \in accounts' \cup grants' :
           entry.id = Invitation \/ \E org \in organisations' : org.id = entry.id
    BY <2>2 DEF RegistrationInv
  <2>14. ASSUME NEW org \in Committed(organisations)' PROVE HasOwner(org.id)' /\ HasGrant(org.id)'
    <3>1. org \in Committed(organisations)
      BY <2>2, <2>3, <2>14 DEF Committed
    <3>2. HasOwner(org.id) /\ HasGrant(org.id)
      BY <3>1 DEF RegistrationInv
    <3> QED
      BY <2>2, <3>2 DEF HasOwner, HasGrant
  <2>15. \A org, other \in organisations' : org.slug = other.slug => org = other
    BY <2>2 DEF RegistrationInv
  <2>16. \A id \in open' : \E w \in Visitors : id = Id(w)'
    BY <2>2, <2>5 DEF RegistrationInv
  <2>17. \A w \in Visitors : Underway(w)'
    BY <2>10, <2>11
  <2>18. /\ \A user \in accounts' : user.id \in Ids' \cup {Invitation}
         /\ \A grant \in grants' : grant.id \in Ids' /\ grant.role = "ORG_OWNER"
         /\ \A user, other \in accounts' : user.id = other.id /\ user.id # Invitation => user = other
         /\ \A user, other \in accounts' : user.address = other.address => user = other
    BY <2>2, <2>6 DEF RegistrationInv
  <2>19. Invitation' = Invitation
    BY DEF Invitation
  <2> QED
    BY <2>4, <2>12, <2>13, <2>14, <2>15, <2>16, <2>17, <2>18, <2>19 DEF RegistrationInv
<1> QED
  BY <1>2, <1>3

LEMMA InsertOwnerKeeps ==
  ASSUME RegistrationInv, NEW v \in Visitors, InsertOwner(v)
  PROVE  RegistrationInv'
<1>1. visit[v].at = "user" /\ visit \in [Visitors -> VisitSet] /\ Underway(v)
  BY DEF InsertOwner, At, RegistrationInv
<1>2. CASE Abort(v)
  BY <1>1, <1>2, AbortKeeps DEF Transaction
<1>3. CASE ~Abort(v)
  <2>1. PICK new : new = [id |-> Id(v), address |-> visit[v].address]
    OBVIOUS
  <2>2. /\ accounts' = accounts \cup {new} /\ Go(v, "grant")
        /\ organisations' = organisations /\ grants' = grants /\ open' = open
        /\ \A user \in accounts : user.address # new.address
    BY <1>3, <2>1 DEF InsertOwner
  <2>3. new.id = Id(v) /\ new.address = visit[v].address
    BY <2>1
  <2>4. /\ visit' \in [Visitors -> VisitSet]
        /\ \A w \in Visitors : w # v => visit'[w] = visit[w]
        /\ visit'[v].at = "grant" /\ visit'[v].tries = visit[v].tries
        /\ visit'[v].told = visit[v].told /\ visit'[v].region = visit[v].region
        /\ visit'[v].address = visit[v].address
    BY <1>1, <2>2, GoEffect
  <2>5. \A w \in Visitors : Id(w)' = Id(w)
    BY <2>4 DEF Id
  <2>6. Ids' = Ids
    <3>1. \A w \in Visitors : visit'[w].tries = visit[w].tries
      BY <2>4
    <3> QED
      BY <3>1 DEF Ids
  <2>7. Id(v) \in Ids /\ Id(v) \in open
    BY <1>1, IdsApart DEF Underway, VisitSet, Transaction
  <2>8. \A user \in accounts : user.id # Id(v)
    BY <1>1 DEF Underway, HasOwner
  <2>9. Committed(accounts) \subseteq Committed(accounts)'
    BY <2>2 DEF Committed
  <2>10. ASSUME NEW w \in Visitors, w # v PROVE Underway(w)'
    <3>1. Id(w) # Id(v) /\ visit'[w] = visit[w]
      BY <1>1, <2>4, <2>10, IdsApart
    <3>2. Id(w) \in open' <=> Id(w) \in open
      BY <2>2
    <3>3. \A entry : entry.id = Id(w) => /\ entry \in organisations' <=> entry \in organisations
                                         /\ entry \in accounts' <=> entry \in accounts
                                         /\ entry \in grants' <=> entry \in grants
      BY <2>2, <2>3, <3>1
    <3> QED
      BY <2>9, <3>1, <3>2, <3>3, OtherVisitor
  <2>11. Underway(v)'
    <3>1. Mine(v)' = Mine(v) /\ Id(v)' = Id(v)
      BY <2>2, <2>5 DEF Mine
    <3>2. HasOwner(Id(v))' /\ ~HasGrant(Id(v))'
      BY <1>1, <2>2, <2>3, <2>5 DEF Underway, HasOwner, HasGrant
    <3> QED
      BY <1>1, <2>2, <2>4, <2>7, <3>1, <3>2 DEF Underway, Transaction
  <2>12. \A user \in accounts' : user.id \in Ids' \cup {Invitation}
    BY <2>2, <2>3, <2>6, <2>7 DEF RegistrationInv
  <2>13. \A user, other \in accounts' : user.id = other.id /\ user.id # Invitation => user = other
    BY <2>2, <2>3, <2>8 DEF RegistrationInv
  <2>14. \A entry \in accounts' \cup grants' :
           entry.id = Invitation \/ \E org \in organisations' : org.id = entry.id
    <3>1. \E org \in organisations : org.id = new.id
      BY <1>1, <2>3 DEF Underway, Mine, Transaction
    <3> QED
      BY <2>2, <3>1 DEF RegistrationInv
  <2>15. ASSUME NEW org \in Committed(organisations)' PROVE HasOwner(org.id)' /\ HasGrant(org.id)'
    <3>1. org \in Committed(organisations)
      BY <2>2, <2>15 DEF Committed
    <3>2. HasOwner(org.id) /\ HasGrant(org.id)
      BY <3>1 DEF RegistrationInv
    <3> QED
      BY <2>2, <3>2 DEF HasOwner, HasGrant
  <2>16. \A user, other \in accounts' : user.address = other.address => user = other
    BY <2>2 DEF RegistrationInv
  <2>17. \A w \in Visitors : Underway(w)'
    BY <2>10, <2>11
  <2>18. /\ \A org \in organisations' : org.id \in Ids' /\ org.region \in DataResidencyRegion
         /\ \A grant \in grants' : grant.id \in Ids' /\ grant.role = "ORG_OWNER"
         /\ \A org, other \in organisations' : org.slug = other.slug => org = other
         /\ \A id \in open' : \E w \in Visitors : id = Id(w)'
    BY <2>2, <2>5, <2>6 DEF RegistrationInv
  <2>19. Invitation' = Invitation
    BY DEF Invitation
  <2> QED
    BY <2>4, <2>12, <2>13, <2>14, <2>15, <2>16, <2>17, <2>18, <2>19 DEF RegistrationInv
<1> QED
  BY <1>2, <1>3

LEMMA GrantOwnerKeeps ==
  ASSUME RegistrationInv, NEW v \in Visitors, GrantOwner(v)
  PROVE  RegistrationInv'
<1>1. visit[v].at = "grant" /\ visit \in [Visitors -> VisitSet] /\ Underway(v)
  BY DEF GrantOwner, At, RegistrationInv
<1>2. PICK new : new = [id |-> Id(v), role |-> "ORG_OWNER"]
  OBVIOUS
<1>3. /\ grants' = grants \cup {new} /\ Go(v, "commit")
      /\ organisations' = organisations /\ accounts' = accounts /\ open' = open
  BY <1>2 DEF GrantOwner
<1>4. new.id = Id(v) /\ new.role = "ORG_OWNER"
  BY <1>2
<1>5. /\ visit' \in [Visitors -> VisitSet]
      /\ \A w \in Visitors : w # v => visit'[w] = visit[w]
      /\ visit'[v].at = "commit" /\ visit'[v].tries = visit[v].tries
      /\ visit'[v].told = visit[v].told /\ visit'[v].region = visit[v].region
      /\ visit'[v].address = visit[v].address
  BY <1>1, <1>3, GoEffect
<1>6. \A w \in Visitors : Id(w)' = Id(w)
  BY <1>5 DEF Id
<1>7. Ids' = Ids
  <2>1. \A w \in Visitors : visit'[w].tries = visit[w].tries
    BY <1>5
  <2> QED
    BY <2>1 DEF Ids
<1>8. Id(v) \in Ids /\ Id(v) \in open
  BY <1>1, IdsApart DEF Underway, VisitSet, Transaction
<1>9. Committed(accounts) \subseteq Committed(accounts)'
  BY <1>3 DEF Committed
<1>10. ASSUME NEW w \in Visitors, w # v PROVE Underway(w)'
  <2>1. Id(w) # Id(v) /\ visit'[w] = visit[w]
    BY <1>1, <1>5, <1>10, IdsApart
  <2>2. Id(w) \in open' <=> Id(w) \in open
    BY <1>3
  <2>3. \A entry : entry.id = Id(w) => /\ entry \in organisations' <=> entry \in organisations
                                       /\ entry \in accounts' <=> entry \in accounts
                                       /\ entry \in grants' <=> entry \in grants
    BY <1>3, <1>4, <2>1
  <2> QED
    BY <1>9, <2>1, <2>2, <2>3, OtherVisitor
<1>11. Underway(v)'
  <2>1. Mine(v)' = Mine(v) /\ Id(v)' = Id(v)
    BY <1>3, <1>6 DEF Mine
  <2>2. HasOwner(Id(v))' /\ HasGrant(Id(v))'
    BY <1>1, <1>3, <1>4, <1>6 DEF Underway, HasOwner, HasGrant
  <2> QED
    BY <1>1, <1>3, <1>5, <1>8, <2>1, <2>2 DEF Underway, Transaction
<1>12. \A grant \in grants' : grant.id \in Ids' /\ grant.role = "ORG_OWNER"
  BY <1>3, <1>4, <1>7, <1>8 DEF RegistrationInv
<1>13. \A entry \in accounts' \cup grants' :
         entry.id = Invitation \/ \E org \in organisations' : org.id = entry.id
  <2>1. \E org \in organisations : org.id = new.id
    BY <1>1, <1>4 DEF Underway, Mine, Transaction
  <2> QED
    BY <1>3, <2>1 DEF RegistrationInv
<1>14. ASSUME NEW org \in Committed(organisations)' PROVE HasOwner(org.id)' /\ HasGrant(org.id)'
  <2>1. org \in Committed(organisations)
    BY <1>3, <1>14 DEF Committed
  <2>2. HasOwner(org.id) /\ HasGrant(org.id)
    BY <2>1 DEF RegistrationInv
  <2> QED
    BY <1>3, <2>2 DEF HasOwner, HasGrant
<1>15. \A w \in Visitors : Underway(w)'
  BY <1>10, <1>11
<1>16. /\ \A org \in organisations' : org.id \in Ids' /\ org.region \in DataResidencyRegion
       /\ \A user \in accounts' : user.id \in Ids' \cup {Invitation}
       /\ \A user, other \in accounts' : user.id = other.id /\ user.id # Invitation => user = other
       /\ \A org, other \in organisations' : org.slug = other.slug => org = other
       /\ \A user, other \in accounts' : user.address = other.address => user = other
       /\ \A id \in open' : \E w \in Visitors : id = Id(w)'
  BY <1>3, <1>6, <1>7 DEF RegistrationInv
<1>17. Invitation' = Invitation
  BY DEF Invitation
<1> QED
  BY <1>5, <1>12, <1>13, <1>14, <1>15, <1>16, <1>17 DEF RegistrationInv

LEMMA CommitKeeps ==
  ASSUME RegistrationInv, NEW v \in Visitors, Commit(v)
  PROVE  RegistrationInv'
<1>1. visit[v].at = "commit" /\ visit \in [Visitors -> VisitSet] /\ Underway(v)
  BY DEF Commit, At, RegistrationInv
<1>2. /\ open' = open \ {Id(v)} /\ Go(v, "session")
      /\ organisations' = organisations /\ accounts' = accounts /\ grants' = grants
  BY DEF Commit
<1>3. /\ visit' \in [Visitors -> VisitSet]
      /\ \A w \in Visitors : w # v => visit'[w] = visit[w]
      /\ visit'[v].at = "session" /\ visit'[v].tries = visit[v].tries
      /\ visit'[v].told = visit[v].told /\ visit'[v].region = visit[v].region
      /\ visit'[v].address = visit[v].address
  BY <1>1, <1>2, GoEffect
<1>4. \A w \in Visitors : Id(w)' = Id(w)
  BY <1>3 DEF Id
<1>5. Ids' = Ids
  <2>1. \A w \in Visitors : visit'[w].tries = visit[w].tries
    BY <1>3
  <2> QED
    BY <2>1 DEF Ids
<1>6. Committed(accounts) \subseteq Committed(accounts)'
  BY <1>2 DEF Committed
<1>7. ASSUME NEW w \in Visitors, w # v PROVE Underway(w)'
  <2>1. Id(w) # Id(v) /\ visit'[w] = visit[w]
    BY <1>1, <1>3, <1>7, IdsApart
  <2>2. Id(w) \in open' <=> Id(w) \in open
    BY <1>2, <2>1
  <2>3. \A entry : entry.id = Id(w) => /\ entry \in organisations' <=> entry \in organisations
                                       /\ entry \in accounts' <=> entry \in accounts
                                       /\ entry \in grants' <=> entry \in grants
    BY <1>2
  <2> QED
    BY <1>6, <2>1, <2>2, <2>3, OtherVisitor
<1>8. HasOwner(Id(v)) /\ HasGrant(Id(v))
  BY <1>1 DEF Underway
<1>9. Underway(v)'
  <2>1. Mine(v)' = Mine(v) /\ Id(v)' = Id(v) /\ Id(v)' \notin open'
    BY <1>2, <1>4 DEF Mine
  <2> QED
    BY <1>1, <1>3, <2>1 DEF Underway, Transaction
<1>10. ASSUME NEW org \in Committed(organisations)' PROVE HasOwner(org.id)' /\ HasGrant(org.id)'
  <2>1. org \in Committed(organisations) \/ org.id = Id(v)
    BY <1>2, <1>10 DEF Committed
  <2>2. HasOwner(org.id) /\ HasGrant(org.id)
    BY <1>8, <2>1 DEF RegistrationInv
  <2> QED
    BY <1>2, <2>2 DEF HasOwner, HasGrant
<1>11. \A w \in Visitors : Underway(w)'
  BY <1>7, <1>9
<1>12. /\ \A org \in organisations' : org.id \in Ids' /\ org.region \in DataResidencyRegion
       /\ \A user \in accounts' : user.id \in Ids' \cup {Invitation}
       /\ \A grant \in grants' : grant.id \in Ids' /\ grant.role = "ORG_OWNER"
       /\ \A user, other \in accounts' : user.id = other.id /\ user.id # Invitation => user = other
       /\ \A entry \in accounts' \cup grants' :
            entry.id = Invitation \/ \E org \in organisations' : org.id = entry.id
       /\ \A org, other \in organisations' : org.slug = other.slug => org = other
       /\ \A user, other \in accounts' : user.address = other.address => user = other
       /\ \A id \in open' : \E w \in Visitors : id = Id(w)'
  BY <1>2, <1>4, <1>5 DEF RegistrationInv
<1>13. Invitation' = Invitation
  BY DEF Invitation
<1> QED
  BY <1>3, <1>10, <1>11, <1>12, <1>13 DEF RegistrationInv

LEMMA InviteElsewhereKeeps ==
  ASSUME RegistrationInv, NEW address, InviteElsewhere(address)
  PROVE  RegistrationInv'
<1>1. PICK new : new = [id |-> Invitation, address |-> address]
  OBVIOUS
<1>2. /\ accounts' = accounts \cup {new}
      /\ visit' = visit /\ organisations' = organisations /\ grants' = grants /\ open' = open
      /\ \A user \in accounts : user.address # new.address
      /\ new.id = Invitation
  BY <1>1 DEF InviteElsewhere, Invitation
<1>3. \A w \in Visitors : Id(w)' = Id(w)
  BY <1>2 DEF Id
<1>4. Ids' = Ids /\ Invitation' = Invitation
  BY <1>2 DEF Ids, Invitation
<1>5. Committed(accounts) \subseteq Committed(accounts)'
  BY <1>2 DEF Committed
<1>6. ASSUME NEW w \in Visitors PROVE Underway(w)'
  <2>1. CASE Id(w) # Invitation
    <3>1. \A entry : entry.id = Id(w) => /\ entry \in organisations' <=> entry \in organisations
                                         /\ entry \in accounts' <=> entry \in accounts
                                         /\ entry \in grants' <=> entry \in grants
      BY <1>2, <2>1
    <3>2. visit'[w] = visit[w] /\ (Id(w) \in open' <=> Id(w) \in open)
      BY <1>2
    <3> QED
      BY <1>5, <3>1, <3>2, OtherVisitor
  <2>2. CASE Id(w) = Invitation
    <3>1. visit[w].tries = 0 /\ Underway(w)
      BY <2>2 DEF Id, Invitation, RegistrationInv
    <3>2. visit[w].at = "form" /\ visit'[w] = visit[w]
      BY <1>2, <3>1 DEF Underway
    <3>3. Id(w)' \notin open'
      BY <1>2, <1>3, <3>1, <3>2 DEF Underway, Transaction
    <3> QED
      BY <1>5, <3>1, <3>2, <3>3 DEF Underway, Transaction
  <2> QED
    BY <2>1, <2>2
<1>7. ASSUME NEW org \in Committed(organisations)' PROVE HasOwner(org.id)' /\ HasGrant(org.id)'
  <2>1. org \in Committed(organisations)
    BY <1>2, <1>7 DEF Committed
  <2>2. HasOwner(org.id) /\ HasGrant(org.id)
    BY <2>1 DEF RegistrationInv
  <2> QED
    BY <1>2, <2>2 DEF HasOwner, HasGrant
<1>8. /\ \A user \in accounts' : user.id \in Ids' \cup {Invitation}
      /\ \A user, other \in accounts' : user.id = other.id /\ user.id # Invitation => user = other
      /\ \A entry \in accounts' \cup grants' :
           entry.id = Invitation \/ \E org \in organisations' : org.id = entry.id
      /\ \A user, other \in accounts' : user.address = other.address => user = other
  BY <1>2, <1>4 DEF RegistrationInv
<1>9. /\ \A org \in organisations' : org.id \in Ids' /\ org.region \in DataResidencyRegion
      /\ \A grant \in grants' : grant.id \in Ids' /\ grant.role = "ORG_OWNER"
      /\ \A org, other \in organisations' : org.slug = other.slug => org = other
      /\ \A id \in open' : \E w \in Visitors : id = Id(w)'
      /\ visit' \in [Visitors -> VisitSet]
  BY <1>2, <1>3, <1>4 DEF RegistrationInv
<1> QED
  BY <1>4, <1>6, <1>7, <1>8, <1>9 DEF RegistrationInv

LEMMA RegistrationStep ==
  ASSUME RegistrationInv, [RegistrationNext]_registrationVars
  PROVE  RegistrationInv'
<1>1. CASE UNCHANGED registrationVars
  <2>1. /\ visit' = visit /\ organisations' = organisations /\ accounts' = accounts
        /\ grants' = grants /\ open' = open
    BY <1>1 DEF registrationVars
  <2> QED
    BY <2>1 DEF RegistrationInv, Underway, Mine, HasOwner, HasGrant, Committed, Id, Ids, Invitation
<1>2. ASSUME NEW v \in Visitors, NEW form \in Fields, Submit(v, form) PROVE RegistrationInv'
  BY <1>2, SubmitKeeps
<1>3. ASSUME NEW v \in Visitors, CheckEmail(v) \/ UniqueSlug(v) PROVE RegistrationInv'
  BY <1>3, CheckEmailKeeps, UniqueSlugKeeps
<1>4. ASSUME NEW v \in Visitors,
             InsertOrganisation(v) \/ InsertOwner(v) \/ GrantOwner(v) \/ Commit(v)
      PROVE  RegistrationInv'
  BY <1>4, InsertOrganisationKeeps, InsertOwnerKeeps, GrantOwnerKeeps, CommitKeeps
<1>5. ASSUME NEW v \in Visitors, Fail(v) PROVE RegistrationInv'
  BY <1>5, AbortKeeps DEF Fail, Transaction
<1>6. ASSUME NEW v \in Visitors, Welcome(v) PROVE RegistrationInv'
  BY <1>6, WelcomeKeeps
<1>7. ASSUME NEW address, InviteElsewhere(address) PROVE RegistrationInv'
  BY <1>7, InviteElsewhereKeeps
<1> QED
  BY <1>1, <1>2, <1>3, <1>4, <1>5, <1>6, <1>7 DEF RegistrationNext

LEMMA WholeRegistrations == RegistrationInv => RegistrationsAreWhole
<1> SUFFICES ASSUME RegistrationInv PROVE RegistrationsAreWhole
  OBVIOUS
<1>1. Permissions["ORG_OWNER"] = Catalogue
  BY DEF Permissions, SystemRole
<1>2. ASSUME NEW org \in Committed(organisations)
      PROVE  Owned(org) /\ org.region \in DataResidencyRegion
  <2>1. org \in organisations /\ HasOwner(org.id) /\ HasGrant(org.id)
    BY <1>2 DEF RegistrationInv, Committed
  <2>2. org.id # Invitation /\ org.region \in DataResidencyRegion
    BY <2>1, IdsApart DEF RegistrationInv, Ids, Invitation
  <2>3. \A grant \in grants : Permissions[grant.role] = Catalogue
    BY <1>1 DEF RegistrationInv
  <2>4. \A user, other \in accounts : user.id = org.id /\ other.id = org.id => user = other
    BY <2>2 DEF RegistrationInv
  <2> QED
    BY <2>1, <2>2, <2>3, <2>4 DEF Owned, HasOwner, HasGrant
<1>3. \A id \in open : \E v \in Visitors : id = Id(v) /\ visit[v].at \in {"user", "grant", "commit"}
  BY DEF RegistrationInv, Underway, Transaction
<1>4. ASSUME NEW v \in Visitors PROVE Told(v)
  <2>1. Underway(v)
    BY DEF RegistrationInv
  <2>2. ASSUME visit[v].told = "welcome"
        PROVE  \E org \in Committed(organisations) : org.id = Id(v) /\ org.region = visit[v].region
    <3>1. visit[v].at = "in" /\ Id(v) \notin open
      BY <2>1, <2>2 DEF Underway, Transaction
    <3>2. PICK org \in Mine(v) : org.region = visit[v].region
      BY <2>1, <3>1 DEF Underway
    <3> QED
      BY <3>1, <3>2 DEF Mine, Committed
  <2> QED
    BY <2>1, <2>2 DEF Told, Underway
<1>5. /\ \A org, other \in organisations : org.slug = other.slug => org = other
      /\ \A user, other \in accounts : user.address = other.address => user = other
  BY DEF RegistrationInv
<1>6. \A entry \in accounts \cup grants :
        entry.id[1] = Elsewhere \/ \E org \in organisations : org.id = entry.id
  BY DEF RegistrationInv, Invitation
<1> QED
  BY <1>2, <1>3, <1>4, <1>5, <1>6 DEF RegistrationsAreWhole

\* A registration happens as a whole or not at all, whoever races whom (register).
THEOREM AccountsRegistrations == RegistrationSpec => []RegistrationsAreWhole
<1>1. RegistrationInit => RegistrationInv
  BY InitRegistration
<1>2. RegistrationInv /\ [RegistrationNext]_registrationVars => RegistrationInv'
  BY RegistrationStep
<1>3. RegistrationInv => RegistrationsAreWhole
  BY WholeRegistrations
<1> QED
  BY <1>1, <1>2, <1>3, PTL DEF RegistrationSpec

=============================================================================
