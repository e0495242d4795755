------------------------------- MODULE Access -------------------------------
(***************************************************************************)
(* Who gets through to one organisation: the permission check with its     *)
(* cache, the check of the organisation's own status, which members may    *)
(* change, and the public API with its keys and its counter per minute.    *)
(*                                                                         *)
(* Every request passes its guards before its transaction begins.  Callers *)
(* have live sessions (Sessions), which outlive the membership.            *)
(***************************************************************************)
EXTENDS Integers, FiniteSets

CONSTANTS
  Members,     \* members of the organisation
  RightsOf,    \* the rights of a member's role
  Keys,        \* API keys
  Expiry,      \* when a key expires, 0 for never
  Requests,    \* requests that are open at the same time
  Nobody,      \* "no caller"
  CacheTtl,    \* CACHE_TTL_SECONDS, in ticks
  Window,      \* a minute, in ticks
  CounterTtl,  \* WINDOW_SECONDS + 5, in ticks
  Limit,       \* DEFAULT_LIMIT_PER_MINUTE
  MaxTime      \* bound on the clock

Rights == {"manage", "delete"}

ASSUME AccessAssumption ==
  /\ RightsOf \in [Members -> SUBSET Rights]
  /\ Expiry \in [Keys -> Nat]
  /\ Nobody \notin Members \cup Keys
  /\ Members \cap Keys = {}
  /\ CacheTtl \in Nat \ {0}
  /\ Window \in Nat \ {0}
  /\ CounterTtl \in Nat /\ CounterTtl > Window
  /\ Limit \in Nat \ {0}
  /\ MaxTime \in Nat

VARIABLES
  organisation,  \* organisations.status
  assigned,      \* role_assignments: members that have their role
  revoked,       \* api_keys: keys with a revoked_at
  cache,         \* perms:<user> in Redis
  counter,       \* rate:apikey:<key>:<minute> in Redis
  now,           \* the clock
  request,       \* the open requests
  trusted,       \* history: when a member's rights, or a request that read them
                 \* and had not yet cached them, were last there
  passed,        \* history: calls that a key's counter let through in a minute
  late,          \* history: minutes in which a call was counted late
  inFlight       \* history: requests that were in their transaction when the
                 \* organisation was last active

vars == <<organisation, assigned, revoked, cache, counter, now, request, trusted,
          passed, late, inFlight>>

Minutes == 0 .. (MaxTime \div Window)
Forever == -1
NotCached == [rights |-> {}, until |-> 0]
NotCounted == [count |-> 0, until |-> 0]
Alive(entry) == entry.until = Forever \/ now < entry.until

\* The routes, by what they do: the right they require, and whether they are
\* marked @AllowSuspended.
Operations == {"update", "suspend", "reactivate", "close", "remove", "revoke"}
Required(op) == IF op = "close" THEN "delete" ELSE "manage"
AllowSuspended(op) == op \in {"reactivate", "close"}

\* rights: those read; saw: the status in the entity; changed: whether the save
\* will write it; asked, count: when a key's call took its minute, and its number.
Idle == [pc |-> "idle", op |-> "none", by |-> Nobody, rights |-> {}, saw |-> "ACTIVE",
         changed |-> FALSE, asked |-> 0, count |-> 0]

MemberSteps == {"assignments", "store"}
KeySteps == {"minute", "count", "expire", "limit"}

Statuses == {"ACTIVE", "SUSPENDED", "CLOSED"}
Steps == {"idle", "begin", "handle", "select", "write"} \cup MemberSteps \cup KeySteps

RequestSet ==
  [pc : Steps, op : Operations \cup {"none", "call"},
   by : Members \cup Keys \cup {Nobody}, rights : SUBSET Rights,
   saw : Statuses, changed : BOOLEAN, asked : 0 .. MaxTime, count : Nat]
Held(q) == /\ q.pc \in MemberSteps => q.by \in Members
           /\ q.pc \in KeySteps => q.by \in Keys

RequestsOK == /\ request \in [Requests -> RequestSet]
              /\ \A r \in Requests : Held(request[r])

TypeOK ==
  /\ organisation \in Statuses
  /\ assigned \subseteq Members
  /\ revoked \subseteq Keys
  /\ cache \in [Members -> [rights : SUBSET Rights, until : Nat]]
  /\ counter \in [Keys -> [Minutes -> [count : Nat, until : Nat \cup {Forever}]]]
  /\ now \in 0 .. MaxTime
  /\ RequestsOK
  /\ trusted \in [Members -> Nat]
  /\ passed \in [Keys -> [Minutes -> Nat]]
  /\ late \subseteq Keys \X Int
  /\ inFlight \subseteq Requests

Init ==
  /\ organisation = "ACTIVE"
  /\ assigned = Members
  /\ revoked = {}
  /\ cache = [u \in Members |-> NotCached]
  /\ counter = [k \in Keys |-> [m \in Minutes |-> NotCounted]]
  /\ now = 0
  /\ request = [r \in Requests |-> Idle]
  /\ trusted = [u \in Members |-> 0]
  /\ passed = [k \in Keys |-> [m \in Minutes |-> 0]]
  /\ late = {}
  /\ inFlight = {}

Tables == <<organisation, assigned, revoked>>
Redis == <<cache, counter>>
History == <<trusted, passed, late, inFlight>>

At(r, pc) == request[r].pc = pc
Goto(r, pc) == request' = [request EXCEPT ![r].pc = pc]
Finish(r) == request' = [request EXCEPT ![r] = Idle]
InTransaction == {r \in Requests : request[r].pc \in {"handle", "select", "write"}}

-----------------------------------------------------------------------------
(* PermissionsGuard.                                                       *)

Asking(u, op) == [Idle EXCEPT !.pc = "assignments", !.op = op, !.by = u]

\* The held rights decide; a refusal ends the request.
Decide(r, asking, rights) ==
  request' = [request EXCEPT ![r] =
    IF Required(asking.op) \in rights THEN [asking EXCEPT !.pc = "begin"] ELSE Idle]

\* Mutant: a hit renews the entry.
CacheHit_Renewed(r, u, op) ==
  /\ Alive(cache[u])
  /\ Decide(r, Asking(u, op), cache[u].rights)
  /\ cache' = [cache EXCEPT ![u].until = now + CacheTtl]

CacheHit(r, u, op) ==
  /\ Alive(cache[u])
  /\ Decide(r, Asking(u, op), cache[u].rights)
  /\ UNCHANGED cache

CacheMiss(r, u, op) ==
  /\ ~Alive(cache[u])
  /\ request' = [request EXCEPT ![r] = Asking(u, op)]
  /\ UNCHANGED cache

Ask(r, u, op) ==
  /\ At(r, "idle")
  /\ CacheHit(r, u, op) \/ CacheMiss(r, u, op)
  /\ UNCHANGED <<Tables, counter, now, History>>

ReadAssignments(r) ==
  LET u == request[r].by IN
  /\ At(r, "assignments")
  /\ request' = [request EXCEPT ![r].pc = "store",
                                ![r].rights = IF u \in assigned THEN RightsOf[u] ELSE {}]
  /\ UNCHANGED <<Tables, Redis, now, History>>

\* What was read may be out of date by now.
StoreRights(r) ==
  /\ At(r, "store")
  /\ cache' = [cache EXCEPT ![request[r].by] =
                 [rights |-> request[r].rights, until |-> now + CacheTtl]]
  /\ Decide(r, Asking(request[r].by, request[r].op), request[r].rights)
  /\ UNCHANGED <<Tables, counter, now, History>>

-----------------------------------------------------------------------------
(* ApiKeyAuthGuard and ApiKeyRateLimitGuard.                               *)

CallPublicApi(r, k) ==
  /\ At(r, "idle")
  /\ k \notin revoked
  /\ Expiry[k] = 0 \/ now <= Expiry[k]
  /\ request' = [request EXCEPT ![r] =
                   [Idle EXCEPT !.pc = "minute", !.op = "call", !.by = k]]
  /\ UNCHANGED <<Tables, Redis, now, History>>

\* The minute is taken from the clock before Redis counts in it.
TakeMinute(r) ==
  /\ At(r, "minute")
  /\ request' = [request EXCEPT ![r].pc = "count", ![r].asked = now]
  /\ UNCHANGED <<Tables, Redis, now, History>>

Minute(r) == request[r].asked \div Window

\* INCR creates the counter without an expiry when there is none.  Bound: above
\* the limit all counts are alike.
Count(r) ==
  LET k == request[r].by
      old == counter[k][Minute(r)]
      new == IF old.count > 0 /\ Alive(old)
             THEN [old EXCEPT !.count = IF @ > Limit THEN @ ELSE @ + 1]
             ELSE [count |-> 1, until |-> Forever]
  IN
  /\ At(r, "count")
  /\ counter' = [counter EXCEPT ![k][Minute(r)] = new]
  /\ request' = [request EXCEPT ![r].pc = IF new.count = 1 THEN "expire" ELSE "limit",
                                ![r].count = new.count]
  /\ late' = IF now - request[r].asked > CounterTtl - Window
             THEN late \cup {<<k, Minute(r)>>} ELSE late
  /\ UNCHANGED <<Tables, cache, now, trusted, passed, inFlight>>

\* Mutant: the counter lives a minute.
ExpireCounter_Minute(r) ==
  /\ At(r, "expire")
  /\ counter' = [counter EXCEPT ![request[r].by][Minute(r)].until = now + Window]
  /\ Goto(r, "limit")
  /\ UNCHANGED <<Tables, cache, now, History>>

ExpireCounter(r) ==
  /\ At(r, "expire")
  /\ counter' = [counter EXCEPT ![request[r].by][Minute(r)].until = now + CounterTtl]
  /\ Goto(r, "limit")
  /\ UNCHANGED <<Tables, cache, now, History>>

WithinLimit(r) ==
  LET k == request[r].by IN
  /\ At(r, "limit")
  /\ request[r].count <= Limit
  /\ passed' = [passed EXCEPT ![k][Minute(r)] = @ + 1]
  /\ request' = [request EXCEPT ![r] = [Idle EXCEPT !.pc = "begin", !.op = "call", !.by = k]]
  /\ UNCHANGED <<Tables, Redis, now, trusted, late, inFlight>>

RefuseCall(r) ==
  /\ At(r, "limit")
  /\ request[r].count > Limit
  /\ Finish(r)
  /\ UNCHANGED <<Tables, Redis, now, History>>

-----------------------------------------------------------------------------
(* TenantContextInterceptor, and what the handlers do.                     *)

\* Mutant: only a closed organisation is refused.
Refused_ClosedOnly(op) == ~AllowSuspended(op) /\ organisation = "CLOSED"

\* Closed organisations are refused, suspended ones when the method writes.
Refused(op) ==
  /\ ~AllowSuspended(op)
  /\ organisation = "CLOSED" \/ (organisation = "SUSPENDED" /\ op # "call")

Begin(r) ==
  /\ At(r, "begin")
  /\ IF Refused(request[r].op)
     THEN Finish(r)
     ELSE Goto(r, "handle")
  /\ inFlight' = inFlight \ {r}
  /\ UNCHANGED <<Tables, Redis, now, trusted, passed, late>>

\* A call of the public API reads.
AnswerCall(r) ==
  /\ At(r, "handle")
  /\ request[r].op = "call"
  /\ Finish(r)
  /\ UNCHANGED <<Tables, Redis, now, History>>

\* Role assignments go with the member.  Nobody removes himself; and the delete
\* fails for a member in the audit log, which Accounts keeps.
RemoveMember(r) ==
  /\ At(r, "handle")
  /\ request[r].op = "remove"
  /\ \E u \in Members \ {request[r].by} : assigned' \in {assigned, assigned \ {u}}
  /\ Finish(r)
  /\ UNCHANGED <<organisation, revoked, Redis, now, History>>

RevokeKey(r) ==
  /\ At(r, "handle")
  /\ request[r].op = "revoke"
  /\ \E k \in Keys : revoked' = revoked \cup {k}
  /\ Finish(r)
  /\ UNCHANGED <<organisation, assigned, Redis, now, History>>

\* getCurrent, and the change of the entity; an update of the settings keeps
\* the status it read.
ReadOrganisation(r) ==
  LET written == CASE request[r].op = "suspend" -> "SUSPENDED"
                   [] request[r].op = "reactivate" -> "ACTIVE"
                   [] request[r].op = "close" -> "CLOSED"
                   [] request[r].op = "update" -> organisation
  IN
  /\ At(r, "handle")
  /\ request[r].op \in {"update", "suspend", "reactivate", "close"}
  /\ request' = [request EXCEPT ![r].pc = "select", ![r].saw = written]
  /\ UNCHANGED <<Tables, Redis, now, History>>

\* repo.save selects the row again, and updates the columns that differ.
SaveSelect(r) ==
  /\ At(r, "select")
  /\ request' = [request EXCEPT ![r].pc = "write",
                                ![r].changed = request[r].saw # organisation]
  /\ UNCHANGED <<Tables, Redis, now, History>>

SaveUpdate(r) ==
  /\ At(r, "write")
  /\ organisation' = IF request[r].changed THEN request[r].saw ELSE organisation
  /\ inFlight' = IF organisation = "ACTIVE" THEN InTransaction \ {r} ELSE inFlight
  /\ Finish(r)
  /\ UNCHANGED <<assigned, revoked, Redis, now, trusted, passed, late>>

-----------------------------------------------------------------------------
(* The environment.                                                        *)

HasRightsOf(r, u) == At(r, "store") /\ request[r].by = u /\ request[r].rights # {}

Tick ==
  /\ now < MaxTime
  /\ now' = now + 1
  /\ trusted' = [u \in Members |->
       IF u \in assigned \/ \E r \in Requests : HasRightsOf(r, u) THEN now + 1
                                                                 ELSE trusted[u]]
  /\ UNCHANGED <<Tables, Redis, request, passed, late, inFlight>>

\* The service dies, and the requests it had; transactions that did not commit
\* leave nothing.
Crash ==
  /\ request # [r \in Requests |-> Idle]
  /\ request' = [r \in Requests |-> Idle]
  /\ UNCHANGED <<Tables, Redis, now, History>>

Next ==
  \/ \E r \in Requests, u \in Members, op \in Operations : Ask(r, u, op)
  \/ \E r \in Requests, k \in Keys : CallPublicApi(r, k)
  \/ \E r \in Requests :
       \/ ReadAssignments(r) \/ StoreRights(r)
       \/ TakeMinute(r) \/ Count(r) \/ ExpireCounter(r) \/ WithinLimit(r) \/ RefuseCall(r)
       \/ Begin(r) \/ AnswerCall(r) \/ RemoveMember(r) \/ RevokeKey(r)
       \/ ReadOrganisation(r) \/ SaveSelect(r) \/ SaveUpdate(r)
  \/ Tick
  \/ Crash

Spec == Init /\ [][Next]_vars

-----------------------------------------------------------------------------
(* Properties.                                                             *)

\* Who is no longer a member passes the permission check only as long as an
\* entry lives that was stored by a request that read the rights in time
\* (FR-RBAC-008, getPermissions).
RightsExpire ==
  [][\A r \in Requests :
       LET u == request'[r].by IN
       request[r].pc # "begin" /\ request'[r].pc = "begin" /\ u \in Members \ assigned
         => now < trusted[u] + CacheTtl]_vars

\* Calls of one minute stay within the limit, unless one of them was held up on
\* its way to Redis until the counter of its minute might be gone
\* (ApiKeyRateLimitGuard).
RateHolds ==
  \A k \in Keys, m \in Minutes : passed[k][m] <= Limit \/ <<k, m>> \in late

\* What an organisation that is not active writes, except to be reactivated or
\* closed, it had begun when it last was (FR-TEN-008).
OnlyBegunWrites ==
  [][Tables' # Tables /\ organisation # "ACTIVE"
       => \E r \in Requests :
            /\ At(r, "handle") \/ At(r, "write")
            /\ request'[r] = Idle
            /\ AllowSuspended(request[r].op) \/ r \in inFlight]_vars
=============================================================================
