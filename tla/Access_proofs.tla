--------------------------- MODULE Access_proofs ---------------------------
(***************************************************************************)
(* What holds of access to an organisation for any members, roles, keys,   *)
(* times to live and number of overlapping requests: rights end in time,   *)
(* an organisation that is not active writes only what had begun, and the  *)
(* calls of a key stay within its limit.  And of the tables of jobs and    *)
(* keys (Lists) for any jobs, keys and overlapping calls.                  *)
(***************************************************************************)
EXTENDS Access, Lists, FiniteSetTheorems, TLAPS

-----------------------------------------------------------------------------
(* Types.                                                                   *)

\* All that the step of a request does to the requests.
LEMMA RequestTypes ==
  ASSUME TypeOK, NEW r \in Requests, NEW q \in RequestSet, Held(q),
         request' = [request EXCEPT ![r] = q]
  PROVE  RequestsOK'
  BY DEF TypeOK, RequestsOK, RequestSet, Held

LEMMA MinuteTypes ==
  ASSUME TypeOK, NEW r \in Requests
  PROVE  Minute(r) \in Minutes
  <1> DEFINE a == request[r].asked
             p == a \div Window
             q == MaxTime \div Window
  <1>1. a \in Nat /\ a <= MaxTime /\ MaxTime \in Nat /\ Window \in Nat \ {0}
    BY AccessAssumption DEF TypeOK, RequestsOK, RequestSet
  <1> HIDE DEF a
  <1>2. p \in Nat /\ q \in Nat BY <1>1
  <1>3. Window * p <= a /\ MaxTime < Window * (q + 1) BY <1>1
  <1> HIDE DEF p, q
  <1>4. ASSUME p >= q + 1 PROVE FALSE
    <2>1. Window * p >= Window * (q + 1) BY <1>1, <1>2, <1>4
    <2>2. QED BY <1>1, <1>2, <1>3, <2>1
  <1>5. p \in 0 .. q BY <1>2, <1>4
  <1>6. QED BY <1>5 DEF p, q, a, Minute, Minutes

LEMMA IdleTypes == Idle \in RequestSet /\ Held(Idle)
  BY AccessAssumption DEF Idle, RequestSet, Held, Steps, MemberSteps, KeySteps, Rights, Statuses

LEMMA AskingTypes ==
  ASSUME NEW u \in Members, NEW op \in Operations \cup {"none", "call"}
  PROVE  /\ Asking(u, op) \in RequestSet
         /\ Asking(u, op).by = u /\ Asking(u, op).pc = "assignments"
         /\ Held(Asking(u, op))
  BY IdleTypes DEF Asking, RequestSet, Held, Steps, MemberSteps, KeySteps

LEMMA DecideTypes ==
  ASSUME TypeOK, NEW r \in Requests, NEW u \in Members,
         NEW op \in Operations \cup {"none", "call"}, NEW rights, Decide(r, Asking(u, op), rights)
  PROVE  RequestsOK'
  <1> DEFINE begins == [Asking(u, op) EXCEPT !.pc = "begin"]
  <1>1. begins \in RequestSet /\ Held(begins)
    BY AskingTypes DEF RequestSet, Held, Steps, MemberSteps, KeySteps
  <1>2. \E q \in {begins, Idle} : request' = [request EXCEPT ![r] = q]
    BY DEF Decide
  <1>3. QED BY <1>1, <1>2, IdleTypes, RequestTypes

\* A request that stays with its caller and goes to another step.
LEMMA GotoTypes ==
  ASSUME TypeOK, NEW r \in Requests, NEW q \in RequestSet, q.by = request[r].by,
         request' = [request EXCEPT ![r] = q],
         \/ q.pc \in Steps \ (MemberSteps \cup KeySteps)
         \/ q.pc \in MemberSteps /\ request[r].pc \in MemberSteps
         \/ q.pc \in KeySteps /\ request[r].pc \in KeySteps
  PROVE  RequestsOK'
  <1>1. Held(q)
    BY DEF Held, TypeOK, RequestsOK, Steps, MemberSteps, KeySteps
  <1>2. QED BY <1>1, RequestTypes

LEMMA MemberTypes ==
  ASSUME TypeOK, NEW r \in Requests,
         \/ \E u \in Members, op \in Operations : Ask(r, u, op)
         \/ ReadAssignments(r) \/ StoreRights(r)
  PROVE  TypeOK'
  <1> USE AccessAssumption
  <1>0. request[r] \in RequestSet BY DEF TypeOK, RequestsOK
  <1>1. ASSUME NEW u \in Members, NEW op \in Operations, Ask(r, u, op) PROVE TypeOK'
    <2>1. RequestsOK'
      <3>1. CASE CacheHit(r, u, op) BY <3>1, DecideTypes DEF CacheHit
      <3>2. CASE CacheMiss(r, u, op) BY <3>2, AskingTypes, RequestTypes DEF CacheMiss
      <3>3. QED BY <1>1, <3>1, <3>2 DEF Ask
    <2>2. UNCHANGED cache BY <1>1 DEF Ask, CacheHit, CacheMiss
    <2>3. QED BY <1>1, <2>1, <2>2 DEF Ask, Tables, History, TypeOK
  <1>2. CASE ReadAssignments(r)
    <2> DEFINE u == request[r].by
               rights == IF u \in assigned THEN RightsOf[u] ELSE {}
               q == [request[r] EXCEPT !.pc = "store", !.rights = rights]
    <2>1. u \in Members
      BY <1>2 DEF ReadAssignments, At, TypeOK, RequestsOK, Held, MemberSteps
    <2>2. rights \in SUBSET Rights BY <2>1
    <2>3. request' = [request EXCEPT ![r] = q]
      BY <1>2 DEF ReadAssignments
    <2> HIDE DEF rights
    <2>4. q \in RequestSet /\ q.by = request[r].by /\ q.pc = "store"
      BY <1>0, <2>2 DEF RequestSet, Steps, MemberSteps
    <2>5. RequestsOK'
      BY <1>2, <2>3, <2>4, GotoTypes DEF ReadAssignments, At, MemberSteps
    <2>6. QED BY <1>2, <2>5 DEF ReadAssignments, Tables, Redis, History, TypeOK
  <1>3. CASE StoreRights(r)
    <2>1. /\ request[r].by \in Members /\ request[r].rights \in SUBSET Rights
          /\ request[r].op \in Operations \cup {"none", "call"}
      BY <1>3 DEF StoreRights, At, TypeOK, RequestsOK, RequestSet, Held, MemberSteps
    <2>2. RequestsOK' BY <1>3, <2>1, DecideTypes DEF StoreRights
    <2>3. QED BY <1>3, <2>1, <2>2 DEF StoreRights, Tables, History, TypeOK
  <1>4. QED BY <1>1, <1>2, <1>3

LEMMA KeyTypes ==
  ASSUME TypeOK, NEW r \in Requests,
         \/ \E k \in Keys : CallPublicApi(r, k)
         \/ TakeMinute(r) \/ Count(r) \/ ExpireCounter(r) \/ WithinLimit(r)
         \/ RefuseCall(r)
  PROVE  TypeOK'
  <1> USE AccessAssumption
  <1> DEFINE k == request[r].by
             m == Minute(r)
  <1>0. request[r] \in RequestSet /\ request = [p \in Requests |-> request[p]]
    BY DEF TypeOK, RequestsOK
  <1>1. ASSUME NEW j \in Keys, CallPublicApi(r, j) PROVE TypeOK'
    <2> DEFINE q == [Idle EXCEPT !.pc = "minute", !.op = "call", !.by = j]
    <2>1. q \in RequestSet /\ Held(q)
      BY IdleTypes DEF RequestSet, Held, Steps, MemberSteps, KeySteps
    <2>2. RequestsOK' BY <1>1, <2>1, RequestTypes DEF CallPublicApi
    <2>3. QED BY <1>1, <2>2 DEF CallPublicApi, Tables, Redis, History, TypeOK
  <1>2. CASE TakeMinute(r)
    <2> DEFINE q == [request[r] EXCEPT !.pc = "count", !.asked = now]
    <2>1. q \in RequestSet /\ q.by = request[r].by /\ q.pc = "count"
      BY <1>0 DEF TypeOK, RequestSet, Steps, KeySteps
    <2>2. request' = [request EXCEPT ![r] = q] BY <1>2 DEF TakeMinute
    <2>3. RequestsOK' BY <1>2, <2>1, <2>2, GotoTypes DEF TakeMinute, At, KeySteps
    <2>4. QED BY <1>2, <2>3 DEF TakeMinute, Tables, Redis, History, TypeOK
  <1>3. CASE Count(r)
    <2> DEFINE old == counter[k][m]
               new == IF old.count > 0 /\ Alive(old)
                      THEN [old EXCEPT !.count = IF @ > Limit THEN @ ELSE @ + 1]
                      ELSE [count |-> 1, until |-> Forever]
               q == [request[r] EXCEPT !.pc = IF new.count = 1 THEN "expire" ELSE "limit",
                                       !.count = new.count]
    <2>1. k \in Keys
      BY <1>3 DEF Count, At, TypeOK, RequestsOK, Held, KeySteps
    <2>2. /\ old \in [count : Nat, until : Nat \cup {Forever}]
          /\ counter[k] \in [Minutes -> [count : Nat, until : Nat \cup {Forever}]]
      BY <2>1, MinuteTypes DEF TypeOK
    <2> HIDE DEF old
    <2>3. new \in [count : Nat, until : Nat \cup {Forever}]
      BY <2>2, AccessAssumption
    <2>4. counter' = [counter EXCEPT ![k][m] = new]
      BY <1>3 DEF Count, old
    <2>5. request' = [request EXCEPT
             ![r].pc = IF new.count = 1 THEN "expire" ELSE "limit", ![r].count = new.count]
      BY <1>3 DEF Count, old
    <2> HIDE DEF new
    <2>6. request' = [request EXCEPT ![r] = q] BY <2>5
    <2>7. q \in RequestSet /\ q.by = k /\ q.pc \in KeySteps
      BY <1>0, <2>3 DEF RequestSet, Steps, KeySteps
    <2>8. request[r].pc \in KeySteps BY <1>3 DEF Count, At, KeySteps
    <2> HIDE DEF q
    <2>9. RequestsOK' BY <2>6, <2>7, <2>8, GotoTypes
    <2>10. counter' \in [Keys -> [Minutes -> [count : Nat, until : Nat \cup {Forever}]]]
      BY <2>3, <2>4 DEF TypeOK
    <2>11. late' \subseteq Keys \X Int
      <3>1. late \subseteq Keys \X Int
        BY DEF TypeOK
      <3>2. <<k, m>> \in Keys \X Int
        BY <2>1, MinuteTypes DEF Minutes
      <3>3. late' \in {late, late \cup {<<k, m>>}}
        BY <1>3 DEF Count
      <3>4. QED BY <3>1, <3>2, <3>3
    <2>12. UNCHANGED <<Tables, cache, now, trusted, passed, inFlight>>
      BY <1>3 DEF Count
    <2>13. QED BY <2>9, <2>10, <2>11, <2>12 DEF Tables, TypeOK
  <1>4. CASE ExpireCounter(r)
    <2>1. k \in Keys
      BY <1>4 DEF ExpireCounter, At, TypeOK, RequestsOK, Held, KeySteps
    <2> DEFINE until == now + CounterTtl
    <2>2. until \in Nat BY AccessAssumption DEF TypeOK
    <2>3. counter' = [counter EXCEPT ![k][m].until = until]
      BY <1>4 DEF ExpireCounter
    <2> HIDE DEF until
    <2>4. counter' \in [Keys -> [Minutes -> [count : Nat, until : Nat \cup {Forever}]]]
      <3> DEFINE entry == [counter[k][m] EXCEPT !.until = until]
      <3>1. counter[k][m] \in [count : Nat, until : Nat \cup {Forever}]
        BY <2>1, MinuteTypes DEF TypeOK
      <3>2. entry \in [count : Nat, until : Nat \cup {Forever}] BY <2>2, <3>1
      <3>3. counter' = [counter EXCEPT ![k][m] = entry] BY <2>3
      <3> HIDE DEF entry
      <3>4. QED BY <2>1, <3>2, <3>3, MinuteTypes DEF TypeOK
    <2> DEFINE q == [request[r] EXCEPT !.pc = "limit"]
    <2>5. q \in RequestSet /\ q.by = k /\ q.pc = "limit"
      BY <1>0 DEF RequestSet, Steps, KeySteps
    <2>6. RequestsOK'
      BY <1>4, <2>5, GotoTypes DEF ExpireCounter, Goto, At, KeySteps
    <2>7. QED BY <1>4, <2>4, <2>6 DEF ExpireCounter, Tables, History, TypeOK
  <1>5. CASE WithinLimit(r)
    <2>1. k \in Keys
      BY <1>5 DEF WithinLimit, At, TypeOK, RequestsOK, Held, KeySteps
    <2> DEFINE q == [Idle EXCEPT !.pc = "begin", !.op = "call", !.by = k]
    <2>2. q \in RequestSet /\ Held(q)
      BY <2>1, IdleTypes DEF RequestSet, Held, Steps, MemberSteps, KeySteps
    <2>3. RequestsOK' BY <1>5, <2>2, RequestTypes DEF WithinLimit
    <2>4. passed' \in [Keys -> [Minutes -> Nat]]
      BY <1>5, <2>1, MinuteTypes DEF WithinLimit, TypeOK
    <2>5. QED BY <1>5, <2>3, <2>4 DEF WithinLimit, Tables, Redis, TypeOK
  <1>6. CASE RefuseCall(r)
    BY <1>6, IdleTypes, RequestTypes
    DEF RefuseCall, Finish, Tables, Redis, History, TypeOK
  <1>7. QED BY <1>1, <1>2, <1>3, <1>4, <1>5, <1>6

LEMMA HandlerTypes ==
  ASSUME TypeOK, NEW r \in Requests,
         \/ Begin(r) \/ AnswerCall(r) \/ RemoveMember(r) \/ RevokeKey(r)
         \/ ReadOrganisation(r) \/ SaveSelect(r) \/ SaveUpdate(r)
  PROVE  TypeOK'
  <1>0. request[r] \in RequestSet BY DEF TypeOK, RequestsOK
  <1>1. ASSUME NEW pc \in {"handle", "select", "write"}, NEW saw \in Statuses,
               NEW changed \in BOOLEAN,
               request' = [request EXCEPT ![r] =
                 [@ EXCEPT !.pc = pc, !.saw = saw, !.changed = changed]]
        PROVE  RequestsOK'
    <2> DEFINE q == [request[r] EXCEPT !.pc = pc, !.saw = saw, !.changed = changed]
    <2>1. /\ q \in RequestSet /\ q.by = request[r].by
          /\ q.pc \in Steps \ (MemberSteps \cup KeySteps)
      BY <1>0 DEF RequestSet, Steps, MemberSteps, KeySteps
    <2>2. request' = [request EXCEPT ![r] = q] BY <1>1
    <2>3. QED BY <2>1, <2>2, GotoTypes
  <1>2. Finish(r) => RequestsOK' BY IdleTypes, RequestTypes DEF Finish
  <1>3. CASE Begin(r)
    <2>1. CASE Finish(r)
      BY <1>2, <1>3, <2>1 DEF Begin, Tables, Redis, TypeOK
    <2>2. CASE Goto(r, "handle")
      <3>1. request[r].saw \in Statuses /\ request[r].changed \in BOOLEAN
        BY <1>0 DEF RequestSet
      <3>2. request' = [request EXCEPT ![r] = [@ EXCEPT !.pc = "handle",
                          !.saw = request[r].saw, !.changed = request[r].changed]]
        BY <1>0, <2>2 DEF Goto, RequestSet
      <3>3. RequestsOK' BY <1>1, <3>1, <3>2
      <3>4. QED BY <1>3, <3>3 DEF Begin, Tables, Redis, TypeOK
    <2>3. QED BY <1>3, <2>1, <2>2 DEF Begin
  <1>4. CASE AnswerCall(r)
    BY <1>2, <1>4 DEF AnswerCall, Tables, Redis, History, TypeOK
  <1>5. CASE RemoveMember(r)
    BY <1>2, <1>5 DEF RemoveMember, Redis, History, TypeOK
  <1>6. CASE RevokeKey(r)
    BY <1>2, <1>6 DEF RevokeKey, Redis, History, TypeOK
  <1>7. CASE ReadOrganisation(r)
    <2>1. \E saw \in Statuses :
            request' = [request EXCEPT ![r].pc = "select", ![r].saw = saw]
      BY <1>7 DEF ReadOrganisation, TypeOK, Statuses
    <2>2. PICK saw \in Statuses :
            request' = [request EXCEPT ![r].pc = "select", ![r].saw = saw]
      BY <2>1
    <2>3. request[r].changed \in BOOLEAN BY <1>0 DEF RequestSet
    <2>4. request' = [request EXCEPT ![r] = [@ EXCEPT !.pc = "select", !.saw = saw,
                                               !.changed = request[r].changed]]
      BY <1>0, <2>2 DEF RequestSet
    <2>5. RequestsOK' BY <1>1, <2>3, <2>4
    <2>6. QED BY <1>7, <2>5 DEF ReadOrganisation, Tables, Redis, History, TypeOK
  <1>8. CASE SaveSelect(r)
    <2> DEFINE changed == request[r].saw # organisation
    <2>1. request[r].saw \in Statuses BY <1>0 DEF RequestSet
    <2>2. request' = [request EXCEPT ![r].pc = "write", ![r].changed = changed]
      BY <1>8 DEF SaveSelect
    <2>3. changed \in BOOLEAN OBVIOUS
    <2> HIDE DEF changed
    <2>4. request' = [request EXCEPT ![r] = [@ EXCEPT !.pc = "write",
                                               !.saw = request[r].saw, !.changed = changed]]
      BY <1>0, <2>2 DEF RequestSet
    <2>5. RequestsOK' BY <1>1, <2>1, <2>3, <2>4
    <2>6. QED BY <1>8, <2>5 DEF SaveSelect, Tables, Redis, History, TypeOK
  <1>9. CASE SaveUpdate(r)
    <2>1. request[r].saw \in Statuses BY <1>0 DEF RequestSet
    <2>2. inFlight' \subseteq Requests BY <1>9 DEF SaveUpdate, TypeOK, InTransaction
    <2>3. QED BY <1>2, <1>9, <2>1, <2>2 DEF SaveUpdate, Redis, TypeOK
  <1>10. QED BY <1>3, <1>4, <1>5, <1>6, <1>7, <1>8, <1>9

\* What a request does by itself.
Work(r) ==
  \/ \E u \in Members, op \in Operations : Ask(r, u, op)
  \/ \E k \in Keys : CallPublicApi(r, k)
  \/ ReadAssignments(r) \/ StoreRights(r)
  \/ TakeMinute(r) \/ Count(r) \/ ExpireCounter(r) \/ WithinLimit(r) \/ RefuseCall(r)
  \/ Begin(r) \/ AnswerCall(r) \/ RemoveMember(r) \/ RevokeKey(r)
  \/ ReadOrganisation(r) \/ SaveSelect(r) \/ SaveUpdate(r)

LEMMA NextSteps == Next => (\E r \in Requests : Work(r)) \/ Tick \/ Crash
  BY DEF Next, Work

LEMMA StepTypes == TypeOK /\ [Next]_vars => TypeOK'
  <1> SUFFICES ASSUME TypeOK, [Next]_vars PROVE TypeOK'
    OBVIOUS
  <1>1. ASSUME NEW r \in Requests, Work(r) PROVE TypeOK'
    BY <1>1, MemberTypes, KeyTypes, HandlerTypes DEF Work
  <1>2. CASE Tick
    <2>1. now' \in 0 .. MaxTime /\ trusted' \in [Members -> Nat]
      BY <1>2, AccessAssumption DEF Tick, TypeOK
    <2>2. QED BY <1>2, <2>1 DEF Tick, Tables, Redis, TypeOK, RequestsOK
  <1>3. CASE Crash
    <2>1. RequestsOK' BY <1>3, IdleTypes DEF Crash, RequestsOK
    <2>2. QED BY <1>3, <2>1 DEF Crash, Tables, Redis, History, TypeOK
  <1>4. CASE UNCHANGED vars BY <1>4 DEF vars, TypeOK, RequestsOK
  <1>5. QED BY <1>1, <1>2, <1>3, <1>4, NextSteps

\* Every variable keeps to its type.
THEOREM AccessTyping == Spec => []TypeOK
  <1>1. Init => TypeOK
    <2> SUFFICES ASSUME Init PROVE TypeOK
      OBVIOUS
    <2>1. RequestsOK BY IdleTypes DEF Init, RequestsOK
    <2>2. MaxTime \in Nat /\ NotCached \in [rights : SUBSET Rights, until : Nat]
          /\ NotCounted \in [count : Nat, until : Nat \cup {Forever}]
      BY AccessAssumption DEF NotCached, NotCounted
    <2>3. QED BY <2>1, <2>2 DEF Init, TypeOK, Statuses
  <1>2. QED BY <1>1, StepTypes, PTL DEF Spec

-----------------------------------------------------------------------------
(* Rights end in time.                                                      *)

\* Why: whoever still has the role was trusted just now, whoever holds rights
\* that are not yet cached likewise, and a cached entry is no older than that.
RightsTrusted ==
  /\ \A u \in Members : cache[u].rights # {} => cache[u].until <= trusted[u] + CacheTtl
  /\ \A u \in assigned : trusted[u] = now
  /\ \A r \in Requests, u \in Members : HasRightsOf(r, u) => trusted[u] = now

\* What a request does to the requests leaves the others as they are.
LEMMA OthersStay ==
  ASSUME TypeOK, NEW r \in Requests, Work(r), NEW p \in Requests, p # r
  PROVE  request'[p] = request[p]
  BY DEF TypeOK, RequestsOK, Work, Ask, CacheHit, CacheMiss, Decide, CallPublicApi,
         ReadAssignments, StoreRights, TakeMinute, Count, ExpireCounter, WithinLimit,
         RefuseCall, Begin, AnswerCall, RemoveMember, RevokeKey, ReadOrganisation,
         SaveSelect, SaveUpdate, Finish, Goto

\* Where each step leads a request.
LEMMA NextPc ==
  ASSUME TypeOK, NEW r \in Requests
  PROVE  /\ \A u \in Members, op \in Operations :
              Ask(r, u, op) => request'[r].pc \in {"assignments", "begin", "idle"}
         /\ \A k \in Keys : CallPublicApi(r, k) => request'[r].pc = "minute"
         /\ ReadAssignments(r) => request'[r].pc = "store"
         /\ StoreRights(r) => request'[r].pc \in {"begin", "idle"}
         /\ TakeMinute(r) => request'[r].pc = "count"
         /\ Count(r) => request'[r].pc \in {"expire", "limit"}
         /\ ExpireCounter(r) => request'[r].pc = "limit"
         /\ WithinLimit(r) => request'[r].pc = "begin"
         /\ RefuseCall(r) \/ AnswerCall(r) \/ RemoveMember(r) \/ RevokeKey(r)
              \/ SaveUpdate(r) => request'[r].pc = "idle"
         /\ Begin(r) => request'[r].pc \in {"idle", "handle"}
         /\ ReadOrganisation(r) => request'[r].pc = "select"
         /\ SaveSelect(r) => request'[r].pc = "write"
  <1>0. request \in [Requests -> RequestSet] BY DEF TypeOK, RequestsOK
  <1> USE <1>0 DEF RequestSet, Idle
  <1>1. \A u \in Members, op \in Operations :
          Ask(r, u, op) => request'[r].pc \in {"assignments", "begin", "idle"}
    <2> SUFFICES ASSUME NEW u \in Members, NEW op \in Operations, Ask(r, u, op)
                 PROVE  request'[r].pc \in {"assignments", "begin", "idle"}
      OBVIOUS
    <2>1. CASE CacheMiss(r, u, op) BY <2>1 DEF CacheMiss, Asking
    <2>2. CASE CacheHit(r, u, op) BY <2>2 DEF CacheHit, Decide, Asking
    <2>3. QED BY <2>1, <2>2 DEF Ask
  <1>2. \A k \in Keys : CallPublicApi(r, k) => request'[r].pc = "minute"
    BY DEF CallPublicApi
  <1>3. ASSUME ReadAssignments(r) PROVE request'[r].pc = "store"
    <2>1. \E rights : request' = [request EXCEPT ![r].pc = "store", ![r].rights = rights]
      BY <1>3 DEF ReadAssignments
    <2>2. QED BY <2>1
  <1>4. StoreRights(r) => request'[r].pc \in {"begin", "idle"}
    BY DEF StoreRights, Decide, Asking
  <1>5. TakeMinute(r) => request'[r].pc = "count"
    BY DEF TakeMinute
  <1>6. ASSUME Count(r) PROVE request'[r].pc \in {"expire", "limit"}
    <2>1. \E pc \in {"expire", "limit"} : \E n :
            request' = [request EXCEPT ![r].pc = pc, ![r].count = n]
      BY <1>6 DEF Count
    <2>2. QED BY <2>1
  <1>7. ExpireCounter(r) => request'[r].pc = "limit"
    BY DEF ExpireCounter, Goto
  <1>8. WithinLimit(r) => request'[r].pc = "begin"
    BY DEF WithinLimit
  <1>9. RefuseCall(r) \/ AnswerCall(r) \/ RemoveMember(r) \/ RevokeKey(r)
          \/ SaveUpdate(r) => request'[r].pc = "idle"
    <2>1. Finish(r) => request'[r].pc = "idle" BY DEF Finish
    <2>2. QED BY <2>1 DEF RefuseCall, AnswerCall, RemoveMember, RevokeKey, SaveUpdate
  <1>10. Begin(r) => request'[r].pc \in {"idle", "handle"}
    BY DEF Begin, Goto, Finish
  <1>11. ReadOrganisation(r) => request'[r].pc = "select"
    BY DEF ReadOrganisation
  <1>12. SaveSelect(r) => request'[r].pc = "write"
    BY DEF SaveSelect
  <1>13. QED
    BY <1>1, <1>2, <1>3, <1>4, <1>5, <1>6, <1>7, <1>8, <1>9, <1>10, <1>11, <1>12

LEMMA TrustedInit == Init => RightsTrusted
  BY AccessAssumption DEF Init, RightsTrusted, NotCached, HasRightsOf, At, Idle

\* Steps that store no rights and read none.
LEMMA TrustedQuiet ==
  ASSUME TypeOK, RightsTrusted, NEW r \in Requests, Work(r),
         UNCHANGED <<cache, now, trusted>>, assigned' \subseteq assigned,
         request'[r].pc # "store"
  PROVE  RightsTrusted'
  BY OthersStay DEF RightsTrusted, HasRightsOf, At

LEMMA TrustedWork ==
  ASSUME TypeOK, RightsTrusted, NEW r \in Requests, Work(r)
  PROVE  RightsTrusted'
  <1>0. request \in [Requests -> RequestSet] BY DEF TypeOK, RequestsOK
  <1>1. CASE ReadAssignments(r)
    <2>1. ASSUME HasRightsOf(r, request[r].by)' PROVE trusted[request[r].by] = now
      BY <1>0, <1>1, <2>1 DEF ReadAssignments, HasRightsOf, At, RightsTrusted, RequestSet
    <2>2. request'[r].by = request[r].by
      BY <1>0, <1>1 DEF ReadAssignments, RequestSet
    <2>3. QED
      BY <1>1, <2>1, <2>2, OthersStay
      DEF ReadAssignments, Tables, Redis, History, RightsTrusted, HasRightsOf, At
  <1>2. CASE StoreRights(r)
    <2> DEFINE u == request[r].by
    <2>1. request'[r].pc # "store"
      BY <1>0, <1>2 DEF StoreRights, Decide, Asking, Idle, RequestSet
    <2>2. u \in Members
      BY <1>2 DEF StoreRights, At, TypeOK, RequestsOK, Held, MemberSteps
    <2>3. ASSUME cache'[u].rights # {} PROVE cache'[u].until <= trusted[u] + CacheTtl
      <3>1. cache'[u] = [rights |-> request[r].rights, until |-> now + CacheTtl]
        BY <1>2, <2>2 DEF StoreRights, TypeOK
      <3>2. trusted[u] = now
        BY <1>2, <2>2, <2>3, <3>1 DEF StoreRights, RightsTrusted, HasRightsOf
      <3>3. QED BY <3>1, <3>2, AccessAssumption DEF TypeOK
    <2>4. \A v \in Members \ {u} : cache'[v] = cache[v]
      BY <1>2 DEF StoreRights, TypeOK
    <2>5. UNCHANGED <<assigned, now, trusted>>
      BY <1>2 DEF StoreRights, Tables, History
    <2>6. \A v \in Members : cache'[v].rights # {} => cache'[v].until <= trusted'[v] + CacheTtl
      BY <2>3, <2>4, <2>5 DEF RightsTrusted
    <2>7. QED BY <2>1, <2>5, <2>6, OthersStay DEF RightsTrusted, HasRightsOf, At
  <1>3. CASE ~ReadAssignments(r) /\ ~StoreRights(r)
    <2>1. UNCHANGED <<cache, now, trusted>> /\ assigned' \subseteq assigned
      BY <1>3 DEF Work, Ask, CacheHit, CacheMiss, CallPublicApi, TakeMinute, Count,
         ExpireCounter, WithinLimit, RefuseCall, Begin, AnswerCall, RemoveMember,
         RevokeKey, ReadOrganisation, SaveSelect, SaveUpdate, Tables, Redis, History
    <2>2. request'[r].pc # "store"
      BY <1>3, NextPc DEF Work
    <2>3. QED BY <2>1, <2>2, TrustedQuiet
  <1>4. QED BY <1>1, <1>2, <1>3

LEMMA TrustedStep == TypeOK /\ RightsTrusted /\ [Next]_vars => RightsTrusted'
  <1> SUFFICES ASSUME TypeOK, RightsTrusted, [Next]_vars PROVE RightsTrusted'
    OBVIOUS
  <1>1. CASE Tick
    <2>1. \A u \in Members :
            trusted'[u] = IF u \in assigned \/ \E r \in Requests : HasRightsOf(r, u)
                          THEN now + 1 ELSE trusted[u]
      BY <1>1 DEF Tick
    <2>2. UNCHANGED <<cache, assigned, request>> /\ now' = now + 1
      BY <1>1 DEF Tick, Tables, Redis
    <2>3. \A u \in Members : trusted[u] <= trusted'[u]
      BY <2>1 DEF RightsTrusted, TypeOK
    <2>4. \A u \in Members : cache'[u].rights # {} => cache'[u].until <= trusted'[u] + CacheTtl
      <3> SUFFICES ASSUME NEW u \in Members, cache[u].rights # {}
                   PROVE  cache[u].until <= trusted'[u] + CacheTtl
        BY <2>2
      <3>1. cache[u].until \in Nat /\ trusted[u] \in Nat /\ trusted'[u] \in Nat
            /\ CacheTtl \in Nat
        BY <2>1, AccessAssumption DEF TypeOK
      <3>2. cache[u].until <= trusted[u] + CacheTtl BY DEF RightsTrusted
      <3>3. QED BY <2>3, <3>1, <3>2
    <2>5. \A u \in assigned' : trusted'[u] = now' BY <2>1, <2>2 DEF TypeOK
    <2>6. \A r \in Requests, u \in Members : HasRightsOf(r, u)' => trusted'[u] = now'
      BY <2>1, <2>2 DEF HasRightsOf, At
    <2>7. QED BY <2>4, <2>5, <2>6 DEF RightsTrusted
  <1>2. CASE Crash
    BY <1>2 DEF Crash, Tables, Redis, History, RightsTrusted, HasRightsOf, At, Idle
  <1>3. CASE UNCHANGED vars
    BY <1>3 DEF vars, RightsTrusted, HasRightsOf, At
  <1>4. QED BY <1>1, <1>2, <1>3, TrustedWork, NextSteps

LEMMA RightsExpireWork ==
  ASSUME TypeOK, RightsTrusted, NEW r \in Requests, Work(r), NEW p \in Requests,
         NEW u \in Members, u = request'[p].by,
         request[p].pc # "begin", request'[p].pc = "begin"
  PROVE  now < trusted[u] + CacheTtl
  <1>0. request \in [Requests -> RequestSet] BY DEF TypeOK, RequestsOK
  <1>1. p = r BY OthersStay
  <1>2. ASSUME NEW v \in Members, NEW op \in Operations, Ask(r, v, op)
        PROVE  now < trusted[u] + CacheTtl
    <2>1. CacheHit(r, v, op)
      BY <1>0, <1>1, <1>2 DEF Ask, CacheMiss, Asking, Idle
    <2>2. u = v /\ Required(op) \in cache[v].rights
      BY <1>0, <1>1, <2>1 DEF CacheHit, Decide, Asking, Idle
    <2>3. cache[u].until \in Nat /\ trusted[u] \in Nat /\ CacheTtl \in Nat /\ now \in Nat
      BY AccessAssumption DEF TypeOK
    <2>4. now < cache[u].until
      BY <2>1, <2>2, <2>3 DEF CacheHit, Alive, Forever
    <2>5. cache[u].until <= trusted[u] + CacheTtl
      BY <2>2 DEF RightsTrusted
    <2>6. QED BY <2>3, <2>4, <2>5
  <1>3. CASE StoreRights(r)
    <2>1. u = request[r].by /\ request[r].rights # {}
      BY <1>0, <1>1, <1>3 DEF StoreRights, Decide, Asking, Idle
    <2>2. trusted[u] = now
      BY <1>3, <2>1 DEF StoreRights, RightsTrusted, HasRightsOf
    <2>3. QED BY <2>2, AccessAssumption DEF TypeOK
  <1>4. CASE WithinLimit(r)
    <2>1. u \in Keys
      BY <1>0, <1>1, <1>4 DEF WithinLimit, At, TypeOK, RequestsOK, Held, KeySteps, Idle
    <2>2. QED BY <2>1, AccessAssumption
  <1>5. CASE ~StoreRights(r) /\ ~WithinLimit(r)
             /\ ~(\E v \in Members, op \in Operations : Ask(r, v, op))
    BY <1>1, <1>5, NextPc DEF Work
  <1>6. QED BY <1>2, <1>3, <1>4, <1>5

\* Who is no longer a member passes the permission check only while an entry
\* lives that was stored while the rights, or a request that had just read them,
\* were there.
THEOREM AccessRightsExpire == Spec => RightsExpire
  <1> DEFINE Expire == \A r \in Requests :
               LET u == request'[r].by IN
               request[r].pc # "begin" /\ request'[r].pc = "begin" /\ u \in Members \ assigned
                 => now < trusted[u] + CacheTtl
  <1>1. TypeOK /\ RightsTrusted /\ [Next]_vars => [Expire]_vars
    <2> SUFFICES ASSUME TypeOK, RightsTrusted, Next, NEW r \in Requests,
                        request[r].pc # "begin", request'[r].pc = "begin",
                        request'[r].by \in Members
                 PROVE  now < trusted[request'[r].by] + CacheTtl
      OBVIOUS
    <2>1. CASE \E p \in Requests : Work(p) BY <2>1, RightsExpireWork
    <2>2. CASE Tick BY <2>2 DEF Tick
    <2>3. CASE Crash BY <2>3 DEF Crash, Idle
    <2>4. QED BY <2>1, <2>2, <2>3, NextSteps
  <1>2. QED
    BY <1>1, AccessTyping, TrustedInit, TrustedStep, PTL DEF Spec, RightsExpire

-----------------------------------------------------------------------------
(* An organisation that is not active writes only what had begun.           *)

\* What may be in its transaction while the organisation is not active.
BegunOnly ==
  organisation # "ACTIVE" =>
    \A r \in Requests :
      /\ At(r, "handle") => \/ AllowSuspended(request[r].op)
                            \/ request[r].op = "call" \/ r \in inFlight
      /\ At(r, "select") \/ At(r, "write") => \/ AllowSuspended(request[r].op)
                                              \/ r \in inFlight

LEMMA BegunWork ==
  ASSUME TypeOK, BegunOnly, NEW r \in Requests, Work(r)
  PROVE  BegunOnly'
  <1>0. request \in [Requests -> RequestSet] BY DEF TypeOK, RequestsOK
  <1>1. CASE Begin(r)
    <2>1. UNCHANGED organisation /\ inFlight' = inFlight \ {r}
      BY <1>1 DEF Begin, Tables
    <2>2. CASE Refused(request[r].op)
      <3>1. request'[r].pc = "idle" BY <1>0, <1>1, <2>2 DEF Begin, Finish, Idle
      <3>2. QED BY <2>1, <3>1, OthersStay DEF BegunOnly, At
    <2>3. CASE ~Refused(request[r].op)
      <3>1. request'[r].pc = "handle" /\ request'[r].op = request[r].op
        BY <1>0, <1>1, <2>3 DEF Begin, Goto, RequestSet
      <3>2. \/ organisation = "ACTIVE" \/ AllowSuspended(request[r].op)
            \/ request[r].op = "call"
        BY <2>3 DEF Refused, TypeOK, Statuses
      <3>3. QED BY <2>1, <3>1, <3>2, OthersStay DEF BegunOnly, At
    <2>4. QED BY <2>2, <2>3
  <1>2. CASE ReadOrganisation(r)
    <2>1. request'[r].pc = "select" /\ request'[r].op = request[r].op
          /\ request[r].op # "call" /\ At(r, "handle")
      BY <1>0, <1>2 DEF ReadOrganisation, RequestSet
    <2>2. UNCHANGED <<organisation, inFlight>>
      BY <1>2 DEF ReadOrganisation, Tables, History
    <2>3. QED BY <2>1, <2>2, OthersStay DEF BegunOnly, At
  <1>3. CASE SaveSelect(r)
    <2>1. request'[r].pc = "write" /\ request'[r].op = request[r].op /\ At(r, "select")
      BY <1>0, <1>3 DEF SaveSelect, RequestSet
    <2>2. UNCHANGED <<organisation, inFlight>>
      BY <1>3 DEF SaveSelect, Tables, History
    <2>3. QED BY <2>1, <2>2, OthersStay DEF BegunOnly, At
  <1>4. CASE SaveUpdate(r)
    <2>1. request'[r].pc = "idle" BY <1>0, <1>4 DEF SaveUpdate, Finish, Idle
    <2>2. CASE organisation = "ACTIVE"
      <3>1. inFlight' = InTransaction \ {r} BY <1>4, <2>2 DEF SaveUpdate
      <3>2. QED BY <2>1, <3>1, OthersStay DEF BegunOnly, At, InTransaction
    <2>3. CASE organisation # "ACTIVE"
      <3>1. UNCHANGED inFlight BY <1>4, <2>3 DEF SaveUpdate
      <3>2. QED BY <2>1, <2>3, <3>1, OthersStay DEF BegunOnly, At
    <2>4. QED BY <2>2, <2>3
  <1>5. CASE ~Begin(r) /\ ~ReadOrganisation(r) /\ ~SaveSelect(r) /\ ~SaveUpdate(r)
    <2>1. UNCHANGED <<organisation, inFlight>>
      BY <1>5 DEF Work, Ask, CallPublicApi, ReadAssignments, StoreRights, TakeMinute,
         Count, ExpireCounter, WithinLimit, RefuseCall, AnswerCall, RemoveMember,
         RevokeKey, Tables, History
    <2>2. request'[r].pc \notin {"handle", "select", "write"}
      BY <1>5, NextPc DEF Work
    <2>3. QED BY <2>1, <2>2, OthersStay DEF BegunOnly, At
  <1>6. QED BY <1>1, <1>2, <1>3, <1>4, <1>5

LEMMA BegunStep == TypeOK /\ BegunOnly /\ [Next]_vars => BegunOnly'
  <1> SUFFICES ASSUME TypeOK, BegunOnly, [Next]_vars PROVE BegunOnly'
    OBVIOUS
  <1>1. CASE Tick BY <1>1 DEF Tick, Tables, BegunOnly, At
  <1>2. CASE Crash BY <1>2 DEF Crash, BegunOnly, At, Idle
  <1>3. CASE UNCHANGED vars BY <1>3 DEF vars, BegunOnly, At
  <1>4. QED BY <1>1, <1>2, <1>3, BegunWork, NextSteps

\* What an organisation that is not active writes, except to be reactivated or
\* closed, had begun when it last was active.
THEOREM AccessOnlyBegunWrites == Spec => OnlyBegunWrites
  <1> DEFINE Begun == Tables' # Tables /\ organisation # "ACTIVE"
               => \E r \in Requests :
                    /\ At(r, "handle") \/ At(r, "write")
                    /\ request'[r] = Idle
                    /\ AllowSuspended(request[r].op) \/ r \in inFlight
  <1>1. TypeOK /\ BegunOnly /\ [Next]_vars => [Begun]_vars
    <2> SUFFICES ASSUME TypeOK, BegunOnly, Next, Tables' # Tables, organisation # "ACTIVE"
                 PROVE  \E r \in Requests :
                          /\ At(r, "handle") \/ At(r, "write")
                          /\ request'[r] = Idle
                          /\ AllowSuspended(request[r].op) \/ r \in inFlight
      OBVIOUS
    <2>0. request \in [Requests -> RequestSet] BY DEF TypeOK, RequestsOK
    <2>1. ~Tick /\ ~Crash BY DEF Tick, Crash
    <2>2. PICK r \in Requests : Work(r) BY <2>1, NextSteps
    <2>3. RemoveMember(r) \/ RevokeKey(r) \/ SaveUpdate(r)
      BY <2>2 DEF Work, Ask, CallPublicApi, ReadAssignments, StoreRights, TakeMinute,
         Count, ExpireCounter, WithinLimit, RefuseCall, Begin, AnswerCall,
         ReadOrganisation, SaveSelect
    <2>4. request'[r] = Idle
      BY <2>0, <2>3 DEF RemoveMember, RevokeKey, SaveUpdate, Finish
    <2>5. CASE SaveUpdate(r)
      BY <2>4, <2>5 DEF SaveUpdate, BegunOnly
    <2>6. CASE RemoveMember(r) \/ RevokeKey(r)
      BY <2>4, <2>6 DEF RemoveMember, RevokeKey, BegunOnly
    <2>7. QED BY <2>3, <2>5, <2>6
  <1>2. Init => BegunOnly BY DEF Init, BegunOnly
  <1>3. QED
    BY <1>1, <1>2, AccessTyping, BegunStep, PTL DEF Spec, OnlyBegunWrites

-----------------------------------------------------------------------------
(* Calls stay within the limit.                                             *)

\* The calls of a key that have been counted in a minute within the limit, and
\* are still on their way.
Ahead(k, m) == {r \in Requests : /\ request[r].pc \in {"expire", "limit"}
                                 /\ request[r].by = k /\ Minute(r) = m
                                 /\ request[r].count <= Limit}

\* Why: a counter that was ever started lives until no call of its minute can
\* come in time any more, so it has counted everything that went through.
MinutesPast == \A r \in Requests : request[r].asked <= now

CountersLive == \A k \in Keys, m \in Minutes :
  counter[k][m].count > 0 =>
    \/ counter[k][m].until = Forever
    \/ counter[k][m].until >= m * Window + CounterTtl

AheadFinite == \A k \in Keys, m \in Minutes : IsFiniteSet(Ahead(k, m))

CountedOnce == \A k \in Keys, m \in Minutes :
  <<k, m>> \notin late =>
    /\ passed[k][m] + Cardinality(Ahead(k, m)) <= counter[k][m].count
    /\ passed[k][m] + Cardinality(Ahead(k, m)) <= Limit

RateInv == MinutesPast /\ CountersLive /\ AheadFinite /\ CountedOnce

\* The minute that a number of ticks is in.
LEMMA MinuteBounds ==
  ASSUME NEW a \in Nat, NEW p, p = a \div Window
  PROVE  p \in Nat /\ p * Window <= a /\ a < p * Window + Window
  BY AccessAssumption

\* A call that is counted in time finds the counter of its minute alive.
LEMMA CountedAlive ==
  ASSUME TypeOK, CountersLive, NEW r \in Requests, request[r].by \in Keys,
         now - request[r].asked <= CounterTtl - Window,
         counter[request[r].by][Minute(r)].count > 0
  PROVE  Alive(counter[request[r].by][Minute(r)])
  <1> DEFINE k == request[r].by
             m == Minute(r)
             until == counter[k][m].until
             a == request[r].asked
  <1>1. a \in Nat /\ m \in Minutes /\ now \in Nat
    BY MinuteTypes DEF TypeOK, RequestsOK, RequestSet
  <1>2. until \in Nat \cup {Forever}
    BY <1>1 DEF TypeOK
  <1>3. m \in Nat /\ m * Window <= a /\ a < m * Window + Window
    BY <1>1, MinuteBounds DEF Minute
  <1>4. until = Forever \/ until >= m * Window + CounterTtl
    BY <1>1 DEF CountersLive
  <1> DEFINE mw == m * Window
  <1>5. mw \in Nat /\ Window \in Nat /\ CounterTtl \in Nat
    BY <1>3, AccessAssumption
  <1>6. now - a <= CounterTtl - Window OBVIOUS
  <1>7. a < mw + Window /\ (until = Forever \/ until >= mw + CounterTtl) BY <1>3, <1>4
  <1>8. until = Forever \/ now < until
    <2> HIDE DEF mw, a, until, m, k
    <2>1. QED BY <1>1, <1>2, <1>5, <1>6, <1>7
  <1>9. QED BY <1>8 DEF Alive

\* Only Count adds a call to those that are ahead.
LEMMA AheadShrinks ==
  ASSUME TypeOK, NEW r \in Requests, Work(r), ~Count(r), NEW k, NEW m
  PROVE  Ahead(k, m)' \subseteq Ahead(k, m)
  <1> SUFFICES ASSUME NEW p \in Requests, p \in Ahead(k, m)'
               PROVE  p \in Ahead(k, m)
    BY DEF Ahead
  <1>1. request \in [Requests -> RequestSet] BY DEF TypeOK, RequestsOK
  <1>2. CASE p # r
    <2>1. request'[p] = request[p] BY <1>2, OthersStay
    <2>2. QED BY <2>1 DEF Ahead, Minute
  <1>3. CASE p = r
    <2>1. request'[r].pc \in {"expire", "limit"} BY <1>3 DEF Ahead
    <2>2. ExpireCounter(r) BY <2>1, NextPc DEF Work
    <2>3. request'[r] = [request[r] EXCEPT !.pc = "limit"] /\ request[r].pc = "expire"
      BY <1>1, <2>2 DEF ExpireCounter, Goto, At
    <2>4. QED BY <1>1, <1>3, <2>3 DEF Ahead, Minute, RequestSet
  <1>4. QED BY <1>2, <1>3

\* No minute is taken ahead of the clock.
LEMMA MinutesPastStep == TypeOK /\ MinutesPast /\ [Next]_vars => MinutesPast'
  <1> SUFFICES ASSUME TypeOK, MinutesPast, [Next]_vars PROVE MinutesPast'
    OBVIOUS
  <1>0. /\ request \in [Requests -> RequestSet]
        /\ now \in Nat /\ \A p \in Requests : request[p].asked \in Nat
    BY DEF TypeOK, RequestsOK, RequestSet
  <1>1. ASSUME NEW r \in Requests, Work(r) PROVE MinutesPast'
    <2>1. UNCHANGED now
      BY <1>1 DEF Work, Ask, CallPublicApi, ReadAssignments, StoreRights, TakeMinute, Count,
         ExpireCounter, WithinLimit, RefuseCall, Begin, AnswerCall, RemoveMember,
         RevokeKey, ReadOrganisation, SaveSelect, SaveUpdate
    <2>2. request'[r].asked \in {0, now, request[r].asked}
      <3>1. CASE Count(r)
        <4>1. \E pc, n : request' = [request EXCEPT ![r].pc = pc, ![r].count = n]
          BY <3>1 DEF Count
        <4>2. QED BY <1>0, <4>1 DEF RequestSet
      <3>2. CASE ReadOrganisation(r)
        <4>1. \E saw : request' = [request EXCEPT ![r].pc = "select", ![r].saw = saw]
          BY <3>2 DEF ReadOrganisation
        <4>2. QED BY <1>0, <4>1 DEF RequestSet
      <3>3. CASE SaveSelect(r)
        <4>1. \E changed :
                request' = [request EXCEPT ![r].pc = "write", ![r].changed = changed]
          BY <3>3 DEF SaveSelect
        <4>2. QED BY <1>0, <4>1 DEF RequestSet
      <3>4. CASE ReadAssignments(r)
        <4>1. \E rights :
                request' = [request EXCEPT ![r].pc = "store", ![r].rights = rights]
          BY <3>4 DEF ReadAssignments
        <4>2. QED BY <1>0, <4>1 DEF RequestSet
      <3>5. CASE \E u \in Members, op \in Operations : Ask(r, u, op)
        <4>1. PICK u \in Members, op \in Operations : Ask(r, u, op) BY <3>5
        <4>2. Idle.asked = 0 /\ Asking(u, op).asked = 0 BY DEF Idle, Asking
        <4>3. CASE CacheMiss(r, u, op) BY <1>0, <4>2, <4>3 DEF CacheMiss
        <4>4. CASE CacheHit(r, u, op)
          BY <1>0, <4>2, <4>4 DEF CacheHit, Decide, Asking, Idle
        <4>5. QED BY <4>1, <4>3, <4>4 DEF Ask
      <3>6. CASE TakeMinute(r) BY <1>0, <3>6 DEF TakeMinute, RequestSet
      <3>7. CASE StoreRights(r)
        BY <1>0, <3>7 DEF StoreRights, Decide, Asking, Idle, RequestSet
      <3>8. CASE Begin(r) \/ ExpireCounter(r)
        BY <1>0, <3>8 DEF Begin, ExpireCounter, Goto, Finish, Idle, RequestSet
      <3>9. CASE (\E k \in Keys : CallPublicApi(r, k)) \/ WithinLimit(r)
        BY <1>0, <3>9 DEF CallPublicApi, WithinLimit, Idle
      <3>10. CASE RefuseCall(r) \/ AnswerCall(r) \/ RemoveMember(r) \/ RevokeKey(r)
                  \/ SaveUpdate(r)
        <4>1. Finish(r)
          BY <3>10 DEF RefuseCall, AnswerCall, RemoveMember, RevokeKey, SaveUpdate
        <4>2. QED BY <1>0, <4>1 DEF Finish, Idle
      <3>11. QED
        BY <1>1, <3>1, <3>2, <3>3, <3>4, <3>5, <3>6, <3>7, <3>8, <3>9, <3>10 DEF Work
    <2>3. QED BY <1>0, <1>1, <2>1, <2>2, OthersStay DEF MinutesPast
  <1>2. CASE Tick BY <1>0, <1>2 DEF Tick, MinutesPast
  <1>3. CASE Crash BY <1>0, <1>3 DEF Crash, Idle, MinutesPast
  <1>4. CASE UNCHANGED vars BY <1>4 DEF vars, MinutesPast
  <1>5. QED BY <1>1, <1>2, <1>3, <1>4, NextSteps

\* What Count does to its counter, when the call comes in time.
LEMMA CountEffect ==
  ASSUME TypeOK, CountersLive, NEW r \in Requests, Count(r)
  PROVE  LET k == request[r].by
             m == Minute(r)
             old == counter[k][m].count
             new == counter'[k][m].count
         IN /\ k \in Keys /\ m \in Minutes
            /\ \A j \in Keys, n \in Minutes :
                 <<j, n>> # <<k, m>> => counter'[j][n] = counter[j][n]
            /\ new > 0
            /\ counter'[k][m].until \in {Forever, counter[k][m].until}
            /\ counter[k][m].count = 0 => counter'[k][m].until = Forever
            /\ <<k, m>> \notin late'
                 => new = IF old > Limit THEN old ELSE old + 1
            /\ request'[r].by = k /\ Minute(r)' = m /\ request'[r].count = new
  <1> DEFINE k == request[r].by
             m == Minute(r)
             c == counter[k][m]
             new == IF c.count > 0 /\ Alive(c)
                    THEN [c EXCEPT !.count = IF @ > Limit THEN @ ELSE @ + 1]
                    ELSE [count |-> 1, until |-> Forever]
  <1>0. request \in [Requests -> RequestSet] BY DEF TypeOK, RequestsOK
  <1>1. k \in Keys /\ m \in Minutes
    BY MinuteTypes DEF Count, At, TypeOK, RequestsOK, Held, KeySteps
  <1>2. c \in [count : Nat, until : Nat \cup {Forever}] /\ Limit \in Nat \ {0}
    BY <1>1, AccessAssumption DEF TypeOK
  <1>3. counter' = [counter EXCEPT ![k][m] = new]
    BY DEF Count
  <1>4. \E pc : request' = [request EXCEPT ![r].pc = pc, ![r].count = new.count]
    BY DEF Count
  <1>5. <<k, m>> \notin late' => now - request[r].asked <= CounterTtl - Window
    <2>1. SUFFICES ASSUME <<k, m>> \notin late', now - request[r].asked > CounterTtl - Window
                   PROVE  FALSE
      BY AccessAssumption, <1>0 DEF TypeOK, RequestSet
    <2>2. late' = late \cup {<<k, m>>} BY <2>1 DEF Count
    <2>3. QED BY <2>1, <2>2
  <1>6. <<k, m>> \notin late' /\ c.count > 0 => Alive(c)
    BY <1>1, <1>5, CountedAlive
  <1>7. /\ new.count > 0 /\ new.until \in {Forever, c.until}
        /\ c.count = 0 => new.until = Forever
        /\ <<k, m>> \notin late'
             => new.count = IF c.count > Limit THEN c.count ELSE c.count + 1
    <2> HIDE DEF c, k, m
    <2>1. CASE c.count > 0 /\ Alive(c) BY <1>2, <2>1
    <2>2. CASE ~(c.count > 0 /\ Alive(c)) BY <1>2, <1>6, <2>2
    <2>3. QED BY <2>1, <2>2
  <1> HIDE DEF new
  <1>8. counter'[k][m] = new BY <1>1, <1>3 DEF TypeOK
  <1>9. \A j \in Keys, n \in Minutes : <<j, n>> # <<k, m>> => counter'[j][n] = counter[j][n]
    BY <1>1, <1>3 DEF TypeOK
  <1>10. request'[r].by = k /\ request'[r].asked = request[r].asked
         /\ request'[r].count = new.count
    BY <1>0, <1>4 DEF RequestSet
  <1>11. Minute(r)' = m BY <1>10 DEF Minute
  <1>12. QED BY <1>1, <1>7, <1>8, <1>9, <1>10, <1>11

\* Counters keep living: an expiry that is set is later than the last call of the
\* minute that comes in time.
LEMMA CountersLiveStep == TypeOK /\ MinutesPast /\ CountersLive /\ [Next]_vars => CountersLive'
  <1> SUFFICES ASSUME TypeOK, MinutesPast, CountersLive, [Next]_vars PROVE CountersLive'
    OBVIOUS
  <1>1. ASSUME NEW r \in Requests, Count(r) PROVE CountersLive'
    <2> DEFINE k == request[r].by
               m == Minute(r)
    <2>1. /\ k \in Keys /\ m \in Minutes
          /\ \A j \in Keys, n \in Minutes :
               <<j, n>> # <<k, m>> => counter'[j][n] = counter[j][n]
          /\ counter'[k][m].until \in {Forever, counter[k][m].until}
          /\ counter[k][m].count = 0 => counter'[k][m].until = Forever
      BY <1>1, CountEffect
    <2>2. counter[k][m].count \in Nat BY <2>1 DEF TypeOK
    <2>3. counter[k][m].count = 0 \/ counter[k][m].count > 0 BY <2>2
    <2>4. counter'[k][m].until = Forever \/ counter'[k][m].until >= m * Window + CounterTtl
      BY <2>1, <2>3 DEF CountersLive
    <2> HIDE DEF k, m
    <2>5. QED BY <2>1, <2>4 DEF CountersLive
  <1>2. ASSUME NEW r \in Requests, ExpireCounter(r) PROVE CountersLive'
    <2> DEFINE k == request[r].by
               m == Minute(r)
               a == request[r].asked
    <2>1. k \in Keys /\ m \in Minutes
      BY <1>2, MinuteTypes DEF ExpireCounter, At, TypeOK, RequestsOK, Held, KeySteps
    <2>2. counter' = [counter EXCEPT ![k][m].until = now + CounterTtl]
      BY <1>2 DEF ExpireCounter
    <2>3. \A j \in Keys, n \in Minutes :
            <<j, n>> # <<k, m>> => counter'[j][n] = counter[j][n]
      BY <2>1, <2>2 DEF TypeOK
    <2>4. counter'[k][m].until = now + CounterTtl
      BY <2>1, <2>2 DEF TypeOK
    <2>5. a \in Nat /\ a <= now /\ now \in Nat
      BY DEF MinutesPast, TypeOK, RequestsOK, RequestSet
    <2>6. m \in Nat /\ m * Window <= a
      BY <2>5, MinuteBounds DEF Minute
    <2> DEFINE mw == m * Window
    <2>7. mw \in Nat /\ CounterTtl \in Nat BY <2>6, AccessAssumption
    <2>8. now + CounterTtl >= mw + CounterTtl
      <3>1. mw <= a BY <2>6
      <3> HIDE DEF mw, a
      <3>2. QED BY <2>5, <2>7, <3>1
    <2>9. counter'[k][m].until >= m * Window + CounterTtl BY <2>4, <2>8
    <2> HIDE DEF k, m, mw
    <2>10. QED BY <2>1, <2>3, <2>9 DEF CountersLive
  <1>3. CASE UNCHANGED counter BY <1>3 DEF CountersLive
  <1>4. ASSUME NEW r \in Requests, Work(r), ~Count(r), ~ExpireCounter(r)
        PROVE  UNCHANGED counter
    BY <1>4 DEF Work, Ask, CallPublicApi, ReadAssignments, StoreRights, TakeMinute,
       WithinLimit, RefuseCall, Begin, AnswerCall, RemoveMember,
       RevokeKey, ReadOrganisation, SaveSelect, SaveUpdate, Redis
  <1>5. Tick \/ Crash \/ UNCHANGED vars => UNCHANGED counter
    BY DEF Tick, Crash, vars, Redis
  <1>6. QED BY <1>1, <1>2, <1>3, <1>4, <1>5, NextSteps

\* Cardinality of the calls ahead of a minute after a step that adds none.
LEMMA AheadNoMore ==
  ASSUME NEW k, NEW m, IsFiniteSet(Ahead(k, m)), Ahead(k, m)' \subseteq Ahead(k, m)
  PROVE  /\ IsFiniteSet(Ahead(k, m)')
         /\ Cardinality(Ahead(k, m)') <= Cardinality(Ahead(k, m))
         /\ Cardinality(Ahead(k, m)') \in Nat /\ Cardinality(Ahead(k, m)) \in Nat
  BY FS_Subset, FS_CardinalityType

\* A call that is counted joins those ahead of its minute when it is within the
\* limit, and no others.
LEMMA CountAhead ==
  ASSUME TypeOK, CountersLive, NEW r \in Requests, Count(r), NEW k \in Keys, NEW m \in Minutes
  PROVE  LET mine == k = request[r].by /\ m = Minute(r) IN
         /\ mine /\ request'[r].count <= Limit => Ahead(k, m)' = Ahead(k, m) \cup {r}
         /\ ~(mine /\ request'[r].count <= Limit) => Ahead(k, m)' = Ahead(k, m)
         /\ r \notin Ahead(k, m)
  <1>1. r \notin Ahead(k, m) BY DEF Ahead, Count, At
  <1>2. \A p \in Requests \ {r} : p \in Ahead(k, m)' <=> p \in Ahead(k, m)
    <2> SUFFICES ASSUME NEW p \in Requests \ {r}
                 PROVE  p \in Ahead(k, m)' <=> p \in Ahead(k, m)
      OBVIOUS
    <2>1. request'[p] = request[p] BY OthersStay DEF Work
    <2>2. QED BY <2>1 DEF Ahead, Minute
  <1>3. request'[r].pc \in {"expire", "limit"} BY NextPc
  <1>4. request'[r].by = request[r].by /\ Minute(r)' = Minute(r) BY CountEffect
  <1>5. r \in Ahead(k, m)' <=>
          k = request[r].by /\ m = Minute(r) /\ request'[r].count <= Limit
    BY <1>3, <1>4 DEF Ahead
  <1>6. Ahead(k, m) \subseteq Requests /\ Ahead(k, m)' \subseteq Requests BY DEF Ahead
  <1>7. QED BY <1>1, <1>2, <1>5, <1>6

LEMMA CountedCount ==
  ASSUME TypeOK, RateInv, NEW r \in Requests, Count(r)
  PROVE  AheadFinite' /\ CountedOnce'
  <1> SUFFICES ASSUME NEW k \in Keys, NEW m \in Minutes
               PROVE  /\ IsFiniteSet(Ahead(k, m)')
                      /\ <<k, m>> \notin late'
                           => /\ passed'[k][m] + Cardinality(Ahead(k, m)') <= counter'[k][m].count
                              /\ passed'[k][m] + Cardinality(Ahead(k, m)') <= Limit
    BY DEF AheadFinite, CountedOnce
  <1> DEFINE A == Ahead(k, m)
             n == Cardinality(A)
             c == counter[k][m].count
             d == counter'[k][m].count
             mine == k = request[r].by /\ m = Minute(r)
  <1>1. IsFiniteSet(A) /\ n \in Nat /\ c \in Nat /\ passed[k][m] \in Nat /\ Limit \in Nat
    BY FS_CardinalityType, AccessAssumption DEF RateInv, AheadFinite, TypeOK
  <1>2. UNCHANGED passed /\ (<<k, m>> \notin late' => <<k, m>> \notin late)
    BY DEF Count
  <1>3. <<k, m>> \notin late => passed[k][m] + n <= c /\ passed[k][m] + n <= Limit
    BY DEF RateInv, CountedOnce
  <1>a. CountersLive BY DEF RateInv
  <1>b. ~mine => d = c
    <2>1. \A j \in Keys, l \in Minutes :
            <<j, l>> # <<request[r].by, Minute(r)>> => counter'[j][l] = counter[j][l]
      BY <1>a, CountEffect
    <2>2. ~mine => counter'[k][m] = counter[k][m] BY <2>1
    <2>3. QED BY <2>2
  <1>c. mine => d = request'[r].count
             /\ (<<k, m>> \notin late' => d = IF c > Limit THEN c ELSE c + 1)
    BY <1>a, CountEffect
  <1>4. CASE mine /\ request'[r].count <= Limit
    <2>1. A' = A \cup {r} /\ r \notin A BY <1>4, CountAhead DEF RateInv
    <2>2. IsFiniteSet(A') /\ Cardinality(A') = n + 1
      <3> HIDE DEF A
      <3>1. QED BY <1>1, <2>1, FS_AddElement
    <2>3. d = request'[r].count /\ (<<k, m>> \notin late' => d = IF c > Limit THEN c ELSE c + 1)
      BY <1>4, <1>c
    <2>4. d <= Limit BY <1>4, <2>3
    <2> HIDE DEF A, n, c, d, mine
    <2>5. <<k, m>> \notin late' => d = c + 1 BY <1>1, <2>3, <2>4
    <2>6. ASSUME <<k, m>> \notin late'
          PROVE  passed'[k][m] + Cardinality(A') <= d /\ passed'[k][m] + Cardinality(A') <= Limit
      BY <1>1, <1>2, <1>3, <2>2, <2>4, <2>5, <2>6
    <2>7. QED BY <2>2, <2>6 DEF A, d
  <1>5. CASE ~(mine /\ request'[r].count <= Limit)
    <2>1. A' = A BY <1>5, CountAhead DEF RateInv
    <2>2. mine \/ d = c
      BY <1>b
    <2>3. mine /\ <<k, m>> \notin late' => d = IF c > Limit THEN c ELSE c + 1
      BY <1>c
    <2> HIDE DEF A, n, c, d, mine
    <2>4. <<k, m>> \notin late' => c <= d BY <1>1, <2>2, <2>3
    <2>5. Cardinality(A') = n BY <2>1 DEF n
    <2>6. <<k, m>> \notin late' => d \in Nat BY <1>1, <2>2, <2>3
    <2>7. ASSUME <<k, m>> \notin late'
          PROVE  passed'[k][m] + Cardinality(A') <= d /\ passed'[k][m] + Cardinality(A') <= Limit
      BY <1>1, <1>2, <1>3, <2>4, <2>5, <2>6, <2>7
    <2>8. QED BY <1>1, <2>1, <2>7 DEF A, d
  <1>6. QED BY <1>4, <1>5

LEMMA CountedWithin ==
  ASSUME TypeOK, RateInv, NEW r \in Requests, WithinLimit(r)
  PROVE  AheadFinite' /\ CountedOnce'
  <1> SUFFICES ASSUME NEW k \in Keys, NEW m \in Minutes
               PROVE  /\ IsFiniteSet(Ahead(k, m)')
                      /\ <<k, m>> \notin late'
                           => /\ passed'[k][m] + Cardinality(Ahead(k, m)') <= counter'[k][m].count
                              /\ passed'[k][m] + Cardinality(Ahead(k, m)') <= Limit
    BY DEF AheadFinite, CountedOnce
  <1> DEFINE A == Ahead(k, m)
             n == Cardinality(A)
             c == counter[k][m].count
             x == passed[k][m]
             y == passed'[k][m]
             mine == k = request[r].by /\ m = Minute(r)
  <1>0. request \in [Requests -> RequestSet] BY DEF TypeOK, RequestsOK
  <1>1. IsFiniteSet(A) /\ n \in Nat /\ c \in Nat /\ x \in Nat /\ Limit \in Nat
    BY FS_CardinalityType, AccessAssumption DEF RateInv, AheadFinite, TypeOK
  <1>2. UNCHANGED <<counter, late>> BY DEF WithinLimit, Redis
  <1>3. <<k, m>> \notin late => x + n <= c /\ x + n <= Limit
    BY DEF RateInv, CountedOnce
  <1>4. A' \subseteq A /\ r \notin A'
    <2>1. request'[r].pc = "begin" BY NextPc
    <2>2. Work(r) /\ ~Count(r) BY DEF Work, WithinLimit, Count, At
    <2>3. QED BY <2>1, <2>2, AheadShrinks DEF Ahead
  <1>5. passed' = [passed EXCEPT ![request[r].by][Minute(r)] = @ + 1]
    BY DEF WithinLimit
  <1>6. y = IF mine THEN x + 1 ELSE x
    BY <1>5 DEF TypeOK
  <1>7. mine => r \in A BY DEF WithinLimit, At, Ahead
  <1>8. IsFiniteSet(A') /\ Cardinality(A') \in Nat /\ Cardinality(A') <= n
        /\ (mine => Cardinality(A') + 1 <= n)
    <2> HIDE DEF A, mine
    <2>1. IsFiniteSet(A') /\ Cardinality(A') \in Nat /\ Cardinality(A') <= n
      BY <1>1, <1>4, FS_Subset, FS_CardinalityType
    <2>2. ASSUME mine PROVE Cardinality(A') + 1 <= n
      <3>1. A' \cup {r} \subseteq A BY <1>4, <1>7, <2>2
      <3>2. Cardinality(A' \cup {r}) = Cardinality(A') + 1
        BY <1>4, <2>1, FS_AddElement
      <3>3. QED BY <1>1, <3>1, <3>2, FS_Subset
    <2>3. QED BY <2>1, <2>2
  <1>9. counter'[k][m].count = c BY <1>2
  <1> HIDE DEF A, n, c, x, y, mine
  <1>10. <<k, m>> \notin late => y + Cardinality(A') <= c /\ y + Cardinality(A') <= Limit
    BY <1>1, <1>3, <1>6, <1>8
  <1>11. QED BY <1>2, <1>8, <1>9, <1>10 DEF A, y

LEMMA CountedQuiet ==
  ASSUME TypeOK, RateInv, UNCHANGED <<passed, late>>,
         \A k \in Keys, m \in Minutes : /\ Ahead(k, m)' \subseteq Ahead(k, m)
                                        /\ counter'[k][m].count = counter[k][m].count
  PROVE  AheadFinite' /\ CountedOnce'
  <1> SUFFICES ASSUME NEW k \in Keys, NEW m \in Minutes
               PROVE  /\ IsFiniteSet(Ahead(k, m)')
                      /\ <<k, m>> \notin late'
                           => /\ passed'[k][m] + Cardinality(Ahead(k, m)') <= counter'[k][m].count
                              /\ passed'[k][m] + Cardinality(Ahead(k, m)') <= Limit
    BY DEF AheadFinite, CountedOnce
  <1> DEFINE n == Cardinality(Ahead(k, m))
             d == Cardinality(Ahead(k, m)')
             c == counter[k][m].count
             x == passed[k][m]
  <1>1. IsFiniteSet(Ahead(k, m)) /\ c \in Nat /\ x \in Nat /\ Limit \in Nat
    BY AccessAssumption DEF RateInv, AheadFinite, TypeOK
  <1>2. IsFiniteSet(Ahead(k, m)') /\ d <= n /\ d \in Nat /\ n \in Nat
    BY <1>1, AheadNoMore
  <1>3. <<k, m>> \notin late => x + n <= c /\ x + n <= Limit
    BY DEF RateInv, CountedOnce
  <1>4. counter'[k][m].count = c /\ passed'[k][m] = x OBVIOUS
  <1> HIDE DEF n, d, c, x
  <1>5. <<k, m>> \notin late => x + d <= c /\ x + d <= Limit
    BY <1>1, <1>2, <1>3
  <1>6. QED BY <1>2, <1>4, <1>5 DEF d

LEMMA CountedStep == TypeOK /\ RateInv /\ [Next]_vars => AheadFinite' /\ CountedOnce'
  <1> SUFFICES ASSUME TypeOK, RateInv, [Next]_vars PROVE AheadFinite' /\ CountedOnce'
    OBVIOUS
  <1>1. ASSUME NEW r \in Requests, Work(r), ~Count(r), ~WithinLimit(r)
        PROVE  AheadFinite' /\ CountedOnce'
    <2>1. UNCHANGED <<passed, late>>
      BY <1>1 DEF Work, Ask, CallPublicApi, ReadAssignments, StoreRights, TakeMinute,
         ExpireCounter, RefuseCall, Begin, AnswerCall, RemoveMember,
         RevokeKey, ReadOrganisation, SaveSelect, SaveUpdate, History
    <2>2. CASE ExpireCounter(r)
      <3>1. counter' = [counter EXCEPT ![request[r].by][Minute(r)].until = now + CounterTtl]
        BY <2>2 DEF ExpireCounter
      <3>2. \A k \in Keys, m \in Minutes : counter'[k][m].count = counter[k][m].count
        BY <3>1 DEF TypeOK
      <3>3. QED BY <1>1, <2>1, <3>2, AheadShrinks, CountedQuiet
    <2>3. CASE ~ExpireCounter(r)
      <3>1. UNCHANGED counter
        BY <1>1, <2>3 DEF Work, Ask, CallPublicApi, ReadAssignments, StoreRights, TakeMinute,
           RefuseCall, Begin, AnswerCall, RemoveMember,
           RevokeKey, ReadOrganisation, SaveSelect, SaveUpdate, Redis
      <3>2. QED BY <1>1, <2>1, <3>1, AheadShrinks, CountedQuiet
    <2>4. QED BY <2>2, <2>3
  <1>2. CASE Tick
    <2>1. UNCHANGED <<request, passed, late, counter>> BY <1>2 DEF Tick, Redis
    <2>2. \A k, m : Ahead(k, m)' = Ahead(k, m) BY <2>1 DEF Ahead, Minute
    <2>3. QED BY <2>1, <2>2, CountedQuiet
  <1>3. CASE Crash
    <2>1. UNCHANGED <<passed, late, counter>> BY <1>3 DEF Crash, Redis, History
    <2>2. \A k, m : Ahead(k, m)' = {} BY <1>3 DEF Crash, Ahead, Idle
    <2>3. QED BY <2>1, <2>2, CountedQuiet
  <1>4. CASE UNCHANGED vars
    <2>1. UNCHANGED <<request, passed, late, counter>> BY <1>4 DEF vars
    <2>2. \A k, m : Ahead(k, m)' = Ahead(k, m) BY <2>1 DEF Ahead, Minute
    <2>3. QED BY <2>1, <2>2, CountedQuiet
  <1>5. QED BY <1>1, <1>2, <1>3, <1>4, CountedCount, CountedWithin, NextSteps

LEMMA RateInit == Init => RateInv
  <1> SUFFICES ASSUME Init PROVE RateInv
    OBVIOUS
  <1>1. MinutesPast BY DEF Init, MinutesPast, Idle
  <1>2. CountersLive BY DEF Init, CountersLive, NotCounted
  <1>3. \A k, m : Ahead(k, m) = {} BY DEF Init, Ahead, Idle
  <1>4. AheadFinite BY <1>3, FS_EmptySet DEF AheadFinite
  <1>5. \A k \in Keys, m \in Minutes : passed[k][m] = 0 /\ counter[k][m].count = 0
    BY DEF Init, NotCounted
  <1>6. 0 + 0 = 0 /\ 0 <= 0 /\ 0 <= Limit BY AccessAssumption
  <1>7. CountedOnce BY <1>3, <1>5, <1>6, FS_EmptySet DEF CountedOnce
  <1>8. QED BY <1>1, <1>2, <1>4, <1>7 DEF RateInv

\* The calls of a key in one minute stay within the limit, unless one of them was
\* held up on its way to Redis until the counter of its minute might be gone.
THEOREM AccessRateHolds == Spec => []RateHolds
  <1>1. TypeOK /\ RateInv /\ [Next]_vars => RateInv'
    BY MinutesPastStep, CountersLiveStep, CountedStep DEF RateInv
  <1>2. TypeOK /\ RateInv => RateHolds
    <2> SUFFICES ASSUME TypeOK, RateInv, NEW k \in Keys, NEW m \in Minutes,
                        <<k, m>> \notin late
                 PROVE  passed[k][m] <= Limit
      BY DEF RateHolds
    <2> DEFINE n == Cardinality(Ahead(k, m))
    <2>1. n \in Nat /\ passed[k][m] \in Nat /\ Limit \in Nat
      BY FS_CardinalityType, AccessAssumption DEF RateInv, AheadFinite, TypeOK
    <2>2. passed[k][m] + n <= Limit BY DEF RateInv, CountedOnce
    <2> HIDE DEF n
    <2>3. QED BY <2>1, <2>2
  <1>3. QED BY <1>1, <1>2, AccessTyping, RateInit, PTL DEF Spec

-----------------------------------------------------------------------------
(* The tables of jobs and keys.                                             *)

Ids == TableJobs \cup KeyIds \cup {NoId}
JobOps == {"cancel", "delete", "clear"}
KeyOps == {"create", "revoke"}

CallSet == [op : JobOps \cup KeyOps \cup {"none"}, id : Ids, todo : SUBSET TableJobs,
            at : {"free", "sent", "saving", "done", "failed"}, lost : BOOLEAN]

PageSet == [at : {"closed", "jobs", "keys"}, jobs : [TableJobs -> {"none", "active", "terminal"}],
            busy : TableJobs \cup {"none", "__bulk__"}, keys : SUBSET KeyIds,
            creating : BOOLEAN, revealed : KeyIds \cup {NoId},
            listed : SUBSET (TableJobs \cup KeyIds), swept : SUBSET TableJobs,
            gone : SUBSET (TableJobs \cup KeyIds)]

\* What a call is about.
About(q) == /\ q.op \in {"cancel", "delete"} => q.id \in TableJobs
            /\ q.op = "revoke" => q.id \in KeyIds
            /\ q.op = "create" /\ q.at = "done" => q.id \in KeyIds
            /\ q.at = "saving" => q.op = "cancel"

ListsTypeOK ==
  /\ jobRow \in [TableJobs -> {"none", "active", "terminal"}]
  /\ keyRow \in [KeyIds -> {"none", "active", "revoked"}]
  /\ page \in PageSet
  /\ risen \subseteq TableJobs
  /\ call \in [Calls -> CallSet]
  /\ \A c \in Calls : About(call[c])

\* Why: a call that was not lost is of the page that is open.
OfThisPage(q) == ~q.lost =>
                   /\ q.op \in JobOps => page.at = "jobs"
                   /\ q.op \in KeyOps => page.at = "keys"

OneTable == /\ page.at # "jobs" => ShownJobs = {}
            /\ page.at # "keys" => page.keys = {} /\ page.revealed = NoId

\* What a call has done on the server by now, and the page does not yet know.
Effect(q) ==
  /\ q.op = "delete" /\ q.at = "done" => jobRow[q.id] = "none" \/ q.id \in risen
  /\ q.op = "revoke" => /\ keyRow[q.id] # "none"
                        /\ ~q.lost => q.id \in page.keys \cup page.gone
  /\ q.op = "revoke" /\ q.at = "done" => keyRow[q.id] = "revoked"
  /\ q.op = "create" /\ q.at = "done" =>
       /\ keyRow[q.id] # "none"
       /\ ~q.lost => q.id \notin page.keys \cup page.gone

HasCreated(q) == q.op = "create" /\ q.at = "done"
CreatedApart == \A c, d \in Calls :
  HasCreated(call[c]) /\ HasCreated(call[d]) /\ c # d => call[c].id # call[d].id

KeysKnown == /\ \A k \in page.keys : keyRow[k] # "none"
             /\ page.at = "keys" => \A k \in page.gone : k \in KeyIds /\ keyRow[k] = "revoked"

ListsInv == /\ \A c \in Calls : OfThisPage(call[c]) /\ Effect(call[c])
            /\ OneTable /\ CreatedApart /\ KeysKnown /\ ListsKeepUp

\* The user asks for something: a free call is sent.
Asks(c) ==
  \/ \E j \in TableJobs : OnCancel(c, j) \/ OnDelete(c, j)
  \/ \E k \in KeyIds : OnRevoke(c, k)
  \/ OnClearAllTerminal(c) \/ OnCreate(c)

\* The server works on a call.
Serves(c) ==
  CancelRead(c) \/ CancelSave(c) \/ Delete(c) \/ SweepOne(c) \/ Create(c) \/ Revoke(c)

\* A call is over.
Ends(c) == Dropped(c) \/ Cancelled(c) \/ Deleted(c) \/ Swept(c) \/ Created(c) \/ Revoked(c)

LEMMA ListsSteps ==
  ListsNext =>
    \/ \E at \in {"jobs", "keys"} : OpenList(at)
    \/ CloseList \/ Dismiss
    \/ \E j \in TableJobs : JobMoves(j)
    \/ \E c \in Calls : Asks(c) \/ Serves(c) \/ NotAnswered(c) \/ Ends(c)
  BY DEF ListsNext, Asks, Serves, Ends

LEMMA FreeTypes == Free \in CallSet /\ About(Free) /\ Free.op = "none" /\ Free.at = "free"
                   /\ Free.lost = FALSE
  BY DEF Free, CallSet, Ids, JobOps, KeyOps, About

\* What changes one call leaves the others.
LEMMA CallTypes ==
  ASSUME ListsTypeOK, NEW c \in Calls, NEW q \in CallSet, About(q),
         call' = [call EXCEPT ![c] = q]
  PROVE  /\ call' \in [Calls -> CallSet] /\ \A d \in Calls : About(call'[d])
         /\ call'[c] = q /\ \A d \in Calls \ {c} : call'[d] = call[d]
  BY DEF ListsTypeOK

\* A call that is sent, for something the open page offers.
LEMMA SentStep ==
  ASSUME ListsTypeOK, ListsInv, NEW c \in Calls,
         NEW op \in JobOps \cup KeyOps, NEW id \in Ids, NEW todo \in SUBSET TableJobs,
         Sent(c, op, id, todo), UNCHANGED Server,
         NEW busy \in TableJobs \cup {"none", "__bulk__"}, NEW creating \in BOOLEAN,
         page' = [page EXCEPT !.busy = busy, !.creating = creating],
         op \in JobOps => page.at = "jobs",
         op \in KeyOps => page.at = "keys",
         op \in {"cancel", "delete"} => id \in TableJobs,
         op = "revoke" => id \in page.keys
  PROVE  ListsTypeOK' /\ ListsInv'
  <1>1. UNCHANGED <<jobRow, keyRow, risen>> /\ call[c] = Free BY DEF Server, Sent
  <1>4. page \in PageSet /\ page.keys \subseteq KeyIds BY DEF ListsTypeOK, PageSet
  <1>5. /\ page' \in PageSet
        /\ page'.at = page.at /\ page'.jobs = page.jobs /\ page'.keys = page.keys
        /\ page'.revealed = page.revealed /\ page'.listed = page.listed
        /\ page'.swept = page.swept /\ page'.gone = page.gone
    BY <1>4 DEF PageSet
  <1> DEFINE q == [Free EXCEPT !.op = op, !.id = id, !.todo = todo, !.at = "sent"]
  <1>6. q \in CallSet /\ q.op = op /\ q.id = id /\ q.at = "sent" /\ q.lost = FALSE
    BY DEF Free, CallSet
  <1>7. About(q) BY <1>4, <1>6 DEF About
  <1>8. call' = [call EXCEPT ![c] = q] BY DEF Sent
  <1> HIDE DEF q
  <1>9. /\ call' \in [Calls -> CallSet] /\ \A d \in Calls : About(call'[d])
        /\ call'[c] = q /\ \A d \in Calls \ {c} : call'[d] = call[d]
    BY <1>6, <1>7, <1>8, CallTypes
  <1>10. ListsTypeOK' BY <1>1, <1>5, <1>9 DEF ListsTypeOK
  <1>11. OfThisPage(call[c])' /\ Effect(call[c])'
    BY <1>1, <1>5, <1>6, <1>9 DEF OfThisPage, Effect, ListsInv, KeysKnown
  <1>12. \A d \in Calls \ {c} : OfThisPage(call[d])' /\ Effect(call[d])'
    BY <1>1, <1>5, <1>9 DEF OfThisPage, Effect, ListsInv
  <1>13. \A d \in Calls : OfThisPage(call[d])' /\ Effect(call[d])'
    BY <1>11, <1>12
  <1>14. OneTable' /\ KeysKnown'
    BY <1>1, <1>5 DEF ListsInv, OneTable, KeysKnown, ShownJobs
  <1>15. CreatedApart'
    BY <1>6, <1>9 DEF ListsInv, CreatedApart, HasCreated
  <1>16. ListsKeepUp'
    BY <1>1, <1>5 DEF ListsInv, ListsKeepUp, ShownJobs
  <1>17. QED BY <1>10, <1>13, <1>14, <1>15, <1>16 DEF ListsInv

LEMMA AsksStep ==
  ASSUME ListsTypeOK, ListsInv, NEW c \in Calls, Asks(c)
  PROVE  ListsTypeOK' /\ ListsInv'
  <1>1. page \in PageSet BY DEF ListsTypeOK
  <1>2. page = [page EXCEPT !.busy = page.busy, !.creating = page.creating]
        /\ page.busy \in TableJobs \cup {"none", "__bulk__"} /\ page.creating \in BOOLEAN
    BY <1>1 DEF PageSet
  <1>3. page.at # "jobs" => \A j \in TableJobs : page.jobs[j] = "none"
    BY DEF ListsInv, OneTable, ShownJobs
  <1>4. page.keys # {} => page.at = "keys"
    BY DEF ListsInv, OneTable
  <1>5. \A b : page' = [page EXCEPT !.busy = b]
                 => page' = [page EXCEPT !.busy = b, !.creating = page.creating]
    BY <1>1 DEF PageSet
  <1>0. /\ {"cancel", "delete", "clear"} \cap KeyOps = {} /\ {"create", "revoke"} \cap JobOps = {}
        /\ {"cancel", "delete", "clear", "create", "revoke"} \subseteq JobOps \cup KeyOps
        /\ TableJobs \subseteq Ids /\ KeyIds \subseteq Ids /\ NoId \in Ids
        /\ {} \in SUBSET TableJobs
    BY DEF JobOps, KeyOps, Ids
  <1>6. ASSUME NEW j \in TableJobs, OnCancel(c, j) PROVE ListsTypeOK' /\ ListsInv'
    <2>1. Sent(c, "cancel", j, {}) /\ UNCHANGED Server /\ page.at = "jobs"
      BY <1>3, <1>6 DEF OnCancel
    <2>2. page' = [page EXCEPT !.busy = j, !.creating = page.creating]
      BY <1>5, <1>6 DEF OnCancel
    <2>3. QED BY <1>0, <1>2, <2>1, <2>2, SentStep
  <1>7. ASSUME NEW j \in TableJobs, OnDelete(c, j) PROVE ListsTypeOK' /\ ListsInv'
    <2>1. Sent(c, "delete", j, {}) /\ UNCHANGED Server /\ page.at = "jobs"
      BY <1>3, <1>7 DEF OnDelete
    <2>2. page' = [page EXCEPT !.busy = j, !.creating = page.creating]
      BY <1>5, <1>7 DEF OnDelete
    <2>3. QED BY <1>0, <1>2, <2>1, <2>2, SentStep
  <1>8. ASSUME NEW k \in KeyIds, OnRevoke(c, k) PROVE ListsTypeOK' /\ ListsInv'
    <2>1. Sent(c, "revoke", k, {}) /\ UNCHANGED Server /\ k \in page.keys
      BY <1>8 DEF OnRevoke
    <2>2. page' = [page EXCEPT !.busy = page.busy, !.creating = page.creating]
      BY <1>2, <1>8 DEF OnRevoke
    <2>3. page.at = "keys" BY <1>4, <2>1
    <2>4. QED BY <1>0, <1>2, <2>1, <2>2, <2>3, SentStep
  <1>9. ASSUME OnClearAllTerminal(c) PROVE ListsTypeOK' /\ ListsInv'
    <2>1. Sent(c, "clear", NoId, Terminal) /\ UNCHANGED Server /\ page.at = "jobs"
      BY <1>3, <1>9 DEF OnClearAllTerminal, Terminal
    <2>2. page' = [page EXCEPT !.busy = "__bulk__", !.creating = page.creating]
      BY <1>5, <1>9 DEF OnClearAllTerminal
    <2>3. Terminal \in SUBSET TableJobs BY DEF Terminal
    <2>4. QED BY <1>0, <1>2, <2>1, <2>2, <2>3, SentStep
  <1>10. ASSUME OnCreate(c) PROVE ListsTypeOK' /\ ListsInv'
    <2>1. Sent(c, "create", NoId, {}) /\ UNCHANGED Server /\ page.at = "keys"
      BY <1>10 DEF OnCreate
    <2>2. page' = [page EXCEPT !.busy = page.busy, !.creating = TRUE]
      BY <1>1, <1>10 DEF OnCreate, PageSet
    <2>3. QED BY <1>0, <1>2, <2>1, <2>2, SentStep
  <1>11. QED BY <1>6, <1>7, <1>8, <1>9, <1>10 DEF Asks

\* What the server or the network does to a call, with the page as it is: rows
\* that went come back as risen only, and keys that were made stay known.
LEMMA ServedStep ==
  ASSUME ListsTypeOK, ListsInv, NEW c \in Calls, NEW q \in CallSet, About(q),
         call' = [call EXCEPT ![c] = q], UNCHANGED page,
         q.lost = call[c].lost, q.op = call[c].op,
         jobRow' \in [TableJobs -> {"none", "active", "terminal"}],
         keyRow' \in [KeyIds -> {"none", "active", "revoked"}],
         risen' \subseteq TableJobs,
         \A j \in TableJobs : jobRow[j] = "none" \/ j \in risen
                              => jobRow'[j] = "none" \/ j \in risen',
         \A k \in KeyIds : /\ keyRow[k] # "none" => keyRow'[k] # "none"
                           /\ keyRow[k] = "revoked" => keyRow'[k] = "revoked",
         Effect(q)',
         HasCreated(q) => \A d \in Calls \ {c} : HasCreated(call[d]) => call[d].id # q.id
  PROVE  ListsTypeOK' /\ ListsInv'
  <1>1. /\ call' \in [Calls -> CallSet] /\ \A d \in Calls : About(call'[d])
        /\ call'[c] = q /\ \A d \in Calls \ {c} : call'[d] = call[d]
    BY CallTypes
  <1>2. ListsTypeOK' BY <1>1 DEF ListsTypeOK
  <1>3. OfThisPage(call[c])' /\ Effect(call[c])'
    BY <1>1 DEF OfThisPage, ListsInv
  <1>4. ASSUME NEW d \in Calls \ {c} PROVE OfThisPage(call[d])' /\ Effect(call[d])'
    <2>1. About(call[d]) /\ OfThisPage(call[d]) /\ Effect(call[d])
      BY DEF ListsTypeOK, ListsInv
    <2>2. call'[d] = call[d] BY <1>1
    <2>3. QED BY <2>1, <2>2 DEF OfThisPage, Effect, About
  <1>5. OneTable' BY DEF ListsInv, OneTable, ShownJobs
  <1>6. page.keys \subseteq KeyIds BY DEF ListsTypeOK, PageSet
  <1>7. KeysKnown' BY <1>6 DEF ListsInv, KeysKnown
  <1>8. CreatedApart' BY <1>1 DEF ListsInv, CreatedApart
  <1>9. ListsKeepUp'
    <2>1. UNCHANGED <<page, ShownJobs>> BY DEF ShownJobs
    <2>2. {j \in TableJobs : jobRow[j] = "none"} \cup risen
            \subseteq {j \in TableJobs : jobRow'[j] = "none"} \cup risen'
          /\ {k \in KeyIds : keyRow[k] = "revoked"} \subseteq {k \in KeyIds : keyRow'[k] = "revoked"}
      BY DEF ListsTypeOK
    <2>3. QED BY <2>1, <2>2 DEF ListsInv, ListsKeepUp
  <1>10. QED BY <1>2, <1>3, <1>4, <1>5, <1>7, <1>8, <1>9 DEF ListsInv

LEMMA ServesStep ==
  ASSUME ListsTypeOK, ListsInv, NEW c \in Calls, Serves(c) \/ NotAnswered(c)
  PROVE  ListsTypeOK' /\ ListsInv'
  <1> DEFINE o == call[c]
  <1>0. /\ o \in CallSet /\ About(o) /\ OfThisPage(o) /\ Effect(o)
        /\ jobRow \in [TableJobs -> {"none", "active", "terminal"}]
        /\ keyRow \in [KeyIds -> {"none", "active", "revoked"}]
        /\ risen \subseteq TableJobs
    BY DEF ListsTypeOK, ListsInv
  <1>1. ASSUME NEW at \in {"saving", "done", "failed"}
        PROVE  LET q == [o EXCEPT !.at = at] IN
               /\ q \in CallSet /\ q.lost = o.lost /\ q.op = o.op /\ q.id = o.id /\ q.at = at
    BY <1>0 DEF CallSet
  <1>2. ASSUME NEW at, Settle(c, at) PROVE call' = [call EXCEPT ![c] = [o EXCEPT !.at = at]]
    BY <1>2 DEF Settle
  <1>3. CASE NotAnswered(c)
    <2>q. PICK q : q = [o EXCEPT !.at = "failed"] OBVIOUS
    <2>1. /\ q \in CallSet /\ q.lost = o.lost /\ q.op = o.op /\ q.id = o.id /\ q.at = "failed"
      BY <1>1, <2>q
    <2>2. call' = [call EXCEPT ![c] = q] /\ UNCHANGED <<jobRow, keyRow, page, risen>>
      BY <1>2, <1>3, <2>q DEF NotAnswered, Server
    <2>3. About(q) /\ ~HasCreated(q) BY <1>0, <2>1 DEF About, HasCreated
    <2>4. Effect(q)' BY <1>0, <2>1, <2>2 DEF Effect
    <2>5. QED BY <1>0, <2>1, <2>2, <2>3, <2>4, ServedStep
  <1>4. ASSUME CancelRead(c) \/ CancelSave(c) \/ Delete(c) PROVE ListsTypeOK' /\ ListsInv'
    <2> DEFINE j == o.id
    <2>1. /\ j \in TableJobs /\ o.op \in {"cancel", "delete"}
          /\ o.at = "saving" => o.op = "cancel"
      BY <1>0, <1>4 DEF CancelRead, CancelSave, Delete, Under, About
    <2>2. UNCHANGED <<keyRow, page>> BY <1>4 DEF CancelRead, CancelSave, Delete, Server
    <2>3. PICK at \in {"saving", "done", "failed"} :
            /\ Settle(c, at)
            /\ \/ UNCHANGED <<jobRow, risen>> /\ ~(o.op = "delete" /\ at = "done")
               \/ Gone(j)
               \/ /\ jobRow' = [jobRow EXCEPT ![j] = "terminal"]
                  /\ risen' = IF jobRow[j] = "none" THEN risen \cup {j} ELSE risen
                  /\ o.op = "cancel"
            /\ at = "saving" => o.op = "cancel"
      <3>1. CASE CancelRead(c) BY <3>1 DEF CancelRead, Under, Server
      <3>2. CASE CancelSave(c) BY <2>1, <3>2 DEF CancelSave
      <3>3. CASE Delete(c) BY <3>3 DEF Delete, Under
      <3>4. QED BY <1>4, <3>1, <3>2, <3>3
    <2>q. PICK q : q = [o EXCEPT !.at = at] OBVIOUS
    <2>4. /\ q \in CallSet /\ q.lost = o.lost /\ q.op = o.op /\ q.id = o.id /\ q.at = at
      BY <1>1, <2>q
    <2>5. call' = [call EXCEPT ![c] = q] BY <1>2, <2>3, <2>q
    <2>6. About(q) /\ ~HasCreated(q) BY <2>1, <2>3, <2>4 DEF About, HasCreated
    <2>7. /\ jobRow' \in [TableJobs -> {"none", "active", "terminal"}]
          /\ risen' \subseteq TableJobs
          /\ \A i \in TableJobs : jobRow[i] = "none" \/ i \in risen
                                 => jobRow'[i] = "none" \/ i \in risen'
      BY <1>0, <2>1, <2>3 DEF Gone
    <2>8. q.op = "delete" /\ q.at = "done" => jobRow'[q.id] = "none"
      BY <1>0, <2>1, <2>3, <2>4 DEF Gone
    <2>9. Effect(q)' BY <2>1, <2>4, <2>8 DEF Effect
    <2>10. QED BY <1>0, <2>2, <2>4, <2>5, <2>6, <2>7, <2>9, ServedStep
  <1>5. ASSUME SweepOne(c) PROVE ListsTypeOK' /\ ListsInv'
    <2>1. UNCHANGED <<keyRow, page>> /\ o.op = "clear"
      BY <1>5 DEF SweepOne, Under
    <2>2. PICK j \in call[c].todo :
            /\ Gone(j) \/ UNCHANGED <<jobRow, risen>>
            /\ call' = [call EXCEPT ![c].todo = @ \ {j},
                                    ![c].at = IF call[c].todo = {j} THEN "done" ELSE @]
      BY <1>5 DEF SweepOne
    <2>3. o.todo \subseteq TableJobs BY <1>0 DEF CallSet
    <2>4. /\ jobRow' \in [TableJobs -> {"none", "active", "terminal"}]
          /\ risen' \subseteq TableJobs
          /\ \A i \in TableJobs : jobRow[i] = "none" \/ i \in risen
                                 => jobRow'[i] = "none" \/ i \in risen'
      BY <1>0, <2>2, <2>3 DEF Gone
    <2> DEFINE at == IF o.todo = {j} THEN "done" ELSE o.at
    <2>q. PICK q : q = [o EXCEPT !.todo = @ \ {j}, !.at = at] OBVIOUS
    <2>5. call' = [call EXCEPT ![c] = q] BY <2>2, <2>q
    <2>6. at \in {"sent", "done"} BY <1>5 DEF SweepOne, Under
    <2> HIDE DEF at
    <2>7. q \in CallSet /\ q.op = "clear" /\ q.lost = o.lost /\ q.at # "saving"
      BY <1>0, <2>1, <2>3, <2>6, <2>q DEF CallSet
    <2>8. About(q) /\ ~HasCreated(q) /\ Effect(q)'
      BY <2>7 DEF About, HasCreated, Effect
    <2>9. QED BY <1>0, <2>1, <2>4, <2>5, <2>7, <2>8, ServedStep
  <1>6. ASSUME Create(c) PROVE ListsTypeOK' /\ ListsInv'
    <2>1. UNCHANGED <<jobRow, page, risen>> /\ o.op = "create"
      BY <1>6 DEF Create, Under
    <2>2. PICK k \in KeyIds :
            /\ keyRow[k] = "none"
            /\ keyRow' = [keyRow EXCEPT ![k] = "active"]
            /\ call' = [call EXCEPT ![c].id = k, ![c].at = "done"]
      BY <1>6 DEF Create
    <2>q. PICK q : q = [o EXCEPT !.id = k, !.at = "done"] OBVIOUS
    <2>3. call' = [call EXCEPT ![c] = q] BY <2>2, <2>q
    <2>4. q \in CallSet /\ q.op = "create" /\ q.lost = o.lost /\ q.id = k /\ q.at = "done"
      BY <1>0, <2>1, <2>q DEF CallSet, Ids
    <2>5. keyRow' \in [KeyIds -> {"none", "active", "revoked"}] /\ keyRow'[k] = "active"
          /\ \A i \in KeyIds : i # k => keyRow'[i] = keyRow[i]
      BY <1>0, <2>2
    <2>6. ~o.lost => k \notin page.keys \cup page.gone
      BY <1>0, <2>1, <2>2 DEF OfThisPage, KeyOps, ListsInv, KeysKnown
    <2>7. Effect(q)' BY <2>1, <2>4, <2>5, <2>6 DEF Effect
    <2>8. About(q) BY <2>4 DEF About
    <2>9. \A d \in Calls : HasCreated(call[d]) => call[d].id # k
      BY <2>2 DEF HasCreated, ListsInv, Effect
    <2>10. \A i \in KeyIds : /\ keyRow[i] # "none" => keyRow'[i] # "none"
                             /\ keyRow[i] = "revoked" => keyRow'[i] = "revoked"
      BY <2>2, <2>5
    <2>11. QED BY <1>0, <2>1, <2>3, <2>4, <2>5, <2>7, <2>8, <2>9, <2>10, ServedStep
  <1>7. ASSUME Revoke(c) PROVE ListsTypeOK' /\ ListsInv'
    <2>q. PICK q : q = [o EXCEPT !.at = "done"] OBVIOUS
    <2>1. UNCHANGED <<jobRow, page, risen>> /\ o.op = "revoke" /\ o.id \in KeyIds
      BY <1>0, <1>7 DEF Revoke, Under, About
    <2>2. keyRow' = [keyRow EXCEPT ![o.id] = "revoked"] /\ Settle(c, "done")
      BY <1>7 DEF Revoke
    <2>3. call' = [call EXCEPT ![c] = q] BY <1>2, <2>2, <2>q
    <2>4. /\ q \in CallSet /\ q.lost = o.lost /\ q.op = o.op /\ q.id = o.id /\ q.at = "done"
      BY <1>1, <2>q
    <2>5. keyRow' \in [KeyIds -> {"none", "active", "revoked"}] /\ keyRow'[o.id] = "revoked"
          /\ \A i \in KeyIds : keyRow'[i] \in {keyRow[i], "revoked"}
      BY <1>0, <2>1, <2>2
    <2>6. About(q) /\ ~HasCreated(q) /\ Effect(q)'
      BY <1>0, <2>1, <2>4, <2>5 DEF About, HasCreated, Effect
    <2>7. QED BY <1>0, <2>1, <2>3, <2>4, <2>5, <2>6, ServedStep
  <1>8. QED BY <1>3, <1>4, <1>5, <1>6, <1>7 DEF Serves

\* The answer of a call that the page no longer waits for, or that changes the
\* page in a way that the rows bear out.
LEMMA FreedStep ==
  ASSUME ListsTypeOK, ListsInv, NEW c \in Calls, Release(c), UNCHANGED Server,
         page' \in PageSet, page'.at = page.at,
         page.keys \cup page.gone \subseteq page'.keys \cup page'.gone, OneTable', KeysKnown', ListsKeepUp',
         \A d \in Calls \ {c} : HasCreated(call[d]) /\ ~call[d].lost
           => call[d].id \notin page'.keys \cup page'.gone
  PROVE  ListsTypeOK' /\ ListsInv'
  <1>1. /\ call' \in [Calls -> CallSet] /\ \A d \in Calls : About(call'[d])
        /\ call'[c] = Free /\ \A d \in Calls \ {c} : call'[d] = call[d]
    BY FreeTypes, CallTypes DEF Release
  <1>2. UNCHANGED <<jobRow, keyRow, risen>> BY DEF Server
  <1>3. ListsTypeOK' BY <1>1, <1>2 DEF ListsTypeOK
  <1>4. OfThisPage(call[c])' /\ Effect(call[c])'
    BY <1>1, FreeTypes DEF OfThisPage, Effect, JobOps, KeyOps
  <1>5. ASSUME NEW d \in Calls \ {c} PROVE OfThisPage(call[d])' /\ Effect(call[d])'
    <2>1. OfThisPage(call[d]) /\ Effect(call[d]) BY DEF ListsInv
    <2>2. call'[d] = call[d] BY <1>1
    <2>3. QED BY <1>2, <2>1, <2>2 DEF OfThisPage, Effect, HasCreated
  <1>6. CreatedApart' BY <1>1, FreeTypes DEF ListsInv, CreatedApart, HasCreated
  <1>7. QED BY <1>3, <1>4, <1>5, <1>6 DEF ListsInv

LEMMA EndsStep ==
  ASSUME ListsTypeOK, ListsInv, NEW c \in Calls, Ends(c)
  PROVE  ListsTypeOK' /\ ListsInv'
  <1> DEFINE o == call[c]
  <1>0. /\ o \in CallSet /\ About(o) /\ OfThisPage(o) /\ Effect(o) /\ page \in PageSet
        /\ page.jobs \in [TableJobs -> {"none", "active", "terminal"}]
    BY DEF ListsTypeOK, ListsInv, PageSet
  <1>1. Release(c) /\ UNCHANGED Server
    BY DEF Ends, Dropped, Cancelled, Deleted, Swept, Created, Revoked
  <1>2. UNCHANGED <<jobRow, keyRow, risen>> BY <1>1 DEF Server
  <1>3. \A d \in Calls \ {c} : HasCreated(call[d]) /\ ~call[d].lost
          => call[d].id \notin page.keys \cup page.gone
    BY DEF ListsInv, Effect, HasCreated
  <1>4. OneTable /\ KeysKnown /\ ListsKeepUp BY DEF ListsInv
  <1>5. ASSUME UNCHANGED page PROVE ListsTypeOK' /\ ListsInv'
    <2>1. OneTable' /\ KeysKnown' /\ ListsKeepUp'
      BY <1>2, <1>4, <1>5 DEF OneTable, KeysKnown, ListsKeepUp, ShownJobs
    <2>2. QED BY <1>0, <1>1, <1>3, <1>5, <2>1, FreedStep
  <1>6. ASSUME Cancelled(c) PROVE ListsTypeOK' /\ ListsInv'
    <2>1. /\ o.id \in TableJobs
          /\ page' = [page EXCEPT !.busy = "none",
               !.jobs[o.id] = IF Ok(c) /\ @ # "none" THEN "terminal" ELSE @]
      BY <1>0, <1>6 DEF Cancelled, Done, About
    <2> DEFINE new == IF Ok(c) /\ page.jobs[o.id] # "none" THEN "terminal" ELSE page.jobs[o.id]
    <2>2. new \in {"none", "active", "terminal"} /\ (new = "none" <=> page.jobs[o.id] = "none")
      BY <1>0, <2>1
    <2>3. page' = [page EXCEPT !.busy = "none", !.jobs = [@ EXCEPT ![o.id] = new]]
      BY <1>0, <2>1 DEF PageSet
    <2> HIDE DEF new
    <2>4. page'.jobs = [page.jobs EXCEPT ![o.id] = new]
      BY <1>0, <2>3 DEF PageSet
    <2>5. /\ page' \in PageSet /\ page'.at = page.at /\ page'.keys = page.keys
          /\ page'.revealed = page.revealed /\ page'.listed = page.listed
          /\ page'.swept = page.swept /\ page'.gone = page.gone
      <3>1. PICK jobs : jobs = [page.jobs EXCEPT ![o.id] = new] OBVIOUS
      <3>2. jobs \in [TableJobs -> {"none", "active", "terminal"}] BY <1>0, <2>2, <3>1
      <3>3. page' = [page EXCEPT !.busy = "none", !.jobs = jobs] BY <2>3, <3>1
      <3>4. QED BY <1>0, <3>2, <3>3 DEF PageSet
    <2>6. ShownJobs' = ShownJobs BY <1>0, <2>1, <2>2, <2>4 DEF ShownJobs
    <2>7. OneTable' /\ KeysKnown' /\ ListsKeepUp'
      BY <1>2, <1>4, <2>5, <2>6 DEF OneTable, KeysKnown, ListsKeepUp
    <2>8. QED BY <1>1, <1>3, <2>5, <2>7, FreedStep
  <1>7. ASSUME Deleted(c), Ok(c) PROVE ListsTypeOK' /\ ListsInv'
    <2>1. /\ o.id \in TableJobs /\ (jobRow[o.id] = "none" \/ o.id \in risen) /\ page.at = "jobs"
          /\ page' = [page EXCEPT !.busy = "none", !.jobs[o.id] = "none",
                                  !.gone = @ \cup {o.id}]
      BY <1>0, <1>7 DEF Deleted, Done, Ok, About, Effect, OfThisPage, JobOps
    <2>2. /\ page'.jobs = [page.jobs EXCEPT ![o.id] = "none"]
          /\ page'.gone = page.gone \cup {o.id}
      BY <1>0, <2>1 DEF PageSet
    <2>3. /\ page'.at = page.at /\ page'.keys = page.keys
          /\ page'.revealed = page.revealed /\ page'.listed = page.listed
          /\ page'.swept = page.swept
      BY <1>0, <2>1 DEF PageSet
    <2>4. page' \in PageSet
      <3>1. page.gone \cup {o.id} \in SUBSET (TableJobs \cup KeyIds)
        BY <1>0, <2>1 DEF PageSet
      <3>2. page' = [page EXCEPT !.busy = "none", !.jobs = page'.jobs, !.gone = page'.gone]
        BY <1>0, <2>1, <2>2 DEF PageSet
      <3>3. page'.jobs \in [TableJobs -> {"none", "active", "terminal"}]
        BY <1>0, <2>1, <2>2
      <3>4. QED BY <1>0, <2>2, <3>1, <3>2, <3>3 DEF PageSet
    <2>5. ShownJobs' = ShownJobs \ {o.id} BY <1>0, <2>1, <2>2 DEF ShownJobs
    <2>6. page.keys = {} BY <1>4, <2>1 DEF OneTable
    <2>7. OneTable' /\ KeysKnown'
      BY <1>2, <1>4, <2>1, <2>3, <2>5, <2>6 DEF OneTable, KeysKnown
    <2>8. ListsKeepUp'
      <3>1. page'.keys = {} /\ page'.listed = page.listed BY <2>3, <2>6
      <3>2. (page'.listed \ (ShownJobs' \cup page'.keys))
              \subseteq (page.listed \ (ShownJobs \cup page.keys)) \cup {o.id}
        BY <2>5, <2>6, <3>1
      <3>3. o.id \in {j \in TableJobs : jobRow'[j] = "none"} \cup risen' BY <1>2, <2>1
      <3>4. page'.gone \cap (ShownJobs' \cup page'.keys) = {}
        BY <1>4, <2>2, <2>5, <3>1 DEF ListsKeepUp
      <3>5. QED BY <1>2, <1>4, <2>3, <3>2, <3>3, <3>4 DEF ListsKeepUp
    <2>9. \A d \in Calls \ {c} : ~(HasCreated(call[d]) /\ ~call[d].lost)
      BY <2>1 DEF ListsInv, OfThisPage, HasCreated, KeyOps
    <2>10. QED BY <1>1, <2>2, <2>3, <2>4, <2>7, <2>8, <2>9, FreedStep
  <1>8. ASSUME Swept(c), Ok(c) PROVE ListsTypeOK' /\ ListsInv'
    <2> DEFINE jobs == [j \in TableJobs |-> IF j \in Terminal THEN "none" ELSE page.jobs[j]]
    <2>1. /\ page.at = "jobs"
          /\ page' = [page EXCEPT !.busy = "none", !.swept = @ \cup Terminal, !.jobs = jobs]
      BY <1>0, <1>8 DEF Swept, Done, OfThisPage, JobOps
    <2>2. Terminal \subseteq TableJobs BY DEF Terminal
    <2>3. jobs \in [TableJobs -> {"none", "active", "terminal"}] BY <1>0
    <2>4. {j \in TableJobs : jobs[j] # "none"} = ShownJobs \ Terminal BY DEF ShownJobs
    <2> HIDE DEF jobs
    <2>5. /\ page' \in PageSet /\ page'.jobs = jobs /\ page'.swept = page.swept \cup Terminal
          /\ page'.at = page.at /\ page'.keys = page.keys /\ page'.gone = page.gone
          /\ page'.revealed = page.revealed /\ page'.listed = page.listed
      BY <1>0, <2>1, <2>2, <2>3 DEF PageSet
    <2>6. ShownJobs' = ShownJobs \ Terminal BY <2>4, <2>5 DEF ShownJobs
    <2>7. OneTable' /\ KeysKnown'
      BY <1>2, <1>4, <2>1, <2>5, <2>6 DEF OneTable, KeysKnown
    <2>8. ListsKeepUp'
      BY <1>2, <1>4, <2>5, <2>6 DEF ListsKeepUp
    <2>9. QED BY <1>1, <1>3, <2>5, <2>7, <2>8, FreedStep
  <1>9. ASSUME Created(c), Ok(c) PROVE ListsTypeOK' /\ ListsInv'
    <2> DEFINE k == o.id
    <2>1. /\ k \in KeyIds /\ keyRow[k] # "none" /\ page.at = "keys" /\ HasCreated(o)
          /\ k \notin page.keys \cup page.gone
          /\ page' = [page EXCEPT !.creating = FALSE, !.keys = @ \cup {k},
                                  !.listed = @ \cup {k}, !.revealed = k]
      BY <1>0, <1>9 DEF Created, Done, Ok, About, Effect, OfThisPage, KeyOps, HasCreated
    <2> HIDE DEF k
    <2>2. /\ page'.keys = page.keys \cup {k} /\ page'.listed = page.listed \cup {k}
          /\ page'.revealed = k /\ page'.at = page.at /\ page'.jobs = page.jobs
          /\ page'.swept = page.swept /\ page'.gone = page.gone
      BY <1>0, <2>1 DEF PageSet
    <2>3. page' \in PageSet
      BY <1>0, <2>1 DEF PageSet
    <2>4. ShownJobs' = ShownJobs /\ ShownJobs = {} BY <1>4, <2>1, <2>2 DEF ShownJobs, OneTable
    <2>5. OneTable' /\ KeysKnown'
      BY <1>2, <1>4, <2>1, <2>2, <2>4 DEF OneTable, KeysKnown
    <2>6. ListsKeepUp'
      BY <1>2, <1>4, <2>1, <2>2, <2>4 DEF ListsKeepUp
    <2>7. \A d \in Calls \ {c} : HasCreated(call[d]) => call[d].id # k
      BY <2>1 DEF ListsInv, CreatedApart, k
    <2>8. QED BY <1>1, <1>3, <2>2, <2>3, <2>5, <2>6, <2>7, FreedStep
  <1>10. ASSUME Revoked(c), Ok(c) PROVE ListsTypeOK' /\ ListsInv'
    <2> DEFINE k == o.id
    <2>1. /\ k \in KeyIds /\ keyRow[k] = "revoked" /\ page.at = "keys" /\ o.op = "revoke"
          /\ page' = [page EXCEPT !.keys = @ \ {k}, !.gone = @ \cup {k}]
      BY <1>0, <1>10 DEF Revoked, Done, Ok, About, Effect, OfThisPage, KeyOps
    <2>2. o.at = "done" /\ ~o.lost BY <1>10 DEF Revoked, Done, Ok
    <2> HIDE DEF k
    <2>3. /\ page'.keys = page.keys \ {k} /\ page'.listed = page.listed
          /\ page'.revealed = page.revealed /\ page'.at = page.at /\ page'.jobs = page.jobs
          /\ page'.swept = page.swept /\ page'.gone = page.gone \cup {k}
      BY <1>0, <2>1 DEF PageSet
    <2>4. page' \in PageSet
      BY <1>0, <2>1 DEF PageSet
    <2>5. ShownJobs' = ShownJobs /\ ShownJobs = {} BY <1>4, <2>1, <2>3 DEF ShownJobs, OneTable
    <2>6. OneTable' /\ KeysKnown'
      BY <1>2, <1>4, <2>1, <2>3, <2>5 DEF OneTable, KeysKnown
    <2>7. ListsKeepUp'
      BY <1>2, <1>4, <2>1, <2>3, <2>5 DEF ListsKeepUp
    <2>8. \A d \in Calls \ {c} : HasCreated(call[d]) /\ ~call[d].lost => call[d].id # k
      BY <1>0, <1>3, <2>1, <2>2 DEF Effect, k
    <2>9. QED BY <1>1, <1>3, <2>3, <2>4, <2>6, <2>7, <2>8, FreedStep
  <1>11. ASSUME Deleted(c) \/ Swept(c) \/ Created(c), ~Ok(c) PROVE ListsTypeOK' /\ ListsInv'
    <2>1. PICK busy \in TableJobs \cup {"none", "__bulk__"}, creating \in BOOLEAN :
            page' = [page EXCEPT !.busy = busy, !.creating = creating]
      <3>1. page.busy \in TableJobs \cup {"none", "__bulk__"} /\ page.creating \in BOOLEAN
        BY <1>0 DEF PageSet
      <3>2. CASE Deleted(c)
        <4>1. page' = [page EXCEPT !.busy = "none"] BY <1>11, <3>2 DEF Deleted
        <4>2. page' = [page EXCEPT !.busy = "none", !.creating = page.creating]
          BY <1>0, <4>1 DEF PageSet
        <4>3. QED BY <3>1, <4>2
      <3>3. CASE Swept(c)
        <4>1. page' = page BY <1>11, <3>3 DEF Swept
        <4>2. page' = [page EXCEPT !.busy = page.busy, !.creating = page.creating]
          BY <1>0, <4>1 DEF PageSet
        <4>3. QED BY <3>1, <4>2
      <3>4. CASE Created(c)
        <4>1. page' = [page EXCEPT !.creating = FALSE] BY <1>11, <3>4 DEF Created
        <4>2. page' = [page EXCEPT !.busy = page.busy, !.creating = FALSE]
          BY <1>0, <4>1 DEF PageSet
        <4>3. QED BY <3>1, <4>2
      <3>5. QED BY <1>11, <3>2, <3>3, <3>4
    <2>2. /\ page' \in PageSet /\ page'.keys = page.keys /\ page'.listed = page.listed
          /\ page'.revealed = page.revealed /\ page'.at = page.at /\ page'.jobs = page.jobs
          /\ page'.swept = page.swept /\ page'.gone = page.gone
      BY <1>0, <2>1 DEF PageSet
    <2>3. OneTable' /\ KeysKnown' /\ ListsKeepUp'
      BY <1>2, <1>4, <2>2 DEF OneTable, KeysKnown, ListsKeepUp, ShownJobs
    <2>4. QED BY <1>1, <1>3, <2>2, <2>3, FreedStep
  <1>12. Dropped(c) \/ (Revoked(c) /\ ~Ok(c)) => UNCHANGED page BY DEF Dropped, Revoked
  <1>13. QED BY <1>5, <1>6, <1>7, <1>8, <1>9, <1>10, <1>11, <1>12 DEF Ends

LEMMA OpenListStep ==
  ASSUME ListsTypeOK, ListsInv, NEW at \in {"jobs", "keys"}, OpenList(at)
  PROVE  ListsTypeOK' /\ ListsInv'
  <1>1. UNCHANGED <<jobRow, keyRow, call, risen>> /\ page = Closed BY DEF OpenList, Server
  <1>2. \A c \in Calls : call[c].lost \/ call[c].op \notin JobOps \cup KeyOps
    BY <1>1 DEF ListsInv, OfThisPage, Closed
  <1>3. Active \subseteq KeyIds /\ \A k \in Active : keyRow[k] = "active" BY DEF Active
  <1>4. /\ page' \in PageSet /\ page'.at = at /\ page'.revealed = NoId
        /\ page'.swept = {} /\ page'.gone = {}
    BY <1>3 DEF OpenList, Closed, PageSet, ListsTypeOK
  <1>5. CASE at = "jobs"
    <2>1. page'.keys = {} /\ page'.jobs = jobRow
          /\ page'.listed = {j \in TableJobs : jobRow[j] # "none"}
      BY <1>5 DEF OpenList, Closed
    <2>2. OneTable' /\ KeysKnown' BY <1>4, <1>5, <2>1 DEF OneTable, KeysKnown
    <2>3. ShownJobs' = page'.listed BY <2>1 DEF ShownJobs
    <2>4. ListsKeepUp' BY <1>1, <1>4, <2>1, <2>3 DEF ListsKeepUp
    <2>5. QED BY <1>1, <1>2, <1>4, <2>2, <2>4
             DEF ListsTypeOK, ListsInv, OfThisPage, Effect, CreatedApart, HasCreated, KeyOps
  <1>6. CASE at = "keys"
    <2>1. page'.keys = Active /\ page'.listed = Active
          /\ page'.jobs = [j \in TableJobs |-> "none"]
      BY <1>6 DEF OpenList, Closed
    <2>2. ShownJobs' = {} BY <2>1 DEF ShownJobs
    <2>3. OneTable' /\ KeysKnown' BY <1>1, <1>3, <1>4, <1>6, <2>1, <2>2 DEF OneTable, KeysKnown
    <2>4. ListsKeepUp' BY <1>1, <1>4, <2>1, <2>2 DEF ListsKeepUp
    <2>5. QED BY <1>1, <1>2, <1>4, <2>3, <2>4
             DEF ListsTypeOK, ListsInv, OfThisPage, Effect, CreatedApart, HasCreated, KeyOps
  <1>7. QED BY <1>5, <1>6

LEMMA ClosedTypes ==
  /\ Closed \in PageSet /\ Closed.at = "closed" /\ Closed.keys = {} /\ Closed.revealed = NoId
  /\ Closed.jobs = [j \in TableJobs |-> "none"] /\ Closed.listed = {} /\ Closed.gone = {}
  BY DEF Closed, PageSet

\* A page that is closed shows nothing, and has lost its calls.
LEMMA ClosedHolds ==
  ASSUME page = Closed PROVE OneTable /\ KeysKnown /\ ListsKeepUp
  <1>1. ShownJobs = {} BY ClosedTypes DEF ShownJobs
  <1>2. QED BY <1>1, ClosedTypes DEF OneTable, KeysKnown, ListsKeepUp

LEMMA CloseListStep ==
  ASSUME ListsTypeOK, ListsInv, CloseList
  PROVE  ListsTypeOK' /\ ListsInv'
  <1>1. UNCHANGED <<jobRow, keyRow, risen>> /\ page' = Closed BY DEF CloseList, Server
  <1>2. OneTable' /\ KeysKnown' /\ ListsKeepUp'
    <2>1. ShownJobs' = {} BY <1>1, ClosedTypes DEF ShownJobs
    <2>2. QED BY <1>1, <2>1, ClosedTypes DEF OneTable, KeysKnown, ListsKeepUp
  <1>3. ASSUME NEW c \in Calls
        PROVE  \/ call'[c] = Free
               \/ /\ call'[c] = [call[c] EXCEPT !.lost = TRUE] /\ call[c].at \in {"sent", "saving"}
    BY DEF CloseList
  <1>4. \A c \in Calls :
          /\ call'[c] \in CallSet /\ About(call'[c]) /\ ~HasCreated(call'[c])
          /\ call'[c] = Free \/ (call'[c].lost = TRUE /\ call'[c].at \in {"sent", "saving"}
               /\ call'[c].op = call[c].op /\ call'[c].id = call[c].id)
    <2> SUFFICES ASSUME NEW c \in Calls
                 PROVE  /\ call'[c] \in CallSet /\ About(call'[c]) /\ ~HasCreated(call'[c])
                        /\ call'[c] = Free \/ (call'[c].lost = TRUE /\ call'[c].at \in {"sent", "saving"}
                             /\ call'[c].op = call[c].op /\ call'[c].id = call[c].id)
      OBVIOUS
    <2>1. call[c] \in CallSet /\ About(call[c]) BY DEF ListsTypeOK
    <2>2. CASE call'[c] = Free BY <2>2, FreeTypes DEF HasCreated
    <2>3. CASE call'[c] = [call[c] EXCEPT !.lost = TRUE] /\ call[c].at \in {"sent", "saving"}
      <3>1. call'[c] \in CallSet /\ call'[c].lost = TRUE /\ call'[c].at = call[c].at
            /\ call'[c].op = call[c].op /\ call'[c].id = call[c].id
        BY <2>1, <2>3 DEF CallSet
      <3>2. QED BY <2>1, <2>3, <3>1 DEF About, HasCreated
    <2>4. QED BY <1>3, <2>2, <2>3
  <1>5. call' \in [Calls -> CallSet]
    <2>1. call' = [c \in Calls |-> call'[c]] BY DEF CloseList
    <2>2. QED BY <1>4, <2>1
  <1>6. ListsTypeOK' BY <1>1, <1>4, <1>5, ClosedTypes DEF ListsTypeOK
  <1>7. ASSUME NEW c \in Calls PROVE OfThisPage(call[c])' /\ Effect(call[c])'
    BY <1>1, <1>4, FreeTypes DEF OfThisPage, Effect, ListsInv, JobOps, KeyOps
  <1>8. CreatedApart' BY <1>4 DEF CreatedApart, HasCreated
  <1>9. QED BY <1>2, <1>6, <1>7, <1>8 DEF ListsInv

LEMMA DismissStep ==
  ASSUME ListsTypeOK, ListsInv, Dismiss
  PROVE  ListsTypeOK' /\ ListsInv'
  <1>1. UNCHANGED <<jobRow, keyRow, call, risen>> BY DEF Dismiss, Server
  <1>2. page \in PageSet BY DEF ListsTypeOK
  <1>3. /\ page' \in PageSet /\ page'.keys = page.keys /\ page'.listed = page.listed
        /\ page'.revealed = NoId /\ page'.at = page.at /\ page'.jobs = page.jobs
        /\ page'.swept = page.swept /\ page'.gone = page.gone
    BY <1>2 DEF Dismiss, PageSet
  <1>4. OneTable' /\ KeysKnown' /\ ListsKeepUp'
    BY <1>1, <1>3 DEF ListsInv, OneTable, KeysKnown, ListsKeepUp, ShownJobs
  <1>5. ListsTypeOK' BY <1>1, <1>3 DEF ListsTypeOK
  <1>6. \A c \in Calls : OfThisPage(call[c])' /\ Effect(call[c])'
    BY <1>1, <1>3 DEF ListsInv, OfThisPage, Effect
  <1>7. CreatedApart' BY <1>1 DEF ListsInv, CreatedApart, HasCreated
  <1>8. QED BY <1>4, <1>5, <1>6, <1>7 DEF ListsInv

LEMMA JobMovesStep ==
  ASSUME ListsTypeOK, ListsInv, NEW j \in TableJobs, JobMoves(j)
  PROVE  ListsTypeOK' /\ ListsInv'
  <1>1. UNCHANGED <<keyRow, page, call, risen>> BY DEF JobMoves
  <1>2. /\ jobRow' \in [TableJobs -> {"none", "active", "terminal"}]
        /\ \A i \in TableJobs : jobRow'[i] = "none" <=> jobRow[i] = "none"
    BY DEF JobMoves, ListsTypeOK
  <1>3. ListsTypeOK' BY <1>1, <1>2 DEF ListsTypeOK
  <1>4. ASSUME NEW c \in Calls PROVE OfThisPage(call[c])' /\ Effect(call[c])'
    BY <1>1, <1>2 DEF ListsInv, OfThisPage, Effect, ListsTypeOK, About
  <1>5. OneTable' /\ KeysKnown' /\ CreatedApart'
    BY <1>1 DEF ListsInv, OneTable, KeysKnown, CreatedApart, HasCreated, ShownJobs
  <1>6. ListsKeepUp' BY <1>1, <1>2 DEF ListsInv, ListsKeepUp, ShownJobs
  <1>7. QED BY <1>3, <1>4, <1>5, <1>6 DEF ListsInv

\* The tables of jobs and keys do not lie about what is gone, whatever calls are
\* under way and in whatever order they are answered.
THEOREM ListsTell == ListsSpec => []ListsKeepUp
  <1>1. ListsInit => ListsTypeOK /\ ListsInv
    <2> SUFFICES ASSUME ListsInit PROVE ListsTypeOK /\ ListsInv
      OBVIOUS
    <2>1. ListsTypeOK BY ClosedTypes, FreeTypes DEF ListsInit, ListsTypeOK
    <2>2. OneTable /\ KeysKnown /\ ListsKeepUp BY ClosedHolds DEF ListsInit
    <2>3. CreatedApart /\ \A c \in Calls : OfThisPage(call[c]) /\ Effect(call[c])
      BY FreeTypes DEF ListsInit, CreatedApart, HasCreated, OfThisPage, Effect, JobOps, KeyOps
    <2>4. QED BY <2>1, <2>2, <2>3 DEF ListsInv
  <1>2. ListsTypeOK /\ ListsInv /\ [ListsNext]_listVars => ListsTypeOK' /\ ListsInv'
    <2> SUFFICES ASSUME ListsTypeOK, ListsInv, [ListsNext]_listVars
                 PROVE  ListsTypeOK' /\ ListsInv'
      OBVIOUS
    <2>1. CASE UNCHANGED listVars
      BY <2>1 DEF listVars, ListsTypeOK, ListsInv, OfThisPage, Effect, OneTable, KeysKnown,
         CreatedApart, HasCreated, ListsKeepUp, ShownJobs
    <2>2. QED
      BY <2>1, ListsSteps, AsksStep, ServesStep, EndsStep, OpenListStep, CloseListStep,
         DismissStep, JobMovesStep
  <1>3. ListsInv => ListsKeepUp BY DEF ListsInv
  <1>4. QED BY <1>1, <1>2, <1>3, PTL DEF ListsSpec
=============================================================================
