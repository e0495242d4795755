--------------------------- MODULE Sessions_proofs ---------------------------
(***************************************************************************)
(* Proofs about Sessions: its types, its two safety properties, and that   *)
(* it implements SessionLedger, for every set of sessions, users and       *)
(* requests and every lifetime; and, at the end, about WebSession: that a  *)
(* browser on top changes nothing of this, and that a browser signed out   *)
(* stays so.                                                               *)
(***************************************************************************)
EXTENDS WebSession, TLAPS

-----------------------------------------------------------------------------
(* The inductive invariant.                                                *)

\* The list of the session's user holds it and does not lapse before it.
Kept(s) ==
  LET list == index[owner[s]] IN
  s \in list.ids /\ (list.ttl = Forever \/ list.ttl >= store[s].ttl)

Sound(s) == Live(s) /\ s \notin ended

\* What a request knows about its session at each step.
RequestOK(q) ==
  /\ q.pc \notin {"idle", "list"} => q.s \in Session
  /\ q.pc = "set" => last[q.s] = 0 /\ q.u \in Users
  /\ q.pc \in {"sadd", "expire", "answer", "read", "user", "reread", "write"}
       => last[q.s] > 0
  /\ q.pc \in {"read", "user", "reread", "write"} => q.s \in handed
  /\ q.pc = "expire" /\ Sound(q.s) => q.s \in index[owner[q.s]].ids
  /\ q.pc = "answer" /\ Sound(q.s) => Kept(q.s)
  /\ q.pc = "del" /\ q.found => last[q.s] > 0
  /\ q.pc \in {"srem", "drop"} => q.s \in ended
  /\ q.pc \in {"list", "drop"} => q.u \in Users
  /\ \A s \in q.todo : last[s] > 0

SessionOK(s) ==
  /\ Live(s) => /\ last[s] > 0
                /\ store[s].ttl = Forever \/ store[s].ttl \in 1 .. RefreshTtl
                /\ store[s].ttl = Forever => s \in ended
  /\ ~Live(s) => store[s].ttl = 0
  /\ last[s] > 0 /\ ~Live(s) => s \in ended
  /\ last[s] > 0 => owner[s] \in Users
  /\ s \in handed => last[s] > 0 /\ (Sound(s) => Kept(s))
  /\ s \in ended => last[s] > 0

IndexOK(u) == \A s \in index[u].ids : last[s] > 0

\* No two sign-ins create the same session.
Distinct ==
  \A p, q \in Requests :
    p # q /\ request[p].pc = "set" /\ request[q].pc = "set"
      => request[p].s # request[q].s

IInv ==
  /\ TypeOK
  /\ \A r \in Requests : RequestOK(request[r])
  /\ \A s \in Session : SessionOK(s)
  /\ \A u \in Users : IndexOK(u)
  /\ Distinct

-----------------------------------------------------------------------------
(* Records.                                                                *)

LEMMA IdleRecord == Idle \in RequestRecord
  BY DEF Idle, RequestRecord, Steps

\* The record of a request that only needs its session from here on.
LEMMA GotoRecord ==
  ASSUME NEW pc \in Steps, NEW s \in Session \cup {NoSession}
  PROVE  /\ At(pc, s) \in RequestRecord
         /\ At(pc, s).pc = pc /\ At(pc, s).s = s
         /\ At(pc, s).todo = {}
  BY DEF At, Idle, RequestRecord

-----------------------------------------------------------------------------
(* Steps that change nothing but the open requests.                        *)

LEMMA RequestStep ==
  ASSUME IInv, NEW r \in Requests, NEW q \in RequestRecord, RequestOK(q),
         q.pc = "set" => \A p \in Requests : request[p].s # q.s,
         request' = [request EXCEPT ![r] = q],
         UNCHANGED <<store, last, owner, index, handed, ended>>
  PROVE  IInv'
  <1>1. request'[r] = q /\ \A p \in Requests \ {r} : request'[p] = request[p]
    BY DEF IInv, TypeOK
  <1>2. TypeOK'
    BY DEF IInv, TypeOK
  <1>3. \A p \in Requests : RequestOK(request[p])'
    BY <1>1 DEF IInv, RequestOK, Sound, Kept, Live
  <1>4. (\A s \in Session : SessionOK(s)) /\ (\A u \in Users : IndexOK(u))
    BY DEF IInv
  <1>5. (\A s \in Session : SessionOK(s)')
    BY <1>4 DEF SessionOK, Sound, Kept, Live
  <1>6. \A u \in Users : IndexOK(u)'
    BY <1>4 DEF IndexOK
  <1>7. Distinct'
    BY <1>1 DEF IInv, Distinct
  <1> QED
    BY <1>2, <1>3, <1>5, <1>6, <1>7 DEF IInv

LEMMA GotoStep ==
  ASSUME IInv, NEW r \in Requests, NEW pc \in Steps \ {"set"},
         Goto(r, pc), RequestOK(At(pc, request[r].s)),
         UNCHANGED <<store, last, owner, index, handed, ended>>
  PROVE  IInv'
  <1> DEFINE q == At(pc, request[r].s)
  <1>1. request[r].s \in Session \cup {NoSession}
    BY DEF IInv, TypeOK, RequestRecord
  <1>2. q \in RequestRecord /\ q.pc = pc
    BY <1>1, GotoRecord
  <1>3. request' = [request EXCEPT ![r] = q] /\ RequestOK(q)
    BY DEF Goto
  <1> HIDE DEF q
  <1> QED
    BY <1>2, <1>3, RequestStep

LEMMA FinishStep ==
  ASSUME IInv, NEW r \in Requests, Finish(r),
         UNCHANGED <<store, last, owner, index, handed, ended>>
  PROVE  IInv'
  <1>1. RequestOK(Idle) /\ Idle.pc # "set"
    BY DEF RequestOK, Idle
  <1> QED
    BY <1>1, IdleRecord, RequestStep DEF Finish

\* The steps that start a request.
LEMMA StartInv ==
  ASSUME IInv, NEW r \in Requests, Start(r)
  PROVE  IInv'
  <1>1. ASSUME NEW u \in Users, NEW s \in Session, Login(r, u, s)
        PROVE  IInv'
    <2> DEFINE q == [Idle EXCEPT !.pc = "set", !.s = s, !.u = u]
    <2>1. q \in RequestRecord /\ q.pc = "set" /\ q.s = s
      BY DEF Idle, RequestRecord, Steps
    <2>2. RequestOK(q)
      BY <1>1 DEF RequestOK, Login, Idle
    <2>3. request' = [request EXCEPT ![r] = q]
      BY <1>1 DEF Login
    <2> HIDE DEF q
    <2> QED
      BY <1>1, <2>1, <2>2, <2>3, RequestStep DEF Login
  <1>2. ASSUME NEW s \in Session, NEW id \in 1 .. last[s], Refresh(r, s, id)
        PROVE  IInv'
    <2> DEFINE q == [Idle EXCEPT !.pc = "read", !.s = s, !.jti = id]
    <2>0. id \in Nat /\ last[s] > 0
      BY DEF IInv, TypeOK
    <2>1. q \in RequestRecord /\ q.pc = "read"
      BY <2>0 DEF Idle, RequestRecord, Steps
    <2>2. RequestOK(q)
      BY <1>2, <2>0 DEF RequestOK, Refresh, Idle
    <2>3. request' = [request EXCEPT ![r] = q]
      BY <1>2 DEF Refresh
    <2> HIDE DEF q
    <2> QED
      BY <1>2, <2>1, <2>2, <2>3, RequestStep DEF Refresh
  <1>3. ASSUME NEW s \in Session, Logout(r, s)
        PROVE  IInv'
    <2> DEFINE q == At("lookup", s)
    <2>0. "lookup" \in Steps
      BY DEF Steps
    <2>1. q \in RequestRecord /\ q.pc = "lookup"
      BY <2>0, GotoRecord
    <2>2. RequestOK(q)
      BY DEF RequestOK, At, Idle
    <2>3. request' = [request EXCEPT ![r] = q]
      BY <1>3 DEF Logout
    <2> HIDE DEF q
    <2> QED
      BY <1>3, <2>1, <2>2, <2>3, RequestStep DEF Logout
  <1>4. ASSUME NEW caller \in Session, List(r, caller)
        PROVE  IInv'
    <2> DEFINE u == owner[caller]
               q == [Idle EXCEPT !.pc = "list", !.u = u, !.todo = index[u].ids]
    <2>1. u \in Users
      BY <1>4 DEF IInv, SessionOK, List
    <2>2. index[u].ids \subseteq Session /\ \A s \in index[u].ids : last[s] > 0
      BY <2>1 DEF IInv, TypeOK, IndexOK
    <2>3. q \in RequestRecord /\ q.pc = "list"
      BY <2>1, <2>2 DEF Idle, RequestRecord, Steps
    <2>4. RequestOK(q)
      BY <2>1, <2>2 DEF RequestOK, Idle
    <2>5. request' = [request EXCEPT ![r] = q]
      BY <1>4 DEF List
    <2> HIDE DEF q
    <2> QED
      BY <1>4, <2>3, <2>4, <2>5, RequestStep DEF List
  <1>5. ASSUME NEW caller \in Session, NEW s \in Session,
               RevokeSession(r, caller, s)
        PROVE  IInv'
    <2> DEFINE q == [Idle EXCEPT !.pc = "check", !.s = s, !.u = owner[caller]]
    <2>1. owner[caller] \in Users \cup {NoUser}
      BY DEF IInv, TypeOK
    <2>2. q \in RequestRecord /\ q.pc = "check"
      BY <2>1 DEF Idle, RequestRecord, Steps
    <2>3. RequestOK(q)
      BY DEF RequestOK, Idle
    <2>4. request' = [request EXCEPT ![r] = q]
      BY <1>5 DEF RevokeSession
    <2> HIDE DEF q
    <2> QED
      BY <1>5, <2>2, <2>3, <2>4, RequestStep DEF RevokeSession
  <1> QED
    BY <1>1, <1>2, <1>3, <1>4, <1>5 DEF Start

\* The checks and look-ups of requests under way.
LEMMA ReadInv ==
  ASSUME IInv, NEW r \in Requests,
         \/ RefreshRead(r) \/ RefreshUser(r) \/ RotateRead(r)
         \/ RevokeCheck(r) \/ Revoked(r) \/ Listed(r)
  PROVE  IInv'
  <1>0. RequestOK(request[r])
    BY DEF IInv
  <1>1. ASSUME Finish(r), UNCHANGED <<store, last, owner, index, handed, ended>>
        PROVE  IInv'
    BY <1>1, FinishStep
  <1>2. ASSUME RefreshRead(r) PROVE IInv'
    <2>1. CASE Goto(r, "lookup")
      <3>1. RequestOK(At("lookup", request[r].s))
        BY <1>0, <1>2 DEF RequestOK, RefreshRead, At, Idle
      <3> QED
        BY <1>2, <2>1, <3>1, GotoStep DEF RefreshRead, Steps
    <2>2. CASE Goto(r, "user")
      <3>1. RequestOK(At("user", request[r].s))
        BY <1>0, <1>2 DEF RequestOK, RefreshRead, At, Idle
      <3> QED
        BY <1>2, <2>2, <3>1, GotoStep DEF RefreshRead, Steps
    <2> QED
      BY <1>1, <1>2, <2>1, <2>2 DEF RefreshRead
  <1>3. ASSUME RefreshUser(r) PROVE IInv'
    <2>1. RequestOK(At("reread", request[r].s))
      BY <1>0, <1>3 DEF RequestOK, RefreshUser, At, Idle
    <2> QED
      BY <1>1, <1>3, <2>1, GotoStep DEF RefreshUser, Steps
  <1>4. ASSUME RotateRead(r) PROVE IInv'
    <2>1. RequestOK(At("write", request[r].s))
      BY <1>0, <1>4 DEF RequestOK, RotateRead, At, Idle
    <2> QED
      BY <1>1, <1>4, <2>1, GotoStep DEF RotateRead, Steps
  <1>5. ASSUME RevokeCheck(r) PROVE IInv'
    <2>1. RequestOK(At("lookup", request[r].s))
      BY <1>0, <1>5 DEF RequestOK, RevokeCheck, At, Idle
    <2> QED
      BY <1>1, <1>5, <2>1, GotoStep DEF RevokeCheck, Steps
  <1> QED
    BY <1>1, <1>2, <1>3, <1>4, <1>5 DEF Revoked, Listed

LEMMA RevokeLookupInv ==
  ASSUME IInv, NEW r \in Requests, RevokeLookup(r)
  PROVE  IInv'
  <1> DEFINE q == [request[r] EXCEPT !.pc = "del", !.found = Live(request[r].s)]
  <1>0. request[r] \in RequestRecord /\ RequestOK(request[r])
    BY DEF IInv, TypeOK
  <1>1. request[r].s \in Session
    BY <1>0 DEF RequestOK, RevokeLookup
  <1>2. /\ q \in RequestRecord /\ q.pc = "del" /\ q.s = request[r].s
        /\ q.found = Live(request[r].s) /\ q.todo = request[r].todo
    BY <1>0 DEF RequestRecord, Steps, Live
  <1>3. RequestOK(q)
    <2> HIDE DEF q
    <2>1. q.found => last[q.s] > 0
      BY <1>1, <1>2 DEF IInv, SessionOK
    <2> QED
      BY <1>0, <1>1, <1>2, <2>1 DEF RequestOK
  <1>4. request' = [request EXCEPT ![r] = q]
    BY DEF RevokeLookup
  <1> HIDE DEF q
  <1> QED
    BY <1>2, <1>3, <1>4, RequestStep DEF RevokeLookup

LEMMA ListGetInv ==
  ASSUME IInv, NEW r \in Requests, NEW s \in Session, ListGet(r, s)
  PROVE  IInv'
  <1> DEFINE q == [request[r] EXCEPT !.pc = IF Live(s) THEN "list" ELSE "drop",
                                     !.s = IF Live(s) THEN NoSession ELSE s,
                                     !.todo = request[r].todo \ {s}]
  <1>0. request[r] \in RequestRecord /\ RequestOK(request[r])
    BY DEF IInv, TypeOK
  <1>1. /\ q \in RequestRecord
        /\ q.pc = IF Live(s) THEN "list" ELSE "drop"
        /\ q.s = IF Live(s) THEN NoSession ELSE s
        /\ q.todo = request[r].todo \ {s}
        /\ q.u = request[r].u
    BY <1>0 DEF RequestRecord, Steps
  <1>2. last[s] > 0
    BY <1>0 DEF RequestOK, ListGet
  <1>3. ~Live(s) => s \in ended
    BY <1>2 DEF IInv, SessionOK
  <1>4. request[r].u \in Users
    BY <1>0 DEF RequestOK, ListGet
  <1>5. request' = [request EXCEPT ![r] = q]
    BY DEF ListGet
  <1> HIDE DEF q
  <1>6. RequestOK(q)
    BY <1>0, <1>1, <1>3, <1>4 DEF RequestOK
  <1> QED
    BY <1>1, <1>5, <1>6, RequestStep DEF ListGet

-----------------------------------------------------------------------------
(* Steps that change the store or the lists.                               *)

\* What Goto makes of a request, and of the others.
LEMMA GotoFacts ==
  ASSUME request \in [Requests -> RequestRecord], NEW r \in Requests,
         NEW pc \in Steps, Goto(r, pc)
  PROVE  /\ request' \in [Requests -> RequestRecord]
         /\ request'[r].pc = pc /\ request'[r].s = request[r].s
         /\ request'[r].todo = {}
         /\ \A p \in Requests \ {r} : request'[p] = request[p]
  <1>1. request[r].s \in Session \cup {NoSession}
    BY DEF RequestRecord
  <1> DEFINE q == At(pc, request[r].s)
  <1>2. request' = [request EXCEPT ![r] = q]
    BY DEF Goto
  <1> HIDE DEF q
  <1>3. /\ q \in RequestRecord /\ q.pc = pc /\ q.s = request[r].s
        /\ q.todo = {}
    <2>1. PICK s \in Session \cup {NoSession} : s = request[r].s
      BY <1>1
    <2>2. q = At(pc, s)
      BY <2>1 DEF q
    <2> QED
      BY <2>1, <2>2, GotoRecord
  <1> QED
    BY <1>2, <1>3

LEMMA CreateSetInv ==
  ASSUME IInv, NEW r \in Requests, CreateSet(r)
  PROVE  IInv'
  <1> DEFINE s == request[r].s
  <1>1. s \in Session /\ request[r].u \in Users /\ last[s] = 0 /\ request[r].pc = "set"
    BY DEF IInv, RequestOK, CreateSet
  <1>2. /\ request' \in [Requests -> RequestRecord]
        /\ request'[r].pc = "sadd" /\ request'[r].s = s
        /\ request'[r].todo = {}
        /\ \A p \in Requests \ {r} : request'[p] = request[p]
    BY GotoFacts DEF IInv, TypeOK, CreateSet, Steps
  <1>3. /\ store'[s] = [jti |-> 1, ttl |-> RefreshTtl]
        /\ last'[s] = 1 /\ owner'[s] = request[r].u
        /\ \A x \in Session \ {s} : /\ store'[x] = store[x] /\ last'[x] = last[x]
                                    /\ owner'[x] = owner[x]
    BY <1>1 DEF CreateSet, IInv, TypeOK
  <1>4. UNCHANGED <<index, handed, ended>>
    BY DEF CreateSet
  <1>5. TypeOK'
    BY <1>1, <1>2, <1>4, SessionsAssumption DEF CreateSet, IInv, TypeOK
  <1> HIDE DEF s
  <1>6. s \notin handed /\ s \notin ended /\ \A u \in Users : s \notin index[u].ids
    BY <1>1 DEF IInv, SessionOK, IndexOK
  <1>7. ASSUME NEW x \in Session PROVE SessionOK(x)'
    <2>1. CASE x = s
      BY <2>1, <1>1, <1>3, <1>4, <1>6, SessionsAssumption
      DEF SessionOK, Live, Sound, Forever
    <2>2. CASE x # s
      BY <2>2, <1>3, <1>4 DEF IInv, SessionOK, Live, Sound, Kept
    <2> QED
      BY <2>1, <2>2
  <1>8. ASSUME NEW p \in Requests PROVE RequestOK(request[p])'
    <2>1. CASE p = r
      BY <2>1, <1>1, <1>2, <1>3 DEF RequestOK
    <2>2. CASE p # r
      <3>1. RequestOK(request[p]) /\ request'[p] = request[p]
        BY <2>2, <1>2 DEF IInv
      <3>2. request[p].s = s => request[p].pc \notin
              {"set", "sadd", "expire", "answer", "read", "user", "reread",
               "write", "srem", "drop"}
        BY <2>2, <3>1, <1>1, <1>6 DEF RequestOK, IInv, Distinct, s
      <3>3. request[p].todo \subseteq Session
        BY DEF IInv, TypeOK, RequestRecord
      <3> QED
        BY <3>1, <3>2, <3>3, <1>1, <1>3, <1>4
        DEF RequestOK, Sound, Kept, Live
    <2> QED
      BY <2>1, <2>2
  <1>9. \A u \in Users : IndexOK(u)'
    BY <1>3, <1>4, <1>6 DEF IInv, TypeOK, IndexOK
  <1>10. Distinct'
    BY <1>2 DEF IInv, Distinct
  <1> QED
    BY <1>5, <1>7, <1>8, <1>9, <1>10 DEF IInv

\* A step that changes only the lists: sessions keep theirs, other requests
\* keep what they know.
LEMMA ListStep ==
  ASSUME IInv, NEW r \in Requests, NEW q \in RequestRecord, q.pc # "set",
         request' = [request EXCEPT ![r] = q],
         index' \in [Users -> [ids : SUBSET Session, ttl : Int]],
         \A u \in Users : IndexOK(u)',
         \A s \in Session : Sound(s) /\ last[s] > 0 /\ Kept(s) => Kept(s)',
         \A s \in Session : Sound(s) /\ s \in index[owner[s]].ids /\ last[s] > 0
                              => s \in index'[owner[s]].ids,
         RequestOK(request[r])',
         UNCHANGED <<store, last, owner, handed, ended>>
  PROVE  IInv'
  <1>1. /\ request' \in [Requests -> RequestRecord]
        /\ request'[r] = q
        /\ \A p \in Requests \ {r} : request'[p] = request[p]
    BY DEF IInv, TypeOK
  <1>2. TypeOK'
    BY <1>1 DEF IInv, TypeOK
  <1>3. ASSUME NEW s \in Session PROVE SessionOK(s)'
    BY DEF IInv, SessionOK, Sound, Live
  <1>4. ASSUME NEW p \in Requests, p # r PROVE RequestOK(request[p])'
    <2>1. RequestOK(request[p]) /\ request'[p] = request[p]
      BY <1>1, <1>4 DEF IInv
    <2>2. Sound(request[p].s) <=> Sound(request[p].s)'
      BY <2>1 DEF Sound, Live
    <2> QED
      BY <2>1, <2>2 DEF RequestOK
  <1>5. Distinct'
    BY <1>1 DEF IInv, Distinct
  <1> QED
    BY <1>2, <1>3, <1>4, <1>5 DEF IInv

\* The record Goto writes, as ListStep needs it.
LEMMA GotoIs ==
  ASSUME request \in [Requests -> RequestRecord], NEW r \in Requests,
         NEW pc \in Steps, Goto(r, pc)
  PROVE  \E q \in RequestRecord :
           /\ q.pc = pc /\ q.s = request[r].s /\ q.todo = {}
           /\ request' = [request EXCEPT ![r] = q] /\ request'[r] = q
  <1>1. PICK s \in Session \cup {NoSession} : s = request[r].s
    BY DEF RequestRecord
  <1>2. At(pc, s) \in RequestRecord /\ At(pc, s).pc = pc /\ At(pc, s).s = s
        /\ At(pc, s).todo = {}
    BY GotoRecord
  <1>3. request' = [request EXCEPT ![r] = At(pc, s)]
    BY <1>1 DEF Goto
  <1> QED
    BY <1>1, <1>2, <1>3

LEMMA CreateIndexInv ==
  ASSUME IInv, NEW r \in Requests, CreateIndex(r)
  PROVE  IInv'
  <1> DEFINE s == request[r].s
             u == owner[s]
  <1>1. s \in Session /\ last[s] > 0 /\ u \in Users
    BY DEF IInv, RequestOK, SessionOK, CreateIndex
  <1>2. PICK q \in RequestRecord :
          /\ q.pc = "expire" /\ q.s = s /\ q.todo = {}
          /\ request' = [request EXCEPT ![r] = q] /\ request'[r] = q
    <2>1. "expire" \in Steps
      BY DEF Steps
    <2> QED
      BY <2>1, GotoIs DEF CreateIndex, IInv, TypeOK
  <1>3. index[u].ids \in SUBSET Session /\ index[u].ttl \in Int
    BY <1>1 DEF IInv, TypeOK
  <1> HIDE DEF s, u
  <1>4. /\ index'[u].ids = index[u].ids \cup {s}
        /\ index'[u].ttl = IF index[u].ids = {} THEN Forever ELSE index[u].ttl
        /\ \A v \in Users \ {u} : index'[v] = index[v]
        /\ index' \in [Users -> [ids : SUBSET Session, ttl : Int]]
    BY <1>1, <1>3 DEF CreateIndex, IInv, TypeOK, s, u, Forever
  <1>5. \A v \in Users : IndexOK(v)'
    BY <1>1, <1>4 DEF IInv, IndexOK, CreateIndex
  <1>6. \A x \in Session : last[x] > 0 => owner[x] \in Users
    BY DEF IInv, SessionOK
  <1>7. UNCHANGED <<store, last, owner, handed, ended>>
    BY DEF CreateIndex
  <1>8. ASSUME NEW x \in Session, Sound(x), last[x] > 0
        PROVE  /\ Kept(x) => Kept(x)'
               /\ x \in index[owner[x]].ids => x \in index'[owner[x]].ids
    BY <1>4, <1>6, <1>7, <1>8 DEF Kept
  <1>9. RequestOK(request[r])'
    BY <1>1, <1>2, <1>4, <1>7 DEF RequestOK, u
  <1> QED
    BY <1>2, <1>4, <1>5, <1>7, <1>8, <1>9, ListStep

LEMMA CreateExpireInv ==
  ASSUME IInv, NEW r \in Requests, CreateExpire(r)
  PROVE  IInv'
  <1>0. PICK s \in Session, u \in Users :
          s = request[r].s /\ last[s] > 0 /\ u = owner[s]
    BY DEF IInv, RequestOK, SessionOK, CreateExpire
  <1>1. Sound(s) => s \in index[u].ids
    BY <1>0 DEF IInv, RequestOK, CreateExpire
  <1>2. PICK q \in RequestRecord :
          /\ q.pc = "answer" /\ q.s = s /\ q.todo = {}
          /\ request' = [request EXCEPT ![r] = q] /\ request'[r] = q
    <2>1. "answer" \in Steps
      BY DEF Steps
    <2> QED
      BY <1>0, <2>1, GotoIs DEF CreateExpire, IInv, TypeOK
  <1>3. index[u].ids \in SUBSET Session /\ index[u].ttl \in Int
    BY DEF IInv, TypeOK
  <1> DEFINE list == IF index[u].ids = {} THEN Unlisted
                     ELSE [index[u] EXCEPT !.ttl = RefreshTtl]
  <1>10. /\ list \in [ids : SUBSET Session, ttl : Int]
         /\ list.ids = index[u].ids
         /\ index[u].ids # {} => list.ttl = RefreshTtl
    <2>1. index[u] \in [ids : SUBSET Session, ttl : Int]
      BY DEF IInv, TypeOK
    <2> QED
      BY <2>1, SessionsAssumption DEF Unlisted
  <1>11. index' = [index EXCEPT ![u] = list]
    BY <1>0 DEF CreateExpire
  <1> HIDE DEF list
  <1>4. /\ index'[u].ids = index[u].ids
        /\ index[u].ids # {} => index'[u].ttl = RefreshTtl
        /\ \A v \in Users \ {u} : index'[v] = index[v]
        /\ index' \in [Users -> [ids : SUBSET Session, ttl : Int]]
    BY <1>10, <1>11 DEF IInv, TypeOK
  <1>7. UNCHANGED <<store, last, owner, handed, ended>>
    BY DEF CreateExpire
  <1>5. \A v \in Users : IndexOK(v)'
    <2>1. \A v \in Users : index'[v].ids = index[v].ids
      BY <1>4
    <2> QED
      BY <2>1, <1>7 DEF IInv, IndexOK
  <1>6. \A x \in Session :
          /\ last[x] > 0 => owner[x] \in Users
          /\ Sound(x) => store[x].ttl <= RefreshTtl
    BY SessionsAssumption DEF IInv, SessionOK, Sound, Forever
  <1>8. ASSUME NEW x \in Session, Sound(x), last[x] > 0
        PROVE  /\ Kept(x) => Kept(x)'
               /\ x \in index[owner[x]].ids => x \in index'[owner[x]].ids
               /\ owner[x] = u /\ x \in index[owner[x]].ids => Kept(x)'
    <2>1. CASE owner[x] = u
      BY <2>1, <1>4, <1>6, <1>7, <1>8, SessionsAssumption DEF Kept, IInv, TypeOK
    <2>2. CASE owner[x] # u
      BY <2>2, <1>4, <1>6, <1>7, <1>8 DEF Kept
    <2> QED
      BY <2>1, <2>2
  <1>9. RequestOK(request[r])'
    <2>1. Sound(s)' => Kept(s)'
      BY <1>0, <1>1, <1>7, <1>8 DEF Sound, Live
    <2>2. last'[s] > 0
      BY <1>0, <1>7
    <2> QED
      BY <1>2, <2>1, <2>2 DEF RequestOK
  <1> QED
    BY <1>2, <1>4, <1>5, <1>7, <1>8, <1>9, ListStep

\* Taking a session that has ended off a list hurts no other session.
LEMMA UnlistFacts ==
  ASSUME IInv, NEW u \in Users, NEW s \in ended, Unlist(u, s),
         UNCHANGED <<store, last, owner, handed, ended>>
  PROVE  /\ index' \in [Users -> [ids : SUBSET Session, ttl : Int]]
         /\ \A v \in Users : IndexOK(v)'
         /\ \A x \in Session : Sound(x) /\ last[x] > 0 /\ Kept(x) => Kept(x)'
         /\ \A x \in Session : Sound(x) /\ x \in index[owner[x]].ids /\ last[x] > 0
                                 => x \in index'[owner[x]].ids
  <1>1. index[u].ids \in SUBSET Session /\ index[u].ttl \in Int
    BY DEF IInv, TypeOK
  <1>2. /\ index'[u].ids = index[u].ids \ {s}
        /\ index'[u].ids # {} => index'[u].ttl = index[u].ttl
        /\ \A v \in Users \ {u} : index'[v] = index[v]
        /\ index' \in [Users -> [ids : SUBSET Session, ttl : Int]]
    BY <1>1 DEF Unlist, IInv, TypeOK, Unlisted
  <1>3. \A v \in Users : IndexOK(v)'
    BY <1>2 DEF IInv, IndexOK
  <1>4. ASSUME NEW x \in Session, Sound(x), last[x] > 0
        PROVE  /\ x \in index[owner[x]].ids => x \in index'[owner[x]].ids
               /\ Kept(x) => Kept(x)'
    <2>1. x # s /\ owner[x] \in Users
      BY <1>4 DEF Sound, IInv, SessionOK
    <2> QED
      BY <2>1, <1>2 DEF Kept
  <1> QED
    BY <1>2, <1>3, <1>4

LEMMA UnlistInv ==
  ASSUME IInv, NEW r \in Requests, RevokeUnlist(r) \/ ListDrop(r)
  PROVE  IInv'
  <1>1. CASE RevokeUnlist(r)
    <2>1. /\ request[r].s \in ended /\ owner[request[r].s] \in Users
          /\ request[r].s \in Session
      BY <1>1 DEF IInv, RequestOK, SessionOK, RevokeUnlist
    <2>2. PICK q \in RequestRecord :
            /\ q.pc = "revoked" /\ q.s = request[r].s /\ q.todo = {}
            /\ request' = [request EXCEPT ![r] = q] /\ request'[r] = q
      <3>1. "revoked" \in Steps
        BY DEF Steps
      <3> QED
        BY <1>1, <3>1, GotoIs DEF RevokeUnlist, IInv, TypeOK
    <2>3. RequestOK(request[r])'
      BY <2>1, <2>2 DEF RequestOK
    <2> QED
      BY <1>1, <2>1, <2>2, <2>3, UnlistFacts, ListStep DEF RevokeUnlist
  <1>2. CASE ListDrop(r)
    <2> DEFINE q == [request[r] EXCEPT !.pc = "list", !.s = NoSession]
    <2>0. request[r] \in RequestRecord /\ RequestOK(request[r])
      BY DEF IInv, TypeOK
    <2>1. request[r].s \in ended /\ request[r].u \in Users
      BY <2>0, <1>2 DEF RequestOK, ListDrop
    <2>2. /\ q \in RequestRecord /\ q.pc = "list" /\ q.todo = request[r].todo
          /\ q.u = request[r].u
      BY <2>0 DEF RequestRecord, Steps
    <2>3. request' = [request EXCEPT ![r] = q]
      BY <1>2 DEF ListDrop
    <2> HIDE DEF q
    <2>4. request'[r] = q
      BY <2>3 DEF IInv, TypeOK
    <2>5. RequestOK(request[r])'
      BY <2>0, <2>1, <2>2, <2>4, <1>2 DEF RequestOK, ListDrop
    <2> QED
      BY <1>2, <2>1, <2>2, <2>3, <2>5, UnlistFacts, ListStep DEF ListDrop
  <1> QED
    BY <1>1, <1>2

LEMMA AnswerInv ==
  ASSUME IInv, NEW r \in Requests, Answer(r)
  PROVE  IInv'
  <1> DEFINE s == request[r].s
  <1>1. s \in Session /\ last[s] > 0 /\ (Sound(s) => Kept(s))
    BY DEF IInv, RequestOK, Answer
  <1>2. /\ request' \in [Requests -> RequestRecord] /\ request'[r] = Idle
        /\ \A p \in Requests \ {r} : request'[p] = request[p]
    BY IdleRecord DEF IInv, TypeOK, Answer, Finish
  <1>3. handed' = handed \cup {s} /\ UNCHANGED <<store, last, owner, index, ended>>
    BY DEF Answer
  <1> HIDE DEF s
  <1>4. TypeOK'
    BY <1>1, <1>2, <1>3 DEF IInv, TypeOK
  <1>5. ASSUME NEW p \in Requests PROVE RequestOK(request[p])'
    <2>1. CASE p = r
      BY <2>1, <1>2 DEF RequestOK, Idle
    <2>2. CASE p # r
      BY <2>2, <1>2, <1>3 DEF IInv, RequestOK, Sound, Kept, Live
    <2> QED
      BY <2>1, <2>2
  <1>6. ASSUME NEW x \in Session PROVE SessionOK(x)'
    BY <1>1, <1>3 DEF IInv, SessionOK, Sound, Kept, Live
  <1>7. \A u \in Users : IndexOK(u)'
    BY <1>3 DEF IInv, IndexOK
  <1>8. Distinct'
    BY <1>2 DEF IInv, Distinct, Idle
  <1> QED
    BY <1>4, <1>5, <1>6, <1>7, <1>8 DEF IInv

LEMMA RotateWriteInv ==
  ASSUME IInv, NEW r \in Requests, RotateWrite(r)
  PROVE  IInv'
  <1>1. PICK s \in Session : s = request[r].s /\ last[s] > 0 /\ s \in handed
    BY DEF IInv, RequestOK, RotateWrite
  <1>2. PICK q \in RequestRecord :
          /\ q.pc = "answer" /\ q.s = s /\ q.todo = {}
          /\ request' = [request EXCEPT ![r] = q] /\ request'[r] = q
    <2>1. "answer" \in Steps
      BY DEF Steps
    <2> QED
      BY <1>1, <2>1, GotoIs DEF RotateWrite, IInv, TypeOK
  <1>3. /\ request' \in [Requests -> RequestRecord]
        /\ \A p \in Requests \ {r} : request'[p] = request[p]
    BY <1>2 DEF IInv, TypeOK
  <1>4. last[s] \in Nat /\ store[s].ttl \in Int
    BY DEF IInv, TypeOK
  <1>5. /\ last'[s] = last[s] + 1 /\ store'[s].jti = last[s] + 1
        /\ store'[s].ttl = IF Live(s) THEN store[s].ttl ELSE Forever
        /\ \A x \in Session \ {s} : store'[x] = store[x] /\ last'[x] = last[x]
        /\ store' \in [Session -> [jti : Nat, ttl : Int]]
        /\ last' \in [Session -> Nat]
    BY <1>1, <1>4 DEF RotateWrite, IInv, TypeOK, Forever
  <1>6. UNCHANGED <<owner, index, handed, ended>>
    BY DEF RotateWrite
  <1>7. TypeOK'
    BY <1>3, <1>5, <1>6 DEF IInv, TypeOK
  <1>8. ~Live(s) => s \in ended
    BY <1>1 DEF IInv, SessionOK
  <1>9. \A x \in Session : /\ last[x] > 0 <=> last'[x] > 0
                           /\ Sound(x)' => Sound(x) /\ store'[x].ttl = store[x].ttl
    BY <1>1, <1>4, <1>5, <1>6, <1>8 DEF Sound, Live
  <1>10. \A x \in Session : Sound(x)' /\ Kept(x) => Kept(x)'
    BY <1>6, <1>9 DEF Kept
  <1>11. ASSUME NEW x \in Session PROVE SessionOK(x)'
    <2>1. SessionOK(x)
      BY DEF IInv
    <2>2. CASE x = s
      BY <2>1, <2>2, <1>1, <1>4, <1>5, <1>6, <1>8, <1>9, <1>10
      DEF SessionOK, Live, Sound
    <2>3. CASE x # s
      BY <2>1, <2>3, <1>5, <1>6, <1>9, <1>10 DEF SessionOK, Live, Sound
    <2> QED
      BY <2>2, <2>3
  <1>12. Sound(s) => Kept(s)
    BY <1>1 DEF IInv, SessionOK
  <1>13. ASSUME NEW p \in Requests PROVE RequestOK(request[p])'
    <2>1. CASE p = r
      BY <2>1, <1>1, <1>2, <1>9, <1>10, <1>12 DEF RequestOK
    <2>2. CASE p # r
      <3>1. RequestOK(request[p]) /\ request'[p] = request[p]
        BY <2>2, <1>3 DEF IInv
      <3>2. request[p].todo \subseteq Session
        BY DEF IInv, TypeOK, RequestRecord
      <3>3. request[p].pc = "set" => request[p].s # s
        BY <3>1, <1>1, <1>4 DEF RequestOK
      <3> QED
        BY <3>1, <3>2, <3>3, <1>5, <1>6, <1>9, <1>10 DEF RequestOK
    <2> QED
      BY <2>1, <2>2
  <1>14. \A u \in Users : IndexOK(u)'
    BY <1>6, <1>9 DEF IInv, TypeOK, IndexOK
  <1>15. Distinct'
    BY <1>2, <1>3 DEF IInv, Distinct
  <1> QED
    BY <1>7, <1>11, <1>13, <1>14, <1>15 DEF IInv

LEMMA RevokeDeleteInv ==
  ASSUME IInv, NEW r \in Requests, RevokeDelete(r)
  PROVE  IInv'
  <1>1. PICK s \in Session :
          /\ s = request[r].s
          /\ request[r].found => last[s] > 0
    BY DEF IInv, RequestOK, RevokeDelete
  <1>2. PICK q \in RequestRecord :
          /\ q.pc = (IF request[r].found THEN "srem" ELSE "revoked")
          /\ q.s = s /\ q.todo = {}
          /\ request' = [request EXCEPT ![r] = q] /\ request'[r] = q
    <2>1. (IF request[r].found THEN "srem" ELSE "revoked") \in Steps
      BY DEF Steps
    <2> QED
      BY <1>1, <2>1, GotoIs DEF RevokeDelete, IInv, TypeOK
  <1>3. /\ request' \in [Requests -> RequestRecord]
        /\ \A p \in Requests \ {r} : request'[p] = request[p]
    BY <1>2 DEF IInv, TypeOK
  <1>4. /\ store' \in [Session -> [jti : Nat, ttl : Int]]
        /\ store'[s] = Missing
        /\ \A x \in Session \ {s} : store'[x] = store[x]
        /\ ended' = ended \cup (IF Live(s) THEN {s} ELSE {})
    BY <1>1 DEF RevokeDelete, Delete, IInv, TypeOK, Missing
  <1>5. UNCHANGED <<last, owner, index, handed>>
    BY DEF RevokeDelete
  <1>6. TypeOK'
    BY <1>3, <1>4, <1>5 DEF IInv, TypeOK
  <1>7. ~Live(s)' /\ \A x \in Session :
          Sound(x)' => Sound(x) /\ store'[x] = store[x]
    BY <1>4 DEF Sound, Live, Missing
  <1>8. \A x \in Session : Sound(x)' /\ Kept(x) => Kept(x)'
    BY <1>5, <1>7 DEF Kept
  <1>9. ASSUME NEW x \in Session PROVE SessionOK(x)'
    <2>1. SessionOK(x)
      BY DEF IInv
    <2>2. CASE x = s
      BY <2>1, <2>2, <1>4, <1>5, <1>7 DEF SessionOK, Live, Missing, Sound
    <2>3. CASE x # s
      BY <2>1, <2>3, <1>4, <1>5, <1>7, <1>8 DEF SessionOK, Live, Sound
    <2> QED
      BY <2>2, <2>3
  <1>10. last[s] > 0 => s \in ended'
    BY <1>4 DEF IInv, SessionOK
  <1>11. ASSUME NEW p \in Requests PROVE RequestOK(request[p])'
    <2>1. CASE p = r
      BY <2>1, <1>1, <1>2, <1>10 DEF RequestOK
    <2>2. CASE p # r
      <3>1. RequestOK(request[p]) /\ request'[p] = request[p]
        BY <2>2, <1>3 DEF IInv
      <3> QED
        BY <3>1, <1>4, <1>5, <1>7, <1>8 DEF RequestOK
    <2> QED
      BY <2>1, <2>2
  <1>12. \A u \in Users : IndexOK(u)'
    BY <1>5 DEF IInv, IndexOK
  <1>13. Distinct'
    BY <1>2, <1>3 DEF IInv, Distinct
  <1> QED
    BY <1>6, <1>9, <1>11, <1>12, <1>13 DEF IInv

LEMMA TickInv ==
  ASSUME IInv, Tick
  PROVE  IInv'
  <1>1. UNCHANGED <<last, owner, handed, request>>
    BY DEF Tick
  <1>2. ASSUME NEW x \in Session
        PROVE  /\ store[x].jti \in Nat /\ store[x].ttl \in Int
               /\ store[x].ttl = 1 => store'[x].jti = 0 /\ store'[x].ttl = 0
               /\ store[x].ttl # 1 => /\ store'[x].jti = store[x].jti
                                      /\ store'[x].ttl = Older(store[x].ttl)
               /\ store'[x] \in [jti : Nat, ttl : Int]
               /\ x \in ended' <=> (x \in ended \/ store[x].ttl = 1)
    BY DEF Tick, IInv, TypeOK, Missing, Older
  <1>3. ASSUME NEW u \in Users
        PROVE  /\ index[u].ttl \in Int
               /\ index[u].ttl = 1 => index'[u].ids = {}
               /\ index[u].ttl # 1 => /\ index'[u].ids = index[u].ids
                                      /\ index'[u].ttl = Older(index[u].ttl)
               /\ index'[u] \in [ids : SUBSET Session, ttl : Int]
    BY DEF Tick, IInv, TypeOK, Unlisted, Older
  <1>4. TypeOK'
    BY <1>1, <1>2, <1>3 DEF Tick, IInv, TypeOK
  <1>5. ASSUME NEW x \in Session, Sound(x)', Kept(x), last[x] > 0
        PROVE  Kept(x)'
    <2>1. Sound(x) /\ store[x].ttl # 1 /\ owner[x] \in Users /\ x \notin ended
      BY <1>1, <1>2, <1>5 DEF Sound, Live, IInv, SessionOK
    <2>2. store[x].ttl \in 2 .. RefreshTtl
      BY <2>1, SessionsAssumption DEF Sound, IInv, SessionOK
    <2>3. index[owner[x]].ttl # 1
      BY <2>2, <1>5, SessionsAssumption DEF Kept, Forever
    <2> QED
      BY <2>1, <2>2, <2>3, <1>1, <1>2, <1>3, <1>5, SessionsAssumption
      DEF Kept, Older, Forever
  <1>6. ASSUME NEW x \in Session PROVE SessionOK(x)'
    <2>1. SessionOK(x)
      BY DEF IInv
    <2>2. CASE store[x].ttl = 1
      BY <2>1, <2>2, <1>1, <1>2 DEF SessionOK, Live, Sound
    <2>3. CASE store[x].ttl # 1
      <3>1. store'[x].ttl = Forever <=> store[x].ttl = Forever
        BY <2>3, <1>2 DEF Older, Forever
      <3>2. /\ store[x].ttl \in 1 .. RefreshTtl
                 => store'[x].ttl \in 1 .. RefreshTtl
            /\ Live(x)' <=> Live(x)
            /\ x \in ended' <=> x \in ended
        BY <2>3, <1>2, SessionsAssumption DEF Older, Live
      <3>3. x \in handed => (Sound(x)' => Kept(x)')
        BY <2>1, <3>2, <1>5 DEF SessionOK, Sound
      <3>4. ~Live(x)' => store'[x].ttl = 0
        BY <2>1, <2>3, <3>2, <1>2 DEF SessionOK, Older
      <3> QED
        BY <2>1, <3>1, <3>2, <3>3, <3>4, <1>1 DEF SessionOK
    <2> QED
      BY <2>2, <2>3
  <1>7. ASSUME NEW p \in Requests PROVE RequestOK(request[p])'
    <2>1. RequestOK(request[p]) /\ request'[p] = request[p]
      BY <1>1 DEF IInv
    <2>2. request[p].pc # "expire"
      BY DEF Tick
    <2>3. \A x \in Session : /\ Sound(x)' => Sound(x)
                             /\ x \in ended => x \in ended'
      BY <1>2 DEF Sound, Live
    <2> QED
      BY <2>1, <2>2, <2>3, <1>1, <1>5 DEF RequestOK
  <1>8. \A u \in Users : IndexOK(u)'
    BY <1>1, <1>3 DEF IInv, IndexOK
  <1>9. Distinct'
    BY <1>1 DEF IInv, Distinct
  <1> QED
    BY <1>4, <1>6, <1>7, <1>8, <1>9 DEF IInv

LEMMA CrashInv ==
  ASSUME IInv, Crash
  PROVE  IInv'
  <1>1. \A r \in Requests : request'[r] = Idle
    BY DEF Crash
  <1>2. TypeOK'
    BY IdleRecord DEF Crash, IInv, TypeOK
  <1>3. \A r \in Requests : RequestOK(request[r])'
    BY <1>1 DEF RequestOK, Idle
  <1>4. (\A s \in Session : SessionOK(s)') /\ (\A u \in Users : IndexOK(u)')
    BY DEF Crash, IInv, SessionOK, IndexOK, Sound, Kept, Live
  <1>5. Distinct'
    BY <1>1 DEF Distinct, Idle
  <1> QED
    BY <1>2, <1>3, <1>4, <1>5 DEF IInv

-----------------------------------------------------------------------------
(* The theorems.                                                           *)

LEMMA InitInv == Init => IInv
  <1> SUFFICES ASSUME Init PROVE IInv
    OBVIOUS
  <1>1. TypeOK
    BY IdleRecord DEF Init, TypeOK, Missing, Unlisted
  <1>2. \A r \in Requests : RequestOK(request[r])
    BY DEF Init, RequestOK, Idle
  <1>3. \A s \in Session : SessionOK(s)
    BY DEF Init, SessionOK, Live, Missing
  <1>4. \A u \in Users : IndexOK(u)
    BY DEF Init, IndexOK, Unlisted
  <1>5. Distinct
    BY DEF Init, Distinct, Idle
  <1> QED
    BY <1>1, <1>2, <1>3, <1>4, <1>5 DEF IInv

LEMMA StepInv == IInv /\ [Next]_vars => IInv'
  <1> SUFFICES ASSUME IInv, [Next]_vars PROVE IInv'
    OBVIOUS
  <1>1. ASSUME NEW r \in Requests, Start(r) PROVE IInv'
    BY <1>1, StartInv
  <1>2. ASSUME NEW r \in Requests, Work(r) PROVE IInv'
    BY <1>2, CreateSetInv, CreateIndexInv, CreateExpireInv, ReadInv,
       RotateWriteInv, RevokeLookupInv, RevokeDeleteInv, UnlistInv, ListGetInv
    DEF Work
  <1>3. ASSUME NEW r \in Requests, Answer(r) \/ Revoked(r) PROVE IInv'
    BY <1>3, AnswerInv, ReadInv
  <1>4. CASE Tick \/ Crash
    BY <1>4, TickInv, CrashInv
  <1>5. CASE UNCHANGED vars
    <2>1. UNCHANGED <<store, last, owner, index, handed, request, ended>>
      BY <1>5 DEF vars
    <2> QED
      BY <2>1 DEF IInv, TypeOK, RequestOK, SessionOK, IndexOK, Distinct,
                  Sound, Kept, Live
  <1> QED
    BY <1>1, <1>2, <1>3, <1>4, <1>5 DEF Next

THEOREM InvariantThm == Spec => []IInv
  BY InitInv, StepInv, PTL DEF Spec

\* Every variable keeps its type: the keys in Redis and the open requests.
THEOREM TypeThm == Spec => []TypeOK
  <1>1. IInv => TypeOK
    BY DEF IInv
  <1> QED
    BY <1>1, InvariantThm, PTL

\* A session loses its expiry only when a rotation writes it back after it
\* ended.
THEOREM NoExpiryThm == Spec => []NoExpiryMeansReopened
  <1>1. IInv => NoExpiryMeansReopened
    BY DEF IInv, SessionOK, NoExpiryMeansReopened
  <1> QED
    BY <1>1, InvariantThm, PTL

\* A user's list holds every session a client was given tokens of, until it
\* ends.
THEOREM ListedThm == Spec => []HandedOutIsListed
  <1>1. IInv => HandedOutIsListed
    BY DEF IInv, TypeOK, SessionOK, HandedOutIsListed, Sound, Kept
  <1> QED
    BY <1>1, InvariantThm, PTL

-----------------------------------------------------------------------------
(* The refinement.                                                         *)

\* An exchange is under way between its check and its write.
Exchanging == {"user", "reread", "write"}

LEMMA PhaseFrame ==
  ASSUME NEW s \in Session, store'[s].jti = store[s].jti, last'[s] = last[s]
  PROVE  Phase(s)' = Phase(s)
  BY DEF Phase, Live

\* A request that is not in an exchange after the step adds none; if it was in
\* none before either, nothing changes.
LEMMA AdmittedFrame ==
  ASSUME NEW r \in Requests, request'[r].pc \notin Exchanging,
         \A p \in Requests \ {r} : request'[p] = request[p],
         NEW s \in Session
  PROVE  /\ Admitted(s)' \subseteq Admitted(s)
         /\ request[r].pc \notin Exchanging => Admitted(s)' = Admitted(s)
  BY DEF Admitted, Exchanging

\* Phases that stay and exchanges that only disappear are a step of the ledger.
LEMMA AbandonStep ==
  ASSUME \A s \in Session : /\ Phase(s)' = Phase(s)
                            /\ Admitted(s)' \subseteq Admitted(s)
  PROVE  Ledger!Next
  <1>1. [s \in Session |-> Admitted(s)'] \in [Session -> SUBSET Requests]
    BY DEF Admitted
  <1>2. Ledger!Abandon
    BY <1>1 DEF Ledger!Abandon
  <1> QED
    BY <1>2 DEF Ledger!Next

\* The ledger does not see a request outside an exchange.
LEMMA QuietStep ==
  ASSUME IInv, NEW r \in Requests, NEW q, q.pc \notin Exchanging,
         request' = [request EXCEPT ![r] = q], UNCHANGED <<store, last>>
  PROVE  Ledger!Next
  <1>1. request'[r].pc \notin Exchanging
    BY DEF IInv, TypeOK
  <1>2. \A p \in Requests \ {r} : request'[p] = request[p]
    BY DEF IInv, TypeOK
  <1> QED
    BY <1>1, <1>2, PhaseFrame, AdmittedFrame, AbandonStep

LEMMA QuietGoto ==
  ASSUME IInv, NEW r \in Requests, NEW pc \in Steps \ Exchanging,
         Goto(r, pc) \/ Finish(r), UNCHANGED <<store, last>>
  PROVE  Ledger!Next
  <1>1. Idle.pc \notin Exchanging
    BY DEF Idle, Exchanging
  <1>2. CASE Finish(r)
    BY <1>1, <1>2, QuietStep DEF Finish
  <1>3. CASE Goto(r, pc)
    <2>1. PICK q \in RequestRecord :
            q.pc = pc /\ request' = [request EXCEPT ![r] = q]
      BY <1>3, GotoIs DEF IInv, TypeOK
    <2> QED
      BY <2>1, QuietStep
  <1> QED
    BY <1>2, <1>3

LEMMA LedgerStart ==
  ASSUME IInv, NEW r \in Requests, Start(r)
  PROVE  Ledger!Next
  <1>1. ASSUME NEW u \in Users, NEW s \in Session, Login(r, u, s)
        PROVE  Ledger!Next
    <2>1. [Idle EXCEPT !.pc = "set", !.s = s, !.u = u].pc \notin Exchanging
      BY DEF Idle, Exchanging
    <2> QED
      BY <1>1, <2>1, QuietStep DEF Login
  <1>2. ASSUME NEW s \in Session, NEW id \in 1 .. last[s], Refresh(r, s, id)
        PROVE  Ledger!Next
    <2>1. [Idle EXCEPT !.pc = "read", !.s = s, !.jti = id].pc \notin Exchanging
      BY DEF Idle, Exchanging
    <2> QED
      BY <1>2, <2>1, QuietStep DEF Refresh
  <1>3. ASSUME NEW s \in Session, Logout(r, s)
        PROVE  Ledger!Next
    <2>1. At("lookup", s).pc \notin Exchanging
      BY DEF At, Idle, Exchanging
    <2> QED
      BY <1>3, <2>1, QuietStep DEF Logout
  <1>4. ASSUME NEW caller \in Session, List(r, caller)
        PROVE  Ledger!Next
    <2>1. [Idle EXCEPT !.pc = "list", !.u = owner[caller],
                       !.todo = index[owner[caller]].ids].pc \notin Exchanging
      BY DEF Idle, Exchanging
    <2> QED
      BY <1>4, <2>1, QuietStep DEF List
  <1>5. ASSUME NEW caller \in Session, NEW s \in Session,
               RevokeSession(r, caller, s)
        PROVE  Ledger!Next
    <2>1. [Idle EXCEPT !.pc = "check", !.s = s,
                       !.u = owner[caller]].pc \notin Exchanging
      BY DEF Idle, Exchanging
    <2> QED
      BY <1>5, <2>1, QuietStep DEF RevokeSession
  <1> QED
    BY <1>1, <1>2, <1>3, <1>4, <1>5 DEF Start

\* An exchange that goes on with the same session is still admitted.
LEMMA SameExchange ==
  ASSUME IInv, NEW r \in Requests, NEW pc \in Exchanging,
         request[r].pc \in Exchanging, Goto(r, pc), UNCHANGED <<store, last>>
  PROVE  Ledger!Next
  <1>1. /\ request'[r].pc = pc /\ request'[r].s = request[r].s
        /\ \A p \in Requests \ {r} : request'[p] = request[p]
    BY GotoFacts DEF IInv, TypeOK, Steps, Exchanging
  <1>2. \A s \in Session : Admitted(s)' \subseteq Admitted(s)
    BY <1>1 DEF Admitted, Exchanging
  <1> QED
    BY <1>2, PhaseFrame, AbandonStep

LEMMA LedgerRead ==
  ASSUME IInv, NEW r \in Requests, RefreshRead(r)
  PROVE  Ledger!Next
  <1>1. CASE Finish(r) \/ Goto(r, "lookup")
    <2>1. "lookup" \in Steps \ Exchanging
      BY DEF Steps, Exchanging
    <2> QED
      BY <1>1, <2>1, QuietGoto DEF RefreshRead
  <1>2. CASE Goto(r, "user") /\ Live(request[r].s)
    <2>1. PICK s \in Session : s = request[r].s /\ last[s] > 0 /\ s \in handed
      BY DEF IInv, RequestOK, RefreshRead
    <2>2. /\ request'[r].pc = "user" /\ request'[r].s = s
          /\ \A p \in Requests \ {r} : request'[p] = request[p]
      BY <1>2, <2>1, GotoFacts DEF IInv, TypeOK, Steps
    <2>3. \A x \in Session : Admitted(x)' =
            IF x = s THEN Admitted(x) \cup {r} ELSE Admitted(x)
      BY <2>1, <2>2 DEF Admitted, RefreshRead
    <2>4. \A x \in Session : Phase(x)' = Phase(x)
      BY PhaseFrame DEF RefreshRead
    <2>6. Phase(s) = "open"
      BY <1>2, <2>1 DEF Phase
    <2>7. Ledger!Admit(s, r)
      BY <2>1, <2>3, <2>4, <2>6 DEF Ledger!Admit
    <2> QED
      BY <2>1, <2>7 DEF Ledger!Next
  <1> QED
    BY <1>1, <1>2 DEF RefreshRead

LEMMA LedgerOpen ==
  ASSUME IInv, NEW r \in Requests, CreateSet(r)
  PROVE  Ledger!Next
  <1>1. PICK s \in Session : s = request[r].s /\ last[s] = 0
    BY DEF IInv, RequestOK, CreateSet
  <1>2. Phase(s) = "none"
    BY <1>1 DEF Phase, IInv, SessionOK
  <1>3. /\ store'[s].jti = 1
        /\ \A x \in Session \ {s} : store'[x] = store[x] /\ last'[x] = last[x]
    BY <1>1 DEF CreateSet, IInv, TypeOK
  <1>4. \A x \in Session : Phase(x)' = IF x = s THEN "open" ELSE Phase(x)
    BY <1>3 DEF Phase, Live
  <1>5. /\ request'[r].pc = "sadd"
        /\ \A p \in Requests \ {r} : request'[p] = request[p]
    BY GotoFacts DEF CreateSet, IInv, TypeOK, Steps
  <1>6. \A x \in Session : Admitted(x)' = Admitted(x)
    BY <1>5, AdmittedFrame DEF Exchanging, CreateSet
  <1>7. Ledger!Open(s)
    BY <1>2, <1>4, <1>6 DEF Ledger!Open
  <1> QED
    BY <1>7 DEF Ledger!Next

LEMMA LedgerExchange ==
  ASSUME IInv, NEW r \in Requests, RotateWrite(r)
  PROVE  Ledger!Next
  <1>1. PICK s \in Session : s = request[r].s
    BY DEF IInv, RequestOK, RotateWrite
  <1>2. last[s] \in Nat
    BY DEF IInv, TypeOK
  <1>3. /\ store'[s].jti = last[s] + 1
        /\ \A x \in Session \ {s} : store'[x] = store[x] /\ last'[x] = last[x]
    BY <1>1 DEF RotateWrite, IInv, TypeOK
  <1>4. \A x \in Session : Phase(x)' = IF x = s THEN "open" ELSE Phase(x)
    BY <1>2, <1>3 DEF Phase, Live
  <1>5. /\ request'[r].pc = "answer"
        /\ \A p \in Requests \ {r} : request'[p] = request[p]
    BY GotoFacts DEF RotateWrite, IInv, TypeOK, Steps
  <1>6. r \in Admitted(s) /\ \A x \in Session : Admitted(x)' =
          IF x = s THEN Admitted(x) \ {r} ELSE Admitted(x)
    BY <1>1, <1>5 DEF RotateWrite, Admitted
  <1>7. Ledger!Exchange(s, r)
    BY <1>4, <1>6 DEF Ledger!Exchange
  <1> QED
    BY <1>7 DEF Ledger!Next

LEMMA LedgerEnd ==
  ASSUME IInv, NEW r \in Requests, RevokeDelete(r)
  PROVE  Ledger!Next
  <1>1. PICK s \in Session : s = request[r].s
    BY DEF IInv, RequestOK, RevokeDelete
  <1>2. /\ store'[s] = Missing
        /\ \A x \in Session \ {s} : store'[x] = store[x]
        /\ last' = last
    BY <1>1 DEF RevokeDelete, Delete, IInv, TypeOK
  <1>3. \A x \in Session : Phase(x)' =
          IF x = s /\ Live(s) THEN "ended" ELSE Phase(x)
    BY <1>2 DEF Phase, Live, Missing, IInv, SessionOK
  <1>4. /\ request'[r].pc \in {"srem", "revoked"}
        /\ \A p \in Requests \ {r} : request'[p] = request[p]
    BY GotoFacts DEF RevokeDelete, IInv, TypeOK, Steps
  <1>5. \A x \in Session : Admitted(x)' = Admitted(x)
    BY <1>4, AdmittedFrame DEF Exchanging, RevokeDelete
  <1>6. CASE Live(s)
    <2>1. Phase(s) = "open"
      BY <1>6 DEF Phase
    <2>2. Ledger!End(s)
      BY <1>3, <1>5, <1>6, <2>1 DEF Ledger!End
    <2> QED
      BY <2>2 DEF Ledger!Next
  <1>7. CASE ~Live(s)
    BY <1>3, <1>5, <1>7, AbandonStep
  <1> QED
    BY <1>6, <1>7

LEMMA LedgerLapse ==
  ASSUME IInv, Tick
  PROVE  Ledger!Next
  <1> DEFINE S == {s \in Session : store[s].ttl = 1}
  <1>1. ASSUME NEW s \in Session
        PROVE  /\ s \in S => Phase(s) = "open" /\ Phase(s)' = "ended"
               /\ s \notin S => Phase(s)' = Phase(s)
    <2>1. store[s] \in [jti : Nat, ttl : Int] /\ SessionOK(s)
      BY DEF IInv, TypeOK
    <2>2. last'[s] = last[s] /\ store'[s].jti =
            IF store[s].ttl = 1 THEN 0 ELSE store[s].jti
      BY <2>1 DEF Tick, Missing
    <2> QED
      BY <2>1, <2>2 DEF Phase, Live, SessionOK
  <1>2. \A s \in Session : Admitted(s)' = Admitted(s)
    BY DEF Admitted, Tick
  <1> HIDE DEF S
  <1>3. S \in SUBSET {s \in Session : Phase(s) = "open"}
    BY <1>1 DEF S
  <1>4. Ledger!Lapse
    BY <1>1, <1>2, <1>3 DEF Ledger!Lapse
  <1> QED
    BY <1>4 DEF Ledger!Next

LEMMA LedgerWork ==
  ASSUME IInv, NEW r \in Requests, Work(r) \/ Answer(r) \/ Revoked(r)
  PROVE  Ledger!Next
  <1>1. /\ "expire" \in Steps \ Exchanging /\ "answer" \in Steps \ Exchanging
        /\ "lookup" \in Steps \ Exchanging /\ "revoked" \in Steps \ Exchanging
        /\ "idle" \in Steps \ Exchanging
    BY DEF Steps, Exchanging
  <1>2. CASE CreateIndex(r) \/ CreateExpire(r) \/ RevokeCheck(r)
             \/ RevokeUnlist(r) \/ Listed(r) \/ Answer(r) \/ Revoked(r)
    BY <1>1, <1>2, QuietGoto
    DEF CreateIndex, CreateExpire, RevokeCheck, RevokeUnlist, Listed, Answer,
        Revoked
  <1>3. CASE RefreshUser(r)
    BY <1>1, <1>3, QuietGoto, SameExchange DEF RefreshUser, Exchanging
  <1>4. CASE RotateRead(r)
    BY <1>1, <1>4, QuietGoto, SameExchange DEF RotateRead, Exchanging
  <1>5. CASE RevokeLookup(r)
    <2> DEFINE q == [request[r] EXCEPT !.pc = "del",
                                       !.found = Live(request[r].s)]
    <2>1. q.pc \notin Exchanging /\ request' = [request EXCEPT ![r] = q]
      BY <1>5 DEF RevokeLookup, Exchanging, IInv, TypeOK, RequestRecord
    <2> QED
      BY <1>5, <2>1, QuietStep DEF RevokeLookup
  <1>6. ASSUME NEW s \in Session, ListGet(r, s) PROVE Ledger!Next
    <2> DEFINE q == [request[r] EXCEPT
                       !.pc = IF Live(s) THEN "list" ELSE "drop",
                       !.s = IF Live(s) THEN NoSession ELSE s,
                       !.todo = request[r].todo \ {s}]
    <2>1. q.pc \notin Exchanging /\ request' = [request EXCEPT ![r] = q]
      BY <1>6 DEF ListGet, Exchanging, IInv, TypeOK, RequestRecord
    <2> QED
      BY <1>6, <2>1, QuietStep DEF ListGet
  <1>7. CASE ListDrop(r)
    <2> DEFINE q == [request[r] EXCEPT !.pc = "list", !.s = NoSession]
    <2>1. q.pc \notin Exchanging /\ request' = [request EXCEPT ![r] = q]
      BY <1>7 DEF ListDrop, Exchanging, IInv, TypeOK, RequestRecord
    <2> QED
      BY <1>7, <2>1, QuietStep DEF ListDrop
  <1> QED
    BY <1>2, <1>3, <1>4, <1>5, <1>6, <1>7, LedgerRead, LedgerOpen,
       LedgerExchange, LedgerEnd DEF Work

\* The steps of the store are steps of the ledger.
LEMMA LedgerStep == IInv /\ [Next]_vars => [Ledger!Next]_(Ledger!vars)
  <1> SUFFICES ASSUME IInv, [Next]_vars PROVE [Ledger!Next]_(Ledger!vars)
    OBVIOUS
  <1>1. ASSUME NEW r \in Requests, Start(r) \/ Work(r) \/ Answer(r) \/ Revoked(r)
        PROVE  Ledger!Next
    BY <1>1, LedgerStart, LedgerWork
  <1>2. CASE Crash
    <2>1. \A s \in Session : Admitted(s)' \subseteq Admitted(s)
      BY <1>2 DEF Crash, Admitted, Idle
    <2> QED
      BY <1>2, <2>1, PhaseFrame, AbandonStep DEF Crash
  <1>3. CASE UNCHANGED vars
    BY <1>3 DEF vars, Ledger!vars, Phase, Admitted, Live
  <1> QED
    BY <1>1, <1>2, <1>3, LedgerLapse DEF Next

\* The store implements the ledger: a session that has ended is open again
\* only through an exchange that was admitted while it was open.
THEOREM LedgerThm == Spec => LedgerSpec
  <1>1. Init => Ledger!Init
    BY DEF Init, Ledger!Init, Phase, Admitted, Live, Missing, Idle
  <1> QED
    BY <1>1, LedgerStep, InvariantThm, PTL DEF Spec, Ledger!Spec, LedgerSpec

-----------------------------------------------------------------------------
(* The browser in front of the sessions: WebSession.                       *)

\* A tab's request signs in or signs out; it is of a session by then.
SigningIn(r) == tab[r] # NoTab /\ request[r].pc \in {"set", "sadd", "expire", "answer"}
SigningOut(r) == tab[r] # NoTab /\ request[r].pc \in {"lookup", "del", "srem", "revoked"}

WebTypeOK ==
  /\ tab \in [Requests -> Tabs \cup {NoTab}]
  /\ cookie \in [s : Session \cup {NoSession}, access : Nat, refresh : Nat]
  /\ cookie.access > 0 => cookie.s \in Session
  /\ signedOut \subseteq Session

Awaited == \A r \in Requests : tab[r] # NoTab => SigningIn(r) \/ SigningOut(r)

\* A session that is being opened is nobody else's yet.
OpenedAlone ==
  \A r \in Requests : SigningIn(r) =>
    /\ request[r].s # cookie.s /\ request[r].s \notin signedOut
    /\ \A q \in Requests \ {r} : tab[q] # NoTab => request[q].s # request[r].s

\* What the browser has a cookie of or signs out of was opened, and signing
\* out of it ends it.
Opened ==
  /\ cookie.s \in Session => last[cookie.s] > 0
  /\ \A r \in Requests : SigningOut(r) =>
       /\ last[request[r].s] > 0
       /\ request[r].pc = "revoked" => request[r].s \in ended

WebInv == WebTypeOK /\ Awaited /\ OpenedAlone /\ Opened /\ SignedOutForGood

\* What a command of a request does, as far as the browser can tell.
LEMMA WorkFacts ==
  ASSUME IInv, NEW r \in Requests, Work(r)
  PROVE  /\ \A p \in Requests \ {r} : request'[p] = request[p]
         /\ \A s \in Session : last[s] > 0 => last'[s] > 0
         /\ ended \subseteq ended'
         /\ request[r].pc \notin {"answer", "revoked"}
         /\ request[r].pc \in {"set", "sadd", "expire"} =>
              /\ request'[r].pc \in {"sadd", "expire", "answer"}
              /\ request'[r].s = request[r].s
         /\ request[r].pc \in {"lookup", "del", "srem"} =>
              /\ request'[r].pc \in {"del", "srem", "revoked"}
              /\ request'[r].s = request[r].s
              /\ last[request[r].s] > 0 /\ request'[r].pc = "revoked" => request[r].s \in ended'
<1>0. /\ request \in [Requests -> RequestRecord] /\ last \in [Session -> Nat]
      /\ request[r] \in RequestRecord
      /\ request[r].pc \notin {"idle", "list"} => request[r].s \in Session
  BY DEF IInv, TypeOK, RequestOK
<1>1. CASE CreateSet(r)
  <2>1. Goto(r, "sadd") /\ "sadd" \in Steps /\ request[r].pc = "set"
    BY <1>1 DEF CreateSet, Steps
  <2>2. \A s \in Session : last[s] > 0 => last'[s] > 0
    BY <1>0, <1>1 DEF CreateSet
  <2>3. ended' = ended
    BY <1>1 DEF CreateSet
  <2> QED  BY <2>1, <2>2, <2>3, <1>0, GotoFacts
<1>2. CASE CreateIndex(r)
  <2>1. Goto(r, "expire") /\ "expire" \in Steps /\ request[r].pc = "sadd"
    BY <1>2 DEF CreateIndex, Steps
  <2>2. ended' = ended /\ last' = last
    BY <1>2 DEF CreateIndex
  <2> QED  BY <2>1, <2>2, <1>0, GotoFacts
<1>3. CASE CreateExpire(r)
  <2>1. Goto(r, "answer") /\ "answer" \in Steps /\ request[r].pc = "expire"
    BY <1>3 DEF CreateExpire, Steps
  <2>2. ended' = ended /\ last' = last
    BY <1>3 DEF CreateExpire
  <2> QED  BY <2>1, <2>2, <1>0, GotoFacts
<1>4. CASE RotateWrite(r)
  <2>1. Goto(r, "answer") /\ "answer" \in Steps /\ request[r].pc = "write"
    BY <1>4 DEF RotateWrite, Steps
  <2>2. \A s \in Session : last[s] > 0 => last'[s] > 0
    BY <1>0, <1>4 DEF RotateWrite
  <2>3. ended' = ended
    BY <1>4 DEF RotateWrite
  <2> QED  BY <2>1, <2>2, <2>3, <1>0, GotoFacts
<1>5. CASE RefreshRead(r) \/ RefreshUser(r) \/ RotateRead(r) \/ RevokeCheck(r)
  <2>1. ended' = ended /\ last' = last
    BY <1>5 DEF RefreshRead, RefreshUser, RotateRead, RevokeCheck
  <2>2. request[r].pc \in {"read", "user", "reread", "check"}
    BY <1>5 DEF RefreshRead, RefreshUser, RotateRead, RevokeCheck
  <2>3. \E q : request' = [request EXCEPT ![r] = q]
    BY <1>5 DEF RefreshRead, RefreshUser, RotateRead, RevokeCheck, Goto, Finish
  <2> QED  BY <2>1, <2>2, <2>3, <1>0
<1>6. CASE RevokeLookup(r)
  <2> PICK q : q = [request[r] EXCEPT !.pc = "del", !.found = Live(request[r].s)]
    OBVIOUS
  <2>1. q.pc = "del" /\ q.s = request[r].s
    BY <1>0 DEF RequestRecord
  <2>2. request' = [request EXCEPT ![r] = q] /\ request[r].pc = "lookup"
    BY <1>6 DEF RevokeLookup
  <2>3. request'[r] = q /\ \A p \in Requests \ {r} : request'[p] = request[p]
    BY <2>2, <1>0
  <2>4. ended' = ended /\ last' = last
    BY <1>6 DEF RevokeLookup
  <2> QED  BY <2>1, <2>2, <2>3, <2>4
<1>7. CASE RevokeDelete(r)
  <2> PICK pc : pc = IF request[r].found THEN "srem" ELSE "revoked"
    OBVIOUS
  <2>1. Goto(r, pc) /\ pc \in Steps /\ pc \in {"srem", "revoked"} /\ request[r].pc = "del"
    BY <1>7 DEF RevokeDelete, Steps
  <2>2. last' = last /\ ended' = ended \cup {s \in {request[r].s} : Live(s)}
    BY <1>7 DEF RevokeDelete, Delete
  <2>3. last[request[r].s] > 0 => request[r].s \in ended'
    <3>1. SessionOK(request[r].s)
      BY <2>1, <1>0 DEF IInv
    <3> QED  BY <3>1, <2>2 DEF SessionOK
  <2> QED  BY <2>1, <2>2, <2>3, <1>0, GotoFacts
<1>8. CASE RevokeUnlist(r)
  <2>1. Goto(r, "revoked") /\ "revoked" \in Steps /\ request[r].pc = "srem"
    BY <1>8 DEF RevokeUnlist, Steps
  <2>2. ended' = ended /\ last' = last
    BY <1>8 DEF RevokeUnlist
  <2>3. request[r].s \in ended
    BY <2>1 DEF IInv, RequestOK
  <2> QED  BY <2>1, <2>2, <2>3, <1>0, GotoFacts
<1>9. CASE (\E s \in Session : ListGet(r, s)) \/ ListDrop(r) \/ Listed(r)
  <2>1. ended' = ended /\ last' = last
    BY <1>9 DEF ListGet, ListDrop, Listed
  <2>2. request[r].pc \in {"list", "drop"}
    BY <1>9 DEF ListGet, ListDrop, Listed
  <2>3. \E q : request' = [request EXCEPT ![r] = q]
    BY <1>9 DEF ListGet, ListDrop, Listed, Finish
  <2> QED  BY <2>1, <2>2, <2>3, <1>0
<1> QED  BY <1>1, <1>2, <1>3, <1>4, <1>5, <1>6, <1>7, <1>8, <1>9 DEF Work

\* A step of a request that no tab awaits.
LEMMA OthersKeep ==
  ASSUME WebInv, NEW r \in Requests, tab[r] = NoTab,
         \A p \in Requests \ {r} : request'[p] = request[p],
         \A s \in Session : last[s] > 0 => last'[s] > 0,
         \A p \in Requests : SigningOut(p) => request[p].s \in Session,
         ended \subseteq ended', UNCHANGED web
  PROVE  WebInv'
<1>0. \A p \in Requests : tab[p] # NoTab => request'[p] = request[p]
  OBVIOUS
<1>a. UNCHANGED <<cookie, tab, signedOut>>
  BY DEF web
<1>b. \A p \in Requests : (SigningIn(p)' <=> SigningIn(p)) /\ (SigningOut(p)' <=> SigningOut(p))
  BY <1>0, <1>a DEF SigningIn, SigningOut
<1>c. \A p \in Requests : SigningIn(p) \/ SigningOut(p) => tab[p] # NoTab
  BY DEF SigningIn, SigningOut
<1>1. WebTypeOK'
  BY <1>a DEF WebInv, WebTypeOK
<1>2. Awaited'
  BY <1>a, <1>b DEF WebInv, Awaited
<1>3. OpenedAlone'
  BY <1>0, <1>a, <1>b, <1>c DEF WebInv, OpenedAlone
<1>4. Opened'
  BY <1>0, <1>a, <1>b, <1>c DEF WebInv, Opened
<1>5. SignedOutForGood'
  BY <1>a DEF WebInv, SignedOutForGood
<1> QED  BY <1>1, <1>2, <1>3, <1>4, <1>5 DEF WebInv

LEMMA SessionsOfTabs ==
  ASSUME IInv, NEW r \in Requests, SigningIn(r) \/ SigningOut(r)
  PROVE  request[r].s \in Session /\ request[r].pc # "idle"
BY DEF IInv, RequestOK, SigningIn, SigningOut

LEMMA OtherClientKeeps ==
  ASSUME IInv, WebInv, NEW r \in Requests, OtherClient(r)
  PROVE  WebInv'
<1>0. \A p \in Requests : SigningOut(p) => request[p].s \in Session
  BY SessionsOfTabs
<1>1. UNCHANGED web
  BY DEF OtherClient
<1>2. UNCHANGED <<last, ended>>
  BY DEF OtherClient, Start, Login, Refresh, Logout, List, RevokeSession, Answer, Revoked
<1>3. tab[r] = NoTab
  <2>1. CASE Start(r)
    <3>1. request[r].pc = "idle"
      BY <2>1 DEF Start, Login, Refresh, Logout, List, RevokeSession
    <3>2. ~(SigningIn(r) \/ SigningOut(r))
      BY <3>1, SessionsOfTabs
    <3> QED  BY <3>2 DEF WebInv, Awaited
  <2> QED  BY <2>1 DEF OtherClient
<1>4. \E q : request' = [request EXCEPT ![r] = q]
  BY DEF OtherClient, Start, Login, Refresh, Logout, List, RevokeSession, Answer,
     Revoked, Finish
<1>5. \A p \in Requests \ {r} : request'[p] = request[p]
  BY <1>4 DEF IInv, TypeOK
<1> QED  BY <1>0, <1>1, <1>2, <1>3, <1>5, OthersKeep

\* A command of a request, awaited by a tab or not.
LEMMA ServerKeeps ==
  ASSUME IInv, WebInv, NEW r \in Requests, Server(r)
  PROVE  WebInv'
<1>0. \A p \in Requests : SigningIn(p) \/ SigningOut(p) => request[p].s \in Session
  BY SessionsOfTabs
<1>1. Work(r) /\ UNCHANGED web
  BY DEF Server
<1>2. CASE tab[r] = NoTab
  BY <1>0, <1>1, <1>2, WorkFacts, OthersKeep
<1>3. CASE tab[r] # NoTab
  <2>1. UNCHANGED <<cookie, tab, signedOut>>
    BY <1>1 DEF web
  <2>2. \A p \in Requests \ {r} : request'[p] = request[p]
    BY <1>1, WorkFacts
  <2>3. SigningIn(r) \/ SigningOut(r)
    BY <1>3 DEF WebInv, Awaited
  <2>4. /\ SigningIn(r) => request[r].pc \in {"set", "sadd", "expire"}
        /\ SigningOut(r) => request[r].pc \in {"lookup", "del", "srem"}
    BY <1>1, WorkFacts DEF SigningIn, SigningOut
  <2>5. request'[r].s = request[r].s
    BY <1>1, <2>3, <2>4, WorkFacts
  <2>6. (SigningIn(r) => SigningIn(r)') /\ (SigningOut(r) => SigningOut(r)')
    BY <1>1, <1>3, <2>1, <2>4, WorkFacts DEF SigningIn, SigningOut
  <2>7. ~(SigningIn(r)' /\ SigningOut(r)')
    BY DEF SigningIn, SigningOut
  <2>8. \A p \in Requests : (SigningIn(p)' <=> SigningIn(p)) /\ (SigningOut(p)' <=> SigningOut(p))
    <3> SUFFICES ASSUME NEW p \in Requests
                 PROVE  (SigningIn(p)' <=> SigningIn(p)) /\ (SigningOut(p)' <=> SigningOut(p))
      OBVIOUS
    <3>1. CASE p = r
      BY <3>1, <2>3, <2>6, <2>7
    <3>2. CASE p # r
      BY <3>2, <2>1, <2>2 DEF SigningIn, SigningOut
    <3> QED  BY <3>1, <3>2
  <2>9. \A p \in Requests : request'[p].s = request[p].s
    BY <2>2, <2>5
  <2>10. WebTypeOK'
    BY <2>1 DEF WebInv, WebTypeOK
  <2>11. Awaited'
    BY <2>1, <2>8 DEF WebInv, Awaited
  <2>12. OpenedAlone'
    BY <2>1, <2>8, <2>9 DEF WebInv, OpenedAlone
  <2>13. Opened'
    <3>1. cookie'.s \in Session => last'[cookie'.s] > 0
      BY <1>1, <2>1, WorkFacts DEF WebInv, Opened
    <3>2. ASSUME NEW p \in Requests, SigningOut(p)'
          PROVE  /\ last'[request'[p].s] > 0
                 /\ request'[p].pc = "revoked" => request'[p].s \in ended'
      <4>1. SigningOut(p) /\ request[p].s \in Session /\ request'[p].s = request[p].s
        BY <3>2, <2>8, <2>9, <1>0
      <4>2. last[request[p].s] > 0 /\ (request[p].pc = "revoked" => request[p].s \in ended)
        BY <4>1 DEF WebInv, Opened
      <4>3. last'[request[p].s] > 0
        BY <4>1, <4>2, <1>1, WorkFacts
      <4>4. CASE p = r
        <5>1. request[r].pc \in {"lookup", "del", "srem"}
          BY <4>1, <4>4, <2>4
        <5>2. request'[r].pc = "revoked" => request[r].s \in ended'
          BY <5>1, <4>2, <4>4, <1>1, WorkFacts
        <5> QED  BY <4>1, <4>3, <4>4, <5>2
      <4>5. CASE p # r
        <5>1. request'[p] = request[p] /\ ended \subseteq ended'
          BY <4>5, <2>2, <1>1, WorkFacts
        <5> QED  BY <5>1, <4>1, <4>2, <4>3
      <4> QED  BY <4>4, <4>5
    <3> QED  BY <3>1, <3>2 DEF Opened
  <2>14. SignedOutForGood'
    BY <1>1, <2>1, WorkFacts DEF WebInv, SignedOutForGood
  <2> QED  BY <2>10, <2>11, <2>12, <2>13, <2>14 DEF WebInv
<1> QED  BY <1>2, <1>3

LEMMA SubmitLoginKeeps ==
  ASSUME IInv, WebInv, NEW t \in Tabs, NEW r \in Requests, NEW u \in Users, NEW s \in Session,
         SubmitLogin(t, r, u, s)
  PROVE  WebInv'
<1> PICK q : q = [Idle EXCEPT !.pc = "set", !.s = s, !.u = u]
  OBVIOUS
<1>1. q.pc = "set" /\ q.s = s
  BY DEF Idle
<1>2. request' = [request EXCEPT ![r] = q] /\ tab' = [tab EXCEPT ![r] = t]
  BY DEF SubmitLogin, Login
<1>3. request'[r] = q /\ \A p \in Requests \ {r} : request'[p] = request[p]
  BY <1>2 DEF IInv, TypeOK
<1>4. /\ tab'[r] = t /\ (\A p \in Requests \ {r} : tab'[p] = tab[p])
      /\ tab' \in [Requests -> Tabs \cup {NoTab}]
  BY <1>2 DEF WebInv, WebTypeOK
<1>5. UNCHANGED <<cookie, signedOut, last, ended>>
  BY DEF SubmitLogin, Login
<1>6. t # NoTab
  BY WebAssumption
<1>7. /\ SigningIn(r)' /\ ~SigningOut(r)'
      /\ \A p \in Requests \ {r} : (SigningIn(p)' <=> SigningIn(p)) /\ (SigningOut(p)' <=> SigningOut(p))
  BY <1>1, <1>3, <1>4, <1>6 DEF SigningIn, SigningOut
<1>8. last[s] = 0 /\ \A p \in Requests : request[p].s # s
  BY DEF SubmitLogin, Login
<1>9. s # cookie.s /\ s \notin signedOut
  <2>1. s \notin ended
    BY <1>8 DEF IInv, SessionOK
  <2> QED  BY <2>1, <1>8 DEF WebInv, Opened, SignedOutForGood
<1>10. WebTypeOK'
  BY <1>4, <1>5 DEF WebInv, WebTypeOK
<1>11. Awaited'
  BY <1>4, <1>7 DEF WebInv, Awaited
<1>12. OpenedAlone'
  <2> SUFFICES ASSUME NEW p \in Requests, SigningIn(p)'
               PROVE  /\ request'[p].s # cookie'.s /\ request'[p].s \notin signedOut'
                      /\ \A o \in Requests \ {p} : tab'[o] # NoTab => request'[o].s # request'[p].s
    BY DEF OpenedAlone
  <2>1. CASE p = r
    <3>1. request'[p].s = s
      BY <2>1, <1>1, <1>3
    <3>2. \A o \in Requests \ {p} : request'[o].s # s
      BY <2>1, <1>3, <1>8
    <3> QED  BY <3>1, <3>2, <1>5, <1>9
  <2>2. CASE p # r
    <3>1. SigningIn(p) /\ request'[p] = request[p] /\ request[p].s # s
      BY <2>2, <1>3, <1>7, <1>8
    <3>2. /\ request[p].s # cookie.s /\ request[p].s \notin signedOut
          /\ \A o \in Requests \ {p} : tab[o] # NoTab => request[o].s # request[p].s
      BY <3>1 DEF WebInv, OpenedAlone
    <3>3. ASSUME NEW o \in Requests \ {p}, tab'[o] # NoTab
          PROVE  request'[o].s # request[p].s
      <4>1. CASE o = r
        BY <4>1, <3>1, <1>1, <1>3
      <4>2. CASE o # r
        BY <4>2, <3>2, <3>3, <1>3, <1>4
      <4> QED  BY <4>1, <4>2
    <3> QED  BY <3>1, <3>2, <3>3, <1>5
  <2> QED  BY <2>1, <2>2
<1>13. Opened'
  BY <1>3, <1>5, <1>7 DEF WebInv, Opened
<1>14. SignedOutForGood'
  BY <1>5 DEF WebInv, SignedOutForGood
<1> QED  BY <1>10, <1>11, <1>12, <1>13, <1>14 DEF WebInv

\* An answer that reaches its tab.
LEMMA AnswerFrees ==
  ASSUME IInv, WebInv, NEW r \in Requests, Finish(r), tab' = [tab EXCEPT ![r] = NoTab]
  PROVE  /\ tab' \in [Requests -> Tabs \cup {NoTab}]
         /\ ~SigningIn(r)' /\ ~SigningOut(r)' /\ tab'[r] = NoTab
         /\ \A p \in Requests \ {r} :
              /\ request'[p] = request[p] /\ tab'[p] = tab[p]
              /\ (SigningIn(p)' <=> SigningIn(p)) /\ (SigningOut(p)' <=> SigningOut(p))
<1>1. tab'[r] = NoTab /\ tab' \in [Requests -> Tabs \cup {NoTab}]
  BY DEF WebInv, WebTypeOK
<1>2. \A p \in Requests \ {r} : tab'[p] = tab[p] /\ request'[p] = request[p]
  BY DEF WebInv, WebTypeOK, Finish, IInv, TypeOK
<1> QED  BY <1>1, <1>2 DEF SigningIn, SigningOut

LEMMA LoginAnsweredKeeps ==
  ASSUME IInv, WebInv, NEW r \in Requests, LoginAnswered(r)
  PROVE  WebInv'
<1>1. Finish(r) /\ tab' = [tab EXCEPT ![r] = NoTab] /\ UNCHANGED <<last, ended, signedOut>>
  BY DEF LoginAnswered, Answer
<1>2. SigningIn(r) /\ request[r].pc = "answer"
  BY DEF LoginAnswered, Answer, SigningIn
<1>3. request[r].s \in Session /\ last[request[r].s] > 0
  BY <1>2, SessionsOfTabs DEF IInv, RequestOK
<1> PICK s \in Session : s = request[r].s
  BY <1>3
<1>4. cookie' = [s |-> s, access |-> AccessTtl, refresh |-> RefreshAge]
  BY DEF LoginAnswered
<1>5. /\ cookie'.s = s
      /\ cookie' \in [s : Session \cup {NoSession}, access : Nat, refresh : Nat]
  BY <1>4, WebAssumption
<1>6. s \notin signedOut /\ \A q \in Requests \ {r} : tab[q] # NoTab => request[q].s # s
  BY <1>2 DEF WebInv, OpenedAlone
<1>7. WebTypeOK'
  BY <1>1, <1>5, AnswerFrees DEF WebInv, WebTypeOK
<1>8. Awaited'
  BY <1>1, AnswerFrees DEF WebInv, Awaited
<1>9. OpenedAlone'
  <2> SUFFICES ASSUME NEW p \in Requests, SigningIn(p)'
               PROVE  /\ request'[p].s # cookie'.s /\ request'[p].s \notin signedOut'
                      /\ \A q \in Requests \ {p} : tab'[q] # NoTab => request'[q].s # request'[p].s
    BY DEF OpenedAlone
  <2>1. p # r /\ SigningIn(p) /\ request'[p] = request[p] /\ tab[p] # NoTab
    BY <1>1, AnswerFrees DEF SigningIn
  <2>2. \A q \in Requests : tab'[q] # NoTab => q # r /\ request'[q] = request[q] /\ tab[q] # NoTab
    BY <1>1, AnswerFrees
  <2> QED  BY <2>1, <2>2, <1>1, <1>5, <1>6 DEF WebInv, OpenedAlone
<1>10. Opened'
  <2>1. last'[cookie'.s] > 0
    BY <1>1, <1>3, <1>5
  <2> QED  BY <2>1, <1>1, AnswerFrees DEF WebInv, Opened
<1>11. SignedOutForGood'
  BY <1>1, <1>5, <1>6 DEF WebInv, SignedOutForGood
<1> QED  BY <1>7, <1>8, <1>9, <1>10, <1>11 DEF WebInv

LEMMA SignOutKeeps ==
  ASSUME IInv, WebInv, NEW t \in Tabs, NEW r \in Requests, SignOut(t, r)
  PROVE  WebInv'
<1>0. cookie.s \in Session
  BY DEF SignOut, WebInv, WebTypeOK
<1> PICK s \in Session : s = cookie.s
  BY <1>0
<1> PICK q : q = At("lookup", s)
  OBVIOUS
<1>1. q.pc = "lookup" /\ q.s = s
  BY DEF Idle, At
<1>2. request' = [request EXCEPT ![r] = q] /\ tab' = [tab EXCEPT ![r] = t]
  BY DEF SignOut, Logout
<1>3. request'[r] = q /\ \A p \in Requests \ {r} : request'[p] = request[p]
  BY <1>2 DEF IInv, TypeOK
<1>4. /\ tab'[r] = t /\ (\A p \in Requests \ {r} : tab'[p] = tab[p])
      /\ tab' \in [Requests -> Tabs \cup {NoTab}]
  BY <1>2 DEF WebInv, WebTypeOK
<1>5. UNCHANGED <<cookie, signedOut, last, ended>>
  BY DEF SignOut, Logout
<1>6. t # NoTab
  BY WebAssumption
<1>7. /\ SigningOut(r)' /\ ~SigningIn(r)'
      /\ \A p \in Requests \ {r} : (SigningIn(p)' <=> SigningIn(p)) /\ (SigningOut(p)' <=> SigningOut(p))
  BY <1>1, <1>3, <1>4, <1>6 DEF SigningIn, SigningOut
<1>8. last[s] > 0
  BY DEF WebInv, Opened
<1>10. WebTypeOK'
  BY <1>4, <1>5 DEF WebInv, WebTypeOK
<1>11. Awaited'
  BY <1>4, <1>7 DEF WebInv, Awaited
<1>12. OpenedAlone'
  BY <1>1, <1>3, <1>4, <1>5, <1>7 DEF WebInv, OpenedAlone
<1>13. Opened'
  BY <1>1, <1>3, <1>5, <1>7, <1>8 DEF WebInv, Opened
<1>14. SignedOutForGood'
  BY <1>5 DEF WebInv, SignedOutForGood
<1> QED  BY <1>10, <1>11, <1>12, <1>13, <1>14 DEF WebInv

LEMMA SignOutAnsweredKeeps ==
  ASSUME IInv, WebInv, NEW r \in Requests, SignOutAnswered(r)
  PROVE  WebInv'
<1>1. Finish(r) /\ tab' = [tab EXCEPT ![r] = NoTab] /\ UNCHANGED <<last, ended>>
  BY DEF SignOutAnswered, Revoked
<1>2. SigningOut(r) /\ request[r].pc = "revoked"
  BY DEF SignOutAnswered, Revoked, SigningOut
<1>3. request[r].s \in Session /\ request[r].s \in ended
  BY <1>2, SessionsOfTabs DEF WebInv, Opened
<1> PICK s \in Session : s = request[r].s
  BY <1>3
<1>4. cookie' = NoCookie /\ signedOut' = signedOut \cup {s}
  BY DEF SignOutAnswered
<1>5. /\ cookie'.s = NoSession /\ cookie'.access = 0 /\ NoSession \notin Session
      /\ cookie' \in [s : Session \cup {NoSession}, access : Nat, refresh : Nat]
  BY <1>4, SessionsAssumption DEF NoCookie
<1>6. \A p \in Requests : SigningIn(p) => request[p].s # s
  BY <1>2 DEF WebInv, OpenedAlone, SigningOut, SigningIn
<1>7. WebTypeOK'
  BY <1>1, <1>4, <1>5, AnswerFrees DEF WebInv, WebTypeOK
<1>8. Awaited'
  BY <1>1, AnswerFrees DEF WebInv, Awaited
<1>9. OpenedAlone'
  <2> SUFFICES ASSUME NEW p \in Requests, SigningIn(p)'
               PROVE  /\ request'[p].s # cookie'.s /\ request'[p].s \notin signedOut'
                      /\ \A q \in Requests \ {p} : tab'[q] # NoTab => request'[q].s # request'[p].s
    BY DEF OpenedAlone
  <2>1. p # r /\ SigningIn(p) /\ request'[p] = request[p] /\ request[p].s \in Session
    BY <1>1, AnswerFrees, SessionsOfTabs
  <2>2. \A q \in Requests : tab'[q] # NoTab => q # r /\ request'[q] = request[q] /\ tab[q] # NoTab
    BY <1>1, AnswerFrees
  <2> QED  BY <2>1, <2>2, <1>4, <1>5, <1>6 DEF WebInv, OpenedAlone
<1>10. Opened'
  BY <1>1, <1>5, AnswerFrees DEF WebInv, Opened
<1>11. SignedOutForGood'
  <2> SUFFICES ASSUME NEW x \in signedOut'  PROVE x \in ended' /\ cookie'.s # x
    BY DEF SignedOutForGood
  <2>1. x \in Session /\ x \in ended
    BY <1>3, <1>4 DEF WebInv, WebTypeOK, SignedOutForGood
  <2> QED  BY <2>1, <1>1, <1>5
<1> QED  BY <1>7, <1>8, <1>9, <1>10, <1>11 DEF WebInv

LEMMA WebTickKeeps ==
  ASSUME IInv, WebInv, WebTick
  PROVE  WebInv'
<1>a. PICK a : a = IF cookie.access > 0 THEN cookie.access - 1 ELSE 0
  OBVIOUS
<1>b. PICK b : b = IF cookie.refresh > 0 THEN cookie.refresh - 1 ELSE 0
  OBVIOUS
<1>c. /\ cookie \in [s : Session \cup {NoSession}, access : Nat, refresh : Nat]
      /\ cookie.access > 0 => cookie.s \in Session
  BY DEF WebInv, WebTypeOK
<1>d. a \in Nat /\ b \in Nat /\ (a > 0 => cookie.access > 0)
  BY <1>a, <1>b, <1>c
<1>e. cookie' = NoCookie \/ cookie' = [cookie EXCEPT !.access = a, !.refresh = b]
  BY <1>a, <1>b DEF WebTick
<1>1. /\ cookie' = NoCookie \/ cookie'.s = cookie.s
      /\ cookie' \in [s : Session \cup {NoSession}, access : Nat, refresh : Nat]
      /\ cookie'.access > 0 => cookie'.s \in Session
  <2>1. CASE cookie' = NoCookie
    BY <2>1 DEF NoCookie
  <2>2. CASE cookie' = [cookie EXCEPT !.access = a, !.refresh = b]
    BY <2>2, <1>c, <1>d
  <2> QED  BY <1>e, <2>1, <2>2
<1>2. UNCHANGED <<tab, signedOut, request, last>> /\ ended \subseteq ended'
  BY DEF WebTick, Tick
<1>3. cookie'.s = cookie.s \/ cookie'.s = NoSession
  BY <1>1 DEF NoCookie
<1>4. NoSession \notin Session /\ signedOut \subseteq Session
  BY SessionsAssumption DEF WebInv, WebTypeOK
<1>5. \A p \in Requests : (SigningIn(p)' <=> SigningIn(p)) /\ (SigningOut(p)' <=> SigningOut(p))
  BY <1>2 DEF SigningIn, SigningOut
<1>6. WebTypeOK'
  BY <1>1, <1>2 DEF WebInv, WebTypeOK
<1>7. Awaited'
  BY <1>2, <1>5 DEF WebInv, Awaited
<1>8. OpenedAlone'
  <2>1. \A p \in Requests : SigningIn(p) => request[p].s \in Session
    BY SessionsOfTabs
  <2> QED  BY <2>1, <1>2, <1>3, <1>4, <1>5 DEF WebInv, OpenedAlone
<1>9. Opened'
  BY <1>2, <1>3, <1>4, <1>5 DEF WebInv, Opened
<1>10. SignedOutForGood'
  BY <1>2, <1>3, <1>4 DEF WebInv, SignedOutForGood
<1> QED  BY <1>6, <1>7, <1>8, <1>9, <1>10 DEF WebInv

LEMMA WebCrashKeeps ==
  ASSUME IInv, WebInv, WebCrash
  PROVE  WebInv'
<1>1. UNCHANGED <<cookie, signedOut, last, ended>> /\ tab' = [r \in Requests |-> NoTab]
  BY DEF WebCrash, Crash
<1>2. \A p \in Requests : tab'[p] = NoTab /\ ~SigningIn(p)' /\ ~SigningOut(p)'
  BY <1>1 DEF SigningIn, SigningOut
<1>3. WebTypeOK'
  BY <1>1 DEF WebInv, WebTypeOK
<1>4. Awaited' /\ OpenedAlone'
  BY <1>2 DEF Awaited, OpenedAlone
<1>5. Opened' /\ SignedOutForGood'
  BY <1>1, <1>2 DEF WebInv, Opened, SignedOutForGood
<1> QED  BY <1>3, <1>4, <1>5 DEF WebInv

LEMMA WebStutters ==
  ASSUME WebInv, UNCHANGED <<vars, cookie, tab, signedOut>>
  PROVE  WebInv'
<1>1. UNCHANGED <<cookie, tab, signedOut, request, last, ended>>
  BY DEF vars
<1> QED
  BY <1>1 DEF WebInv, WebTypeOK, Awaited, OpenedAlone, Opened, SignedOutForGood,
     SigningIn, SigningOut

LEMMA WebStarts == WebInit => IInv /\ WebInv
<1> SUFFICES ASSUME WebInit  PROVE IInv /\ WebInv
  OBVIOUS
<1>1. IInv
  BY InitInv DEF WebInit
<1>2. /\ cookie.s = NoSession /\ cookie.access = 0 /\ NoSession \notin Session
      /\ cookie \in [s : Session \cup {NoSession}, access : Nat, refresh : Nat]
  BY SessionsAssumption DEF WebInit, NoCookie
<1>3. \A r \in Requests : tab[r] = NoTab
  BY DEF WebInit
<1>4. WebTypeOK
  BY <1>2 DEF WebInit, WebTypeOK
<1>5. Awaited /\ OpenedAlone /\ Opened /\ SignedOutForGood
  BY <1>2, <1>3 DEF WebInit, Awaited, OpenedAlone, Opened, SignedOutForGood, SigningIn,
     SigningOut
<1> QED  BY <1>1, <1>4, <1>5 DEF WebInv

\* Every step of the web application is one of the server's, or none.
LEMMA WebStepIsServerStep == WebInv /\ [WebNext]_webVars => [Next]_vars
<1> SUFFICES ASSUME WebInv, WebNext  PROVE [Next]_vars
  BY DEF webVars
<1>1. ASSUME NEW t \in Tabs, Visit(t) \/ VisitRoot(t) \/ Follow(t) \/ SignOutRefused(t)
      PROVE  UNCHANGED vars
  BY <1>1 DEF Visit, VisitRoot, Follow, AtLogin, AtApp, SignOutRefused
<1>2. ASSUME NEW t \in Tabs, NEW r \in Requests, SignOut(t, r)
      PROVE  Next
  <2>1. Logout(r, cookie.s) /\ cookie.s \in Session
    BY <1>2 DEF SignOut, WebInv, WebTypeOK
  <2> QED  BY <2>1 DEF Next, Start
<1>3. ASSUME NEW t \in Tabs, NEW r \in Requests, NEW u \in Users, NEW s \in Session,
             SubmitLogin(t, r, u, s)
      PROVE  Next
  <2>1. Login(r, u, s)
    BY <1>3 DEF SubmitLogin
  <2> QED  BY <2>1 DEF Next, Start
<1>4. ASSUME NEW r \in Requests,
             LoginAnswered(r) \/ SignOutAnswered(r) \/ OtherClient(r) \/ Server(r)
      PROVE  Next
  <2>1. Answer(r) \/ Revoked(r) \/ Start(r) \/ Work(r)
    BY <1>4 DEF LoginAnswered, SignOutAnswered, OtherClient, Server
  <2> QED  BY <2>1 DEF Next
<1>5. WebTick \/ WebCrash => Next
  BY DEF WebTick, WebCrash, Next
<1> QED  BY <1>1, <1>2, <1>3, <1>4, <1>5 DEF WebNext

LEMMA WebStepInv == IInv /\ WebInv /\ [WebNext]_webVars => WebInv'
<1> SUFFICES ASSUME IInv, WebInv, [WebNext]_webVars  PROVE WebInv'
  OBVIOUS
<1>1. ASSUME NEW t \in Tabs, Visit(t) \/ VisitRoot(t) \/ Follow(t) \/ SignOutRefused(t)
      PROVE  WebInv'
  <2>1. UNCHANGED <<vars, cookie, tab, signedOut>>
    BY <1>1 DEF Visit, VisitRoot, Follow, AtLogin, AtApp, SignOutRefused
  <2> QED  BY <2>1, WebStutters
<1>2. ASSUME NEW t \in Tabs, NEW r \in Requests, SignOut(t, r)
      PROVE  WebInv'
  BY <1>2, SignOutKeeps
<1>3. ASSUME NEW t \in Tabs, NEW r \in Requests, NEW u \in Users, NEW s \in Session,
             SubmitLogin(t, r, u, s)
      PROVE  WebInv'
  BY <1>3, SubmitLoginKeeps
<1>4. ASSUME NEW r \in Requests,
             LoginAnswered(r) \/ SignOutAnswered(r) \/ OtherClient(r) \/ Server(r)
      PROVE  WebInv'
  BY <1>4, LoginAnsweredKeeps, SignOutAnsweredKeeps, OtherClientKeeps, ServerKeeps
<1>5. WebTick \/ WebCrash => WebInv'
  BY WebTickKeeps, WebCrashKeeps
<1>6. UNCHANGED webVars => WebInv'
  BY WebStutters DEF webVars, web
<1> QED  BY <1>1, <1>2, <1>3, <1>4, <1>5, <1>6 DEF WebNext

\* Composed with the browser, the server does what it does alone: what is proved of
\* Sessions holds behind the proxy too (proxy, session.service).
THEOREM WebImplementsSessions == WebSpec => Spec
<1>1. WebInit => Init
  BY DEF WebInit
<1>2. IInv /\ WebInv /\ [WebNext]_webVars => [Next]_vars /\ IInv' /\ WebInv'
  BY WebStepIsServerStep, WebStepInv, StepInv
<1> QED  BY <1>1, <1>2, WebStarts, PTL DEF WebSpec, Spec

\* A browser that was told it is signed out has no cookie of that session, and the
\* server has ended it, for any tabs, requests and lifetimes (proxy, logout).
THEOREM WebSignOut == WebSpec => []SignedOutForGood
<1>1. IInv /\ WebInv /\ [WebNext]_webVars => IInv' /\ WebInv'
  BY WebStepIsServerStep, WebStepInv, StepInv
<1>2. WebInv => SignedOutForGood
  BY DEF WebInv
<1> QED  BY <1>1, <1>2, WebStarts, PTL DEF WebSpec
=============================================================================
