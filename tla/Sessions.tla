------------------------------ MODULE Sessions ------------------------------
(***************************************************************************)
(* The server-side sessions of the core service: sign-in, refresh, logout, *)
(* the list of a user's sessions and its revoke button, as the Redis       *)
(* commands they send one after the other.  Two requests interleave        *)
(* between any two commands.                                               *)
(*                                                                         *)
(* Time is counted in ticks that are long next to a Redis round trip: a    *)
(* sign-in does not straddle one while it writes its two keys.             *)
(***************************************************************************)
EXTENDS Integers, FiniteSets

CONSTANTS
  Session,      \* session ids
  Users,        \* user ids
  NoSession,    \* "no session"
  NoUser,       \* "no user"
  Requests,     \* requests that are open at the same time
  RefreshTtl,   \* JWT_REFRESH_TTL in ticks
  MaxJti        \* bound: no refresh starts on a session with so many token ids

ASSUME SessionsAssumption ==
  /\ NoSession \notin Session
  /\ NoUser \notin Users
  /\ RefreshTtl \in Nat \ {0}
  /\ MaxJti \in Nat \ {0}

VARIABLES
  store,        \* key session:<id>: the refresh-token id it holds and its TTL
  last,         \* the newest refresh-token id made for each session
  owner,        \* the user a session was created for
  index,        \* key user-sessions:<user>: the ids it lists and its TTL
  handed,       \* sessions whose tokens a client was given
  request,      \* the open requests
  ended         \* history: sessions whose key was deleted or has expired

vars == <<store, last, owner, index, handed, request, ended>>

Forever == -1   \* the TTL of a key that never expires
Missing == [jti |-> 0, ttl |-> 0]
Unlisted == [ids |-> {}, ttl |-> 0]

Idle == [pc |-> "idle", s |-> NoSession, u |-> NoUser, jti |-> 0,
         found |-> FALSE, todo |-> {}]

\* login: set, sadd, expire, answer; refresh: read, user, reread, write,
\* answer; logout and the revoke button: check, lookup, del, srem, revoked;
\* the list: list, drop.
Steps == {"idle", "set", "sadd", "expire", "answer", "read", "user", "reread",
          "write", "check", "lookup", "del", "srem", "revoked", "list", "drop"}

RequestRecord ==
  [pc : Steps, s : Session \cup {NoSession}, u : Users \cup {NoUser},
   jti : Nat, found : BOOLEAN, todo : SUBSET Session]

Live(s) == store[s].jti # 0

Init ==
  /\ store = [s \in Session |-> Missing]
  /\ last = [s \in Session |-> 0]
  /\ owner = [s \in Session |-> NoUser]
  /\ index = [u \in Users |-> Unlisted]
  /\ handed = {}
  /\ request = [r \in Requests |-> Idle]
  /\ ended = {}

\* The request goes on, with the session as all it still needs; it is over.
At(pc, s) == [Idle EXCEPT !.pc = pc, !.s = s]
Goto(r, pc) == request' = [request EXCEPT ![r] = At(pc, request[r].s)]
Finish(r) == request' = [request EXCEPT ![r] = Idle]

\* DEL, and the expiry of the key.
Delete(S) ==
  /\ store' = [s \in Session |-> IF s \in S THEN Missing ELSE store[s]]
  /\ ended' = ended \cup {s \in S : Live(s)}

\* SREM: a set that loses its last member is a missing key.
Unlist(u, s) ==
  LET left == index[u].ids \ {s} IN
  index' = [index EXCEPT ![u] =
              IF left = {} THEN Unlisted ELSE [index[u] EXCEPT !.ids = left]]

-----------------------------------------------------------------------------
(* Sign-in: SessionService.create, then the tokens.                        *)

Login(r, u, s) ==
  /\ request[r].pc = "idle"
  /\ last[s] = 0
  /\ \A q \in Requests : request[q].s # s
  /\ request' = [request EXCEPT ![r] =
                   [Idle EXCEPT !.pc = "set", !.s = s, !.u = u]]
  /\ UNCHANGED <<store, last, owner, index, handed, ended>>

CreateSet(r) ==
  LET s == request[r].s IN
  /\ request[r].pc = "set"
  /\ store' = [store EXCEPT ![s] = [jti |-> 1, ttl |-> RefreshTtl]]
  /\ last' = [last EXCEPT ![s] = 1]
  /\ owner' = [owner EXCEPT ![s] = request[r].u]
  /\ Goto(r, "sadd")
  /\ UNCHANGED <<index, handed, ended>>

CreateIndex(r) ==
  LET u == owner[request[r].s] IN
  /\ request[r].pc = "sadd"
  /\ index' = [index EXCEPT ![u] =
                 [ids |-> index[u].ids \cup {request[r].s},
                  ttl |-> IF index[u].ids = {} THEN Forever ELSE index[u].ttl]]
  /\ Goto(r, "expire")
  /\ UNCHANGED <<store, last, owner, handed, ended>>

\* Mutant: the list gets a lifetime only when it has none.
CreateExpire_First(r) ==
  LET u == owner[request[r].s] IN
  /\ request[r].pc = "expire"
  /\ index' = [index EXCEPT ![u].ttl = IF @ = Forever THEN RefreshTtl ELSE @]
  /\ Goto(r, "answer")
  /\ UNCHANGED <<store, last, owner, handed, ended>>

CreateExpire(r) ==
  LET u == owner[request[r].s] IN
  /\ request[r].pc = "expire"
  /\ index' = [index EXCEPT ![u] =
                 IF index[u].ids = {} THEN Unlisted
                 ELSE [index[u] EXCEPT !.ttl = RefreshTtl]]
  /\ Goto(r, "answer")
  /\ UNCHANGED <<store, last, owner, handed, ended>>

\* issueAuthResult and the end of refresh: the client gets the tokens.
Answer(r) ==
  /\ request[r].pc = "answer"
  /\ handed' = handed \cup {request[r].s}
  /\ Finish(r)
  /\ UNCHANGED <<store, last, owner, index, ended>>

-----------------------------------------------------------------------------
(* Refresh: a client presents a token of a session it was given tokens of, *)
(* the current one or an earlier one.                                      *)

Refresh(r, s, id) ==
  /\ request[r].pc = "idle"
  /\ s \in handed
  /\ last[s] < MaxJti
  /\ request' = [request EXCEPT ![r] =
                   [Idle EXCEPT !.pc = "read", !.s = s, !.jti = id]]
  /\ UNCHANGED <<store, last, owner, index, handed, ended>>

\* Mutant: the session is not looked for.
RefreshRead_Trusting(r) ==
  LET s == request[r].s IN
  /\ request[r].pc = "read"
  /\ Goto(r, IF Live(s) /\ store[s].jti # request[r].jti THEN "lookup" ELSE "user")
  /\ UNCHANGED <<store, last, owner, index, handed, ended>>

\* No session: refused.  Another token id than the stored one is taken for a
\* replay: the session is revoked.
RefreshRead(r) ==
  LET s == request[r].s IN
  /\ request[r].pc = "read"
  /\ \/ /\ ~Live(s)
        /\ Finish(r)
     \/ /\ Live(s) /\ store[s].jti # request[r].jti
        /\ Goto(r, "lookup")
     \/ /\ Live(s) /\ store[s].jti = request[r].jti
        /\ Goto(r, "user")
  /\ UNCHANGED <<store, last, owner, index, handed, ended>>

\* The account may be gone or disabled.
RefreshUser(r) ==
  /\ request[r].pc = "user"
  /\ Goto(r, "reread") \/ Finish(r)
  /\ UNCHANGED <<store, last, owner, index, handed, ended>>

\* SessionService.rotate: the record is read, and written back with a new id.
RotateRead(r) ==
  /\ request[r].pc = "reread"
  /\ IF Live(request[r].s) THEN Goto(r, "write") ELSE Finish(r)
  /\ UNCHANGED <<store, last, owner, index, handed, ended>>

\* Mutant: the write forgets KEEPTTL.
RotateWrite_NoKeepTtl(r) ==
  LET s == request[r].s IN
  /\ request[r].pc = "write"
  /\ last' = [last EXCEPT ![s] = last[s] + 1]
  /\ store' = [store EXCEPT ![s] = [jti |-> last[s] + 1, ttl |-> Forever]]
  /\ Goto(r, "answer")
  /\ UNCHANGED <<owner, index, handed, ended>>

\* SET ... KEEPTTL keeps the expiry of a key that is there; a key that is gone
\* has none.
RotateWrite(r) ==
  LET s == request[r].s IN
  /\ request[r].pc = "write"
  /\ last' = [last EXCEPT ![s] = last[s] + 1]
  /\ store' = [store EXCEPT ![s] =
                 [jti |-> last[s] + 1,
                  ttl |-> IF Live(s) THEN store[s].ttl ELSE Forever]]
  /\ Goto(r, "answer")
  /\ UNCHANGED <<owner, index, handed, ended>>

-----------------------------------------------------------------------------
(* Logout and the revoke button.  The guard has found the caller's session.*)

Logout(r, s) ==
  /\ request[r].pc = "idle"
  /\ Live(s)
  /\ request' = [request EXCEPT ![r] = At("lookup", s)]
  /\ UNCHANGED <<store, last, owner, index, handed, ended>>

RevokeSession(r, caller, s) ==
  /\ request[r].pc = "idle"
  /\ Live(caller)
  /\ request' = [request EXCEPT ![r] =
                   [Idle EXCEPT !.pc = "check", !.s = s, !.u = owner[caller]]]
  /\ UNCHANGED <<store, last, owner, index, handed, ended>>

\* Only a session of the caller's own user.
RevokeCheck(r) ==
  LET s == request[r].s IN
  /\ request[r].pc = "check"
  /\ IF Live(s) /\ owner[s] = request[r].u THEN Goto(r, "lookup") ELSE Finish(r)
  /\ UNCHANGED <<store, last, owner, index, handed, ended>>

RevokeLookup(r) ==
  /\ request[r].pc = "lookup"
  /\ request' = [request EXCEPT ![r] =
                   [request[r] EXCEPT !.pc = "del", !.found = Live(request[r].s)]]
  /\ UNCHANGED <<store, last, owner, index, handed, ended>>

RevokeDelete(r) ==
  /\ request[r].pc = "del"
  /\ Delete({request[r].s})
  /\ Goto(r, IF request[r].found THEN "srem" ELSE "revoked")
  /\ UNCHANGED <<last, owner, index, handed>>

RevokeUnlist(r) ==
  /\ request[r].pc = "srem"
  /\ Unlist(owner[request[r].s], request[r].s)
  /\ Goto(r, "revoked")
  /\ UNCHANGED <<store, last, owner, handed, ended>>

\* The answer to the client.
Revoked(r) ==
  /\ request[r].pc = "revoked"
  /\ Finish(r)
  /\ UNCHANGED <<store, last, owner, index, handed, ended>>

-----------------------------------------------------------------------------
(* The list of the user's sessions.                                        *)

List(r, caller) ==
  /\ request[r].pc = "idle"
  /\ Live(caller)
  /\ request' = [request EXCEPT ![r] =
                   [Idle EXCEPT !.pc = "list", !.u = owner[caller],
                                !.todo = index[owner[caller]].ids]]
  /\ UNCHANGED <<store, last, owner, index, handed, ended>>

\* Each id is looked up; one without a session is taken off the list.
ListGet(r, s) ==
  /\ request[r].pc = "list"
  /\ s \in request[r].todo
  /\ request' = [request EXCEPT ![r] =
                   [request[r] EXCEPT !.pc = IF Live(s) THEN "list" ELSE "drop",
                                      !.s = IF Live(s) THEN NoSession ELSE s,
                                      !.todo = request[r].todo \ {s}]]
  /\ UNCHANGED <<store, last, owner, index, handed, ended>>

ListDrop(r) ==
  /\ request[r].pc = "drop"
  /\ Unlist(request[r].u, request[r].s)
  /\ request' = [request EXCEPT ![r] = [request[r] EXCEPT !.pc = "list",
                                                        !.s = NoSession]]
  /\ UNCHANGED <<store, last, owner, handed, ended>>

Listed(r) ==
  /\ request[r].pc = "list"
  /\ request[r].todo = {}
  /\ Finish(r)
  /\ UNCHANGED <<store, last, owner, index, handed, ended>>

-----------------------------------------------------------------------------
\* A tick of Redis' clock: keys whose time is up are gone.
Older(ttl) == IF ttl > 0 THEN ttl - 1 ELSE ttl
Tick ==
  /\ \A r \in Requests : request[r].pc \notin {"sadd", "expire"}
  /\ store' = [s \in Session |->
                 IF store[s].ttl = 1 THEN Missing
                 ELSE [store[s] EXCEPT !.ttl = Older(store[s].ttl)]]
  /\ ended' = ended \cup {s \in Session : store[s].ttl = 1}
  /\ index' = [u \in Users |->
                 IF index[u].ttl = 1 THEN Unlisted
                 ELSE [index[u] EXCEPT !.ttl = Older(index[u].ttl)]]
  /\ UNCHANGED <<last, owner, handed, request>>

\* The core service stops: nobody gets an answer.
Crash ==
  /\ \E r \in Requests : request[r] # Idle
  /\ request' = [r \in Requests |-> Idle]
  /\ UNCHANGED <<store, last, owner, index, handed, ended>>

\* One command or check of a request that is not the last answer.
Work(r) ==
  \/ CreateSet(r) \/ CreateIndex(r) \/ CreateExpire(r)
  \/ RefreshRead(r) \/ RefreshUser(r) \/ RotateRead(r) \/ RotateWrite(r)
  \/ RevokeCheck(r) \/ RevokeLookup(r) \/ RevokeDelete(r) \/ RevokeUnlist(r)
  \/ (\E s \in Session : ListGet(r, s)) \/ ListDrop(r) \/ Listed(r)

Start(r) ==
  \/ \E u \in Users, s \in Session : Login(r, u, s)
  \/ \E s \in Session : \E id \in 1 .. last[s] : Refresh(r, s, id)
  \/ \E s \in Session : Logout(r, s) \/ List(r, s)
  \/ \E caller, s \in Session : RevokeSession(r, caller, s)

Next ==
  \/ \E r \in Requests : Start(r) \/ Work(r) \/ Answer(r) \/ Revoked(r)
  \/ Tick
  \/ Crash

Spec == Init /\ [][Next]_vars

-----------------------------------------------------------------------------
(* Properties.                                                             *)

TypeOK ==
  /\ store \in [Session -> [jti : Nat, ttl : Int]]
  /\ last \in [Session -> Nat]
  /\ owner \in [Session -> Users \cup {NoUser}]
  /\ index \in [Users -> [ids : SUBSET Session, ttl : Int]]
  /\ handed \subseteq Session
  /\ request \in [Requests -> RequestRecord]
  /\ ended \subseteq Session

\* A session without an expiry is one that ended while a rotation was between
\* its read and its write (SessionService.rotate): no other order of commands
\* loses the lifetime the sign-in gave the session.  That this one does is
\* against the file's own head, "expire with the refresh token lifetime", and
\* FR-AUTH-007 (README, Observations).
NoExpiryMeansReopened ==
  \A s \in Session : Live(s) /\ store[s].ttl = Forever => s \in ended

\* Every session a client got tokens for is in its user's list until it ends
\* (create writes the session before it lists it, and the list drops only ids
\* it found without a session; the list lives as long as what it lists).
HandedOutIsListed ==
  \A s \in handed : Live(s) /\ s \notin ended => s \in index[owner[s]].ids

\* The store implements the ledger: a session that has ended is open again
\* only through an exchange that was admitted while it was open.  FR-AUTH-006
\* and FR-AUTH-007 want no such exchange: the ledger is what the code keeps of
\* them (README, Observations).
Phase(s) == IF Live(s) THEN "open" ELSE IF last[s] = 0 THEN "none" ELSE "ended"
Admitted(s) == {r \in Requests : /\ request[r].s = s
                                 /\ request[r].pc \in {"user", "reread", "write"}}

Ledger == INSTANCE SessionLedger WITH
  Sessions <- Session, Requests <- Requests,
  phase <- [s \in Session |-> Phase(s)],
  admitted <- [s \in Session |-> Admitted(s)]

LedgerSpec == Ledger!Spec
=============================================================================
