------------------------------ MODULE MCAccess ------------------------------
(* Instances for TLC of the access checks (Access) and of the tables of     *)
(* jobs and keys (Lists), side by side: a behaviour here is about one of    *)
(* the two.  Access has an owner and an administrator, with what their      *)
(* roles hold of the two rights it tells apart; remove:member and           *)
(* manage:apikey go with manage:organisation in both roles.                 *)
EXTENDS Access, Roles, Lists, TLC

CONSTANTS owner, admin, k1

OwnerAndAdmin == {owner, admin}
RoleOf == [u \in OwnerAndAdmin |-> IF u = owner THEN "ORG_OWNER" ELSE "ORG_ADMIN"]
RolesHeld == [u \in OwnerAndAdmin |->
  {right \in Rights : \E permission \in Permissions[RoleOf[u]] :
     \/ right = "manage" /\ permission = "manage:organisation"
     \/ right = "delete" /\ permission = "delete:organisation"}]
OneKey == {k1}
ExpiresAtTwo == [k \in OneKey |-> 2]

\* Bounds: a behaviour is about members or about keys, which meet at most while
\* nothing is counted; and the clock runs while members ask for removals and
\* revocations, not while the organisation is changed or not active.
NothingCounted == counter = [k \in Keys |-> [m \in Minutes |-> NotCounted]]
NoMemberAsked == /\ cache = [u \in Members |-> NotCached]
                 /\ \A r \in Requests : request[r].by \notin Members
OrganisationAtRest ==
  /\ organisation = "ACTIVE"
  /\ \A r \in Requests : request[r].op \in {"none", "remove", "revoke", "call"}
Apart == /\ NothingCounted \/ NoMemberAsked
         /\ now > 0 => OrganisationAtRest

AccessInit == Init /\ ListsInit
AccessNext ==
  \/ ListsInit /\ Next /\ UNCHANGED listVars
  \/ Init /\ ListsNext /\ UNCHANGED vars
AccessSpec == AccessInit /\ [][AccessNext]_<<vars, listVars>>

Symmetry == Permutations(Requests) \cup Permutations(Calls) \cup Permutations(TableJobs)
=============================================================================
