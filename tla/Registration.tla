---------------------------- MODULE Registration ----------------------------
(***************************************************************************)
(* Sign-up: visitors of the registration form create organisations, each   *)
(* with its owner's account and the grant of the owner role, while other   *)
(* organisations invite members.  The checks of the e-mail address and of  *)
(* the organisation's slug read what is committed; the unique indexes make *)
(* an insert wait for a transaction that holds the same key and fail when  *)
(* that one has committed.                                                 *)
(***************************************************************************)
EXTENDS Roles, Integers

CONSTANTS
  Visitors,      \* people with the form open
  Names,         \* organisation names they type
  BaseSlug,      \* the slug of a name
  Suffixed,      \* that slug with a random or a time suffix
  Typed,         \* e-mail addresses as they type them
  Address,       \* the address, trimmed and in lower case
  MaxTries       \* bound on the submissions of a visitor

VARIABLES
  visit,         \* the form of a visitor and the request it has sent
  organisations, \* rows, committed or not
  accounts,
  grants,
  open           \* ids of the attempts whose transaction is not committed

registrationVars == <<visit, organisations, accounts, grants, open>>

Regions == {"EU", "US", "UK", "AP"}
DataResidencyRegion == {"EU", "US", "UK", "APAC"}

RegistrationInit ==
  /\ visit = [v \in Visitors |-> [at |-> "form", tries |-> 0, region |-> "EU",
                                  base |-> "", address |-> "", slug |-> "", told |-> "nothing"]]
  /\ organisations = {}
  /\ accounts = {}
  /\ grants = {}
  /\ open = {}

Elsewhere == "another organisation"
Id(v) == <<v, visit[v].tries>>
At(v, place) == visit[v].at = place
Go(v, place) == visit' = [visit EXCEPT ![v].at = place]
Answer(v, told) == visit' = [visit EXCEPT ![v].at = "form", ![v].told = told]
Committed(rows) == {row \in rows : row.id \notin open}
Rows == <<organisations, accounts, grants, open>>

-----------------------------------------------------------------------------
(* The form, the request's validation and what is checked before.          *)

\* The fields; long: whether the password has twelve characters.
Fields == [name : Names, region : Regions, typed : Typed, long : BOOLEAN]

\* RegisterDto: Asia-Pacific is AP on the form and APAC here.
Valid(form) == form.long /\ form.region \in DataResidencyRegion

Submit(v, form) ==
  /\ At(v, "form") /\ visit[v].tries < MaxTries
  /\ visit' = [visit EXCEPT ![v] =
       [at |-> IF Valid(form) THEN "email" ELSE "form",
        told |-> IF Valid(form) THEN "nothing" ELSE "refused",
        tries |-> visit[v].tries + 1, region |-> form.region,
        base |-> BaseSlug[form.name], address |-> Address[form.typed], slug |-> ""]]
  /\ UNCHANGED Rows

CheckEmail(v) ==
  /\ At(v, "email")
  /\ IF \E user \in Committed(accounts) : user.address = visit[v].address
     THEN Answer(v, "exists")
     ELSE Go(v, "slug")
  /\ UNCHANGED Rows

\* The fifth random suffix is tried, the time is not.
UniqueSlug(v) ==
  LET base == visit[v].base
      free == ~\E org \in Committed(organisations) : org.slug = base
  IN
  /\ At(v, "slug")
  /\ \E slug \in IF free THEN {base} ELSE Suffixed[base] :
       visit' = [visit EXCEPT ![v].at = "organisation", ![v].slug = slug]
  /\ UNCHANGED Rows

-----------------------------------------------------------------------------
(* The transaction.                                                        *)

\* Mutant: the organisation is saved outside the transaction.
Abort_KeepsOrganisation(v) ==
  /\ Answer(v, "error")
  /\ accounts' = {row \in accounts : row.id # Id(v)}
  /\ grants' = {row \in grants : row.id # Id(v)}
  /\ open' = open \ {Id(v)}
  /\ UNCHANGED organisations

Abort(v) ==
  /\ Answer(v, "error")
  /\ organisations' = {row \in organisations : row.id # Id(v)}
  /\ accounts' = {row \in accounts : row.id # Id(v)}
  /\ grants' = {row \in grants : row.id # Id(v)}
  /\ open' = open \ {Id(v)}

InsertOrganisation(v) ==
  LET same == {org \in organisations : org.slug = visit[v].slug} IN
  /\ At(v, "organisation")
  /\ same \subseteq Committed(organisations)
  /\ IF same # {} THEN Abort(v)
     ELSE /\ organisations' = organisations \cup
               {[id |-> Id(v), slug |-> visit[v].slug, region |-> visit[v].region]}
          /\ open' = open \cup {Id(v)}
          /\ Go(v, "user")
          /\ UNCHANGED <<accounts, grants>>

InsertOwner(v) ==
  LET same == {user \in accounts : user.address = visit[v].address} IN
  /\ At(v, "user")
  /\ same \subseteq Committed(accounts)
  /\ IF same # {} THEN Abort(v)
     ELSE /\ accounts' = accounts \cup {[id |-> Id(v), address |-> visit[v].address]}
          /\ Go(v, "grant")
          /\ UNCHANGED <<organisations, grants, open>>

GrantOwner(v) ==
  /\ At(v, "grant")
  /\ grants' = grants \cup {[id |-> Id(v), role |-> "ORG_OWNER"]}
  /\ Go(v, "commit")
  /\ UNCHANGED <<organisations, accounts, open>>

Commit(v) ==
  /\ At(v, "commit")
  /\ open' = open \ {Id(v)}
  /\ Go(v, "session")
  /\ UNCHANGED <<organisations, accounts, grants>>

\* The database fails, or the connection to it.
Fail(v) ==
  /\ visit[v].at \in {"slug", "organisation", "user", "grant", "commit"}
  /\ Abort(v)

\* issueAuthResult: the session is in Redis, or Redis fails after the commit.
Welcome(v) ==
  /\ At(v, "session")
  /\ \/ visit' = [visit EXCEPT ![v].at = "in", ![v].told = "welcome"]
     \/ Answer(v, "error")
  /\ UNCHANGED Rows

\* MemberService.invite of another organisation, when the index lets it.
InviteElsewhere(address) ==
  /\ \A user \in accounts : user.address # address
  /\ accounts' = accounts \cup {[id |-> <<Elsewhere, 0>>, address |-> address]}
  /\ UNCHANGED <<visit, organisations, grants, open>>

RegistrationNext ==
  \/ \E v \in Visitors :
       \/ \E form \in Fields : Submit(v, form)
       \/ CheckEmail(v) \/ UniqueSlug(v)
       \/ InsertOrganisation(v) \/ InsertOwner(v) \/ GrantOwner(v) \/ Commit(v)
       \/ Fail(v) \/ Welcome(v)
  \/ \E typed \in Typed : InviteElsewhere(Address[typed])

RegistrationSpec == RegistrationInit /\ [][RegistrationNext]_registrationVars

-----------------------------------------------------------------------------
(* Properties.                                                             *)

Owned(org) ==
  /\ \E user \in accounts : user.id = org.id
  /\ \A user, other \in accounts : user.id = org.id /\ other.id = org.id => user = other
  /\ \E grant \in grants : grant.id = org.id /\ Permissions[grant.role] = Catalogue

Told(v) ==
  /\ visit[v].told = "welcome" =>
       \E org \in Committed(organisations) :
         org.id = Id(v) /\ org.region = visit[v].region
  /\ visit[v].told = "exists" =>
       \E user \in Committed(accounts) : user.address = visit[v].address

(* A registration happens as a whole or not at all.  Whoever races whom    *)
(* for an address or a name, each organisation that is there has exactly   *)
(* one owner's account, with every permission, in a region of the list;    *)
(* addresses and slugs are used once; what is not committed belongs to a   *)
(* request under way; and the visitor is told the truth: welcome means     *)
(* that the organisation exists, in the region chosen, and "exists" that   *)
(* the address has an account.                                             *)
RegistrationsAreWhole ==
  /\ \A org \in Committed(organisations) : Owned(org) /\ org.region \in DataResidencyRegion
  /\ \A org, other \in organisations : org.slug = other.slug => org = other
  /\ \A user, other \in accounts : user.address = other.address => user = other
  /\ \A row \in accounts \cup grants :
       row.id[1] = Elsewhere \/ \E org \in organisations : org.id = row.id
  /\ \A id \in open : \E v \in Visitors : id = Id(v) /\ visit[v].at \in {"user", "grant", "commit"}
  /\ \A v \in Visitors : Told(v)
=============================================================================
