----------------------------- MODULE MCAccounts -----------------------------
(* Instances for TLC of the accounts of one organisation (Accounts) and of  *)
(* sign-up (Registration), side by side: a behaviour here is about one of   *)
(* the two.  Requests are interchangeable.                                  *)
EXTENDS Accounts, Registration, TLC

CONSTANTS acme, acmeLtd, acmeX, ann, annUpper, bob

\* Two spellings with one slug, and two of one address.
Slug == [name \in {acme, acmeLtd} |-> acme]
Suffixes == [slug \in {acme} |-> {acmeX}]
Spelt == {ann, annUpper, bob}
LowerCase == [typed \in Spelt |-> IF typed = annUpper THEN ann ELSE typed]

PeopleInit == Init /\ RegistrationInit
PeopleNext ==
  \/ RegistrationInit /\ Next /\ UNCHANGED registrationVars
  \/ Init /\ RegistrationNext /\ UNCHANGED vars
PeopleSpec == PeopleInit /\ [][PeopleNext]_<<vars, registrationVars>>

Symmetry == Permutations(Requests) \cup Permutations(Visitors)
=============================================================================
