----------------------------- MODULE MCSessions -----------------------------
(* Instances for TLC of the session store (Sessions) and of the pages that  *)
(* a session opens (Pages), side by side: a behaviour here is about one of  *)
(* the two.                                                                 *)
EXTENDS Sessions, Pages

\* One of each row with a page of its own, two workspaces, a job with an output.
PageIds ==
  [organisation |-> {Tenant}, workspace |-> {"w1", "w2"}, project |-> {"p1"},
   mission |-> {"m1"}, image |-> {}, job |-> {"j1"}, output |-> {"o1"}]

SignedInInit == Init /\ PagesInit
SignedInNext ==
  \/ PagesInit /\ Next /\ UNCHANGED pagesVars
  \/ Init /\ PagesNext /\ UNCHANGED vars
SignedInSpec == SignedInInit /\ [][SignedInNext]_<<vars, pagesVars>>
=============================================================================
