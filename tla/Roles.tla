------------------------------- MODULE Roles -------------------------------
(***************************************************************************)
(* The permission catalogue and the built-in roles, as the seed migration  *)
(* inserts them.  Each working role adds to the one below it, and only the *)
(* owner (and the platform's own administrator) holds everything.          *)
(***************************************************************************)
EXTENDS FiniteSets

Catalogue == {
  "manage:organisation", "delete:organisation", "view:organisation",
  "manage:billing", "view:billing", "configure:sso",
  "invite:member", "remove:member", "assign:role", "manage:role",
  "create:workspace", "manage:workspace",
  "create:project", "manage:project", "view:project", "delete:project", "manage:mission",
  "upload:imagery", "delete:imagery", "launch:job", "view:job", "cancel:job",
  "run:analytics", "run:ml", "view:map", "manage:annotation",
  "create:export", "generate:report", "read:audit", "manage:apikey"}

SystemRole == {
  "PLATFORM_SUPER_ADMIN", "PLATFORM_SUPPORT", "ORG_OWNER", "ORG_ADMIN", "BILLING_ADMIN",
  "WORKSPACE_MANAGER", "OPERATOR", "ANALYST", "VIEWER", "EXTERNAL_REVIEWER"}

Reviewer == {"view:project", "view:map"}
Viewing == Reviewer \cup {"view:job", "generate:report"}
Analyst == Viewing \cup {"launch:job", "run:analytics", "run:ml", "manage:annotation",
                         "create:export"}
Operator == Analyst \cup {"create:project", "manage:mission", "upload:imagery",
                          "delete:imagery", "cancel:job"}
WorkspaceManager == Operator \cup {"manage:workspace", "manage:project", "delete:project",
                                   "invite:member", "read:audit"}
OrgAdmin == Catalogue \ {"delete:organisation", "manage:billing", "view:billing"}
Support == {"view:organisation", "view:project", "view:job", "view:map", "read:audit"}
Billing == {"manage:billing", "view:billing", "view:organisation"}

Permissions == [role \in SystemRole |->
  CASE role \in {"PLATFORM_SUPER_ADMIN", "ORG_OWNER"} -> Catalogue
    [] role = "PLATFORM_SUPPORT" -> Support
    [] role = "ORG_ADMIN" -> OrgAdmin
    [] role = "BILLING_ADMIN" -> Billing
    [] role = "WORKSPACE_MANAGER" -> WorkspaceManager
    [] role = "OPERATOR" -> Operator
    [] role = "ANALYST" -> Analyst
    [] role = "VIEWER" -> Viewing
    [] role = "EXTERNAL_REVIEWER" -> Reviewer]

\* A role holds nothing outside the catalogue, and a manager nothing an
\* administrator does not.
ASSUME RolesAssumption ==
  /\ Cardinality(Catalogue) = 30
  /\ \A role \in SystemRole : Permissions[role] \subseteq Catalogue
  /\ WorkspaceManager \subseteq OrgAdmin
=============================================================================
