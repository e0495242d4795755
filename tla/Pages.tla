------------------------------- MODULE Pages -------------------------------
(***************************************************************************)
(* The pages that show a tenant's rows and the forms that make new ones.   *)
(* The server renders a page from reads, each answered from the rows that  *)
(* are committed at that moment; the page shows nothing before the last of *)
(* them.  Meanwhile other users and the workers insert, change and delete  *)
(* rows, and a deletion takes along every row under the one deleted.       *)
(*                                                                         *)
(* Views are the instances of a page: browser tabs, and also a page left   *)
(* by a link whose form has a call under way.  The session is WebSession's.*)
(***************************************************************************)
EXTENDS FiniteSets, Integers

CONSTANTS
  Ids,          \* for each kind of row, the ids that rows may be given
  Tenant,       \* the organisation
  Slugs,        \* slugs of workspaces
  Views,
  MaxClicks     \* bound: clicks on the button of one form

\* The kind of row that holds rows of each kind, by foreign key.
Holder == [workspace |-> "organisation", project |-> "workspace", mission |-> "project",
           image |-> "mission", job |-> "mission", output |-> "job"]
Kinds == {"organisation"} \cup DOMAIN Holder

ASSUME PagesAssumption ==
  /\ DOMAIN Ids = Kinds /\ Ids["organisation"] = {Tenant}
  /\ \A k, l \in Kinds : k # l => Ids[k] \cap Ids[l] = {}
  /\ MaxClicks \in Nat

VARIABLES
  there,        \* committed rows
  above,        \* for each id once given: the row itself and all that hold it
  complete,     \* jobs whose status is COMPLETE
  slug,         \* the slug of each workspace
  view,         \* what each instance of a page has read
  draft,        \* the form on it
  addresses,    \* ids that a page has shown or a form was answered with
  kept          \* history: the row a page is about was there since it was asked for

server == <<there, above, complete, slug>>
browser == <<view, draft, addresses, kept>>
pagesVars == <<server, browser>>

Rows == UNION {Ids[k] : k \in Kinds}
Known(i) == above[i] # {}
NoSlug == "no slug"

-----------------------------------------------------------------------------
(* Reads, and the pages as the reads they are rendered from.               *)

\* by: the rows under it are read; needs: 404 unless that one is there;
\* caught: the page goes on without.
ReadOf(kind, by, needs) == [of |-> kind, by |-> by, needs |-> needs, caught |-> FALSE]
RowOf(kind, id) == ReadOf(kind, id, TRUE)
ListOf(kind, id) == ReadOf(kind, id, FALSE)
Caught(read) == [read EXCEPT !.caught = TRUE]

\* MeteringService.getStorageSummary does without an organisation.
StorageSummary == ListOf("organisation", Tenant)

DashboardPage ==
  [first |-> {RowOf("organisation", Tenant), ListOf("project", Tenant), StorageSummary,
              ListOf("job", Tenant)},
   then |-> {}]
ProjectsPage == [first |-> {ListOf("project", Tenant)}, then |-> {}]
NewProjectPage == [first |-> {ListOf("workspace", Tenant)}, then |-> {}]
ProjectDetailsPage(id) ==
  [first |-> {RowOf("project", id), ListOf("mission", id)}, then |-> {}]
ViewerPage(id) == [first |-> {RowOf("project", id), ListOf("output", id)}, then |-> {}]
MissionDetails(id) ==
  [first |-> {RowOf("mission", id), ReadOf("image", id, TRUE), ListOf("job", id)},
   then |-> {}]

\* Mutant: the outputs are read beside the job.
JobPage_AtOnce(id) ==
  [first |-> {RowOf("job", id), Caught(ListOf("output", id))},
   then |-> {Caught(RowOf("mission", m)) : m \in above[id] \cap Ids["mission"]}]

JobPage(id) ==
  [first |-> {RowOf("job", id)},
   then |-> {Caught(ListOf("output", id))} \cup
            {Caught(RowOf("mission", m)) : m \in above[id] \cap Ids["mission"]}]

\* What each page is about.
About == [dashboard |-> "organisation", projects |-> "organisation",
          newProject |-> "organisation", project |-> "project", viewer |-> "project",
          mission |-> "mission", job |-> "job"]

ReadsOf(page, id) ==
  CASE page = "dashboard"  -> DashboardPage
    [] page = "projects"   -> ProjectsPage
    [] page = "newProject" -> NewProjectPage
    [] page = "project"    -> ProjectDetailsPage(id)
    [] page = "viewer"     -> ViewerPage(id)
    [] page = "mission"    -> MissionDetails(id)
    [] page = "job"        -> JobPage(id)

\* The rows a query of a service finds.
Selected(read) == {i \in there \cap Ids[read.of] : read.by \in above[i]}

\* The outputs of a job that are committed.
OutputsOf(j) == {o \in there \cap Ids["output"] : j \in above[o]}

\* What a page shows of the rows of a kind is what it read of them.
Answers(v, kind) == {a \in view[v].got : a.read.of = kind}
Shown(v, kind) == UNION {a.rows : a \in Answers(v, kind)}

NoView == [page |-> "dashboard", id |-> Tenant, at |-> "away", asked |-> {},
           got |-> {}, owed |-> {}]
NoForm == [at |-> "idle", under |-> Tenant, slug |-> NoSlug,
           containers |-> 0, ends |-> 0, failed |-> 0]

PagesInit ==
  /\ there = {Tenant}
  /\ above = [i \in Rows |-> IF i = Tenant THEN {Tenant} ELSE {}]
  /\ complete = {}
  /\ slug = [w \in Ids["workspace"] |-> NoSlug]
  /\ view = [v \in Views |-> NoView]
  /\ draft = [v \in Views |-> NoForm]
  /\ addresses = {Tenant}
  /\ kept = [v \in Views |-> FALSE]

-----------------------------------------------------------------------------
(* Rows come and go.                                                       *)

\* A row that a stale save inserts again keeps its id and its columns.
Insert(i, holder) ==
  /\ i \notin there /\ holder \in there
  /\ above[i] \in {{}, above[holder] \cup {i}}
  /\ there' = there \cup {i}
  /\ above' = [above EXCEPT ![i] = above[holder] \cup {i}]

TakenSlugs == {slug[w] : w \in there \cap Ids["workspace"]}

OthersInsert(k, i, holder) ==
  /\ Insert(i, holder)
  /\ Known(i) => k \in {"project", "mission", "job"}
  /\ IF k = "workspace" THEN \E s \in Slugs \ TakenSlugs : slug' = [slug EXCEPT ![i] = s]
                        ELSE UNCHANGED slug
  /\ UNCHANGED <<complete, browser>>

\* The remove of a project, a mission or a job: the foreign keys cascade.
OthersRemove(x) ==
  /\ x \in there \cap (Ids["project"] \cup Ids["mission"] \cup Ids["job"])
  /\ there' = {i \in there : x \notin above[i]}
  /\ complete' = complete \cap there'
  /\ kept' = [v \in Views |-> kept[v] /\ x \notin above[view[v].id]]
  /\ UNCHANGED <<above, slug, view, draft, addresses>>

\* A worker marks a job COMPLETE, which may have made no output at all (what its
\* archive does not hold is skipped); a redelivered job leaves that status again.
JobUpdated(j) ==
  /\ j \in there
  /\ complete' \in {complete \cup {j}, complete \ {j}}
  /\ UNCHANGED <<there, above, slug, browser>>

-----------------------------------------------------------------------------
(* Rendering a page.                                                       *)

Visit(v, page, id) ==
  /\ draft[v].at = "idle"
  /\ id \in addresses \cap Ids[About[page]]
  /\ view' = [view EXCEPT ![v] =
                 [NoView EXCEPT !.page = page, !.id = id, !.at = "loading",
                                !.asked = ReadsOf(page, id).first]]
  /\ draft' = [draft EXCEPT ![v] = NoForm]
  /\ kept' = [kept EXCEPT ![v] = id \in there]
  /\ UNCHANGED <<server, addresses>>

\* After the last answer of the first reads come the others, then the page.  The
\* page that reads that its job is COMPLETE owes its reader the outputs there are.
Settle(v, read, rows, ok) ==
  LET got == view[v].got \cup {[read |-> read, rows |-> rows, ok |-> ok]}
      then == ReadsOf(view[v].page, view[v].id).then \ {a.read : a \in got}
      asked == IF view[v].asked # {read} THEN view[v].asked \ {read} ELSE then
  IN
  /\ view' = [view EXCEPT ![v].asked = asked, ![v].got = got,
                          ![v].at = IF asked = {} THEN "shown" ELSE "loading",
                          ![v].owed = IF read.of = "job" /\ read.by \in complete
                                      THEN OutputsOf(read.by) ELSE @]
  /\ addresses' = IF asked # {} THEN addresses
                  ELSE addresses \cup UNION {UNION {above[i] : i \in a.rows} : a \in got}
  /\ UNCHANGED <<server, draft, kept>>

End(v, at) ==
  /\ view' = [view EXCEPT ![v].at = at, ![v].asked = {}, ![v].got = {}, ![v].owed = {}]
  /\ UNCHANGED <<server, draft, addresses, kept>>

\* A list that needs its owner looks it up in a statement of its own.
OwnerFound(v, read) ==
  /\ read \in view[v].asked /\ read.needs
  /\ read.by \in there \ Ids[read.of]
  /\ view' = [view EXCEPT ![v].asked = (@ \ {read}) \cup {ListOf(read.of, read.by)}]
  /\ UNCHANGED <<server, draft, addresses, kept>>

ReadAnswered(v, read) ==
  /\ read \in view[v].asked
  /\ read.needs => read.by \in there \cap Ids[read.of]
  /\ Settle(v, read, Selected(read), TRUE)

NotFound(v, read) ==
  /\ read \in view[v].asked /\ read.needs /\ read.by \notin there
  /\ IF read.caught THEN Settle(v, read, {}, TRUE) ELSE End(v, "missing")

\* Refused for another reason, or no answer.
ReadFails(v, read) ==
  /\ read \in view[v].asked
  /\ IF read.caught THEN Settle(v, read, {}, FALSE) ELSE End(v, "broken")

-----------------------------------------------------------------------------
(* The forms.  Whether a project's form makes a workspace too was decided  *)
(* when it was mounted.                                                    *)

ToForm(v, record) == draft' = [draft EXCEPT ![v] = record]

CanSubmit(v) ==
  /\ view[v].at = "shown" /\ draft[v].at = "idle"
  /\ draft[v].ends + draft[v].failed < MaxClicks

SubmitProject(v) ==
  /\ CanSubmit(v) /\ view[v].page = "newProject"
  /\ \/ Shown(v, "workspace") = {} /\ ToForm(v, [draft[v] EXCEPT !.at = "slug"])
     \/ \E w \in Shown(v, "workspace") :
          ToForm(v, [draft[v] EXCEPT !.at = "project", !.under = w])
  /\ UNCHANGED <<server, view, addresses, kept>>

SubmitMission(v) ==
  /\ CanSubmit(v) /\ view[v].page = "project"
  /\ ToForm(v, [draft[v] EXCEPT !.at = "mission", !.under = view[v].id])
  /\ UNCHANGED <<server, view, addresses, kept>>

\* The tries after the first have random endings and may hit another that is
\* taken; after five the last resort is used unseen.
UniqueSlug(v) ==
  /\ draft[v].at = "slug"
  /\ \E s \in IF Cardinality(TakenSlugs) < 2 THEN Slugs \ TakenSlugs ELSE Slugs :
       ToForm(v, [draft[v] EXCEPT !.at = "workspace", !.slug = s])
  /\ UNCHANGED <<server, view, addresses, kept>>

\* The index on slugs refuses one that was inserted since.
CreateWorkspace(v, w) ==
  /\ draft[v].at = "workspace" /\ draft[v].slug \notin TakenSlugs
  /\ ~Known(w) /\ Insert(w, Tenant)
  /\ slug' = [slug EXCEPT ![w] = draft[v].slug]
  /\ ToForm(v, [draft[v] EXCEPT !.at = "made", !.under = w, !.slug = NoSlug,
                                 !.containers = @ + 1])
  /\ UNCHANGED <<complete, view, addresses, kept>>

\* The answer holds the workspace's id, with which the project is sent.
SendProject(v) ==
  /\ draft[v].at = "made"
  /\ ToForm(v, [draft[v] EXCEPT !.at = "project"])
  /\ UNCHANGED <<server, view, addresses, kept>>

CreateProject(v, p) ==
  /\ draft[v].at = "project"
  /\ ~Known(p) /\ Insert(p, draft[v].under)
  /\ ToForm(v, [draft[v] EXCEPT !.at = "answered", !.under = p, !.ends = @ + 1])
  /\ UNCHANGED <<complete, slug, view, addresses, kept>>

CreateMission(v, m) ==
  /\ draft[v].at = "mission"
  /\ ~Known(m) /\ Insert(m, draft[v].under)
  /\ ToForm(v, [draft[v] EXCEPT !.at = "answered", !.under = m, !.ends = @ + 1])
  /\ UNCHANGED <<complete, slug, view, addresses, kept>>

\* The router is sent to the new row's page; the button is back before that.
Created(v) ==
  /\ draft[v].at = "answered"
  /\ ToForm(v, [draft[v] EXCEPT !.at = "idle", !.under = Tenant])
  /\ addresses' = addresses \cup {draft[v].under}
  /\ UNCHANGED <<server, view, kept>>

\* A call is refused (the project was archived, say: Upload has that), or its
\* answer is lost; what it did stays.
CallFails(v) ==
  /\ draft[v].at # "idle"
  /\ ToForm(v, [draft[v] EXCEPT !.at = "idle", !.under = Tenant, !.slug = NoSlug,
                                 !.failed = @ + 1])
  /\ UNCHANGED <<server, view, addresses, kept>>

-----------------------------------------------------------------------------
OthersNext ==
  \/ \E k \in DOMAIN Holder : \E i \in Ids[k], holder \in Ids[Holder[k]] :
       OthersInsert(k, i, holder)
  \/ \E x \in Rows : OthersRemove(x)
  \/ \E j \in Ids["job"] : JobUpdated(j)

ViewNext(v) ==
  \/ \E page \in DOMAIN About, id \in Rows : Visit(v, page, id)
  \/ \E read \in view[v].asked :
       OwnerFound(v, read) \/ ReadAnswered(v, read) \/ NotFound(v, read) \/ ReadFails(v, read)
  \/ SubmitProject(v) \/ SubmitMission(v) \/ UniqueSlug(v) \/ SendProject(v)
  \/ Created(v) \/ CallFails(v)
  \/ \E w \in Ids["workspace"] : CreateWorkspace(v, w)
  \/ \E p \in Ids["project"] : CreateProject(v, p)
  \/ \E m \in Ids["mission"] : CreateMission(v, m)

PagesNext == OthersNext \/ \E v \in Views : ViewNext(v)

PagesSpec == PagesInit /\ [][PagesNext]_pagesVars

-----------------------------------------------------------------------------
(* Properties.                                                             *)

Reads == [of : Kinds, by : Rows, needs : BOOLEAN, caught : BOOLEAN]
PageRecords ==
  [page : DOMAIN About, id : Rows,
   at : {"away", "loading", "shown", "missing", "broken"},
   asked : SUBSET Reads, got : SUBSET [read : Reads, rows : SUBSET Rows, ok : BOOLEAN],
   owed : SUBSET Rows]
FormRecords ==
  [at : {"idle", "slug", "workspace", "made", "project", "mission", "answered"},
   under : Rows, slug : Slugs \cup {NoSlug}, containers : Nat, ends : Nat, failed : Nat]

\* The types of the variables.
PagesTypeOK ==
  /\ there \subseteq Rows
  /\ above \in [Rows -> SUBSET Rows]
  /\ complete \subseteq Ids["job"]
  /\ slug \in [Ids["workspace"] -> Slugs \cup {NoSlug}]
  /\ view \in [Views -> PageRecords]
  /\ draft \in [Views -> FormRecords]
  /\ addresses \subseteq Rows
  /\ kept \in [Views -> BOOLEAN]

(* What a page says of the rows is true.  The page of a row that is not    *)
(* found was deleted: no page links to, and no form sends the browser to,  *)
(* a row that was never committed.                                         *)
MissingIsDeleted ==
  \A v \in Views : view[v].at = "missing" => Known(view[v].id) /\ ~kept[v]

(* The page of a job that has not been deleted since it was asked for      *)
(* shows, unless a read failed, every output there was when it read that   *)
(* the job is COMPLETE, and it names the job's mission.                    *)
AnswerIsWhole(a, owed) ==
  a.ok => IF a.read.of = "output" THEN owed \subseteq a.rows ELSE a.rows # {}
JobPageIsWhole ==
  \A v \in Views : view[v].page = "job" /\ view[v].at = "shown" /\ kept[v] =>
    \A a \in view[v].got : AnswerIsWhole(a, view[v].owed)

(* A form makes no more workspaces than it makes projects and clicks of it *)
(* fail: a retry makes another workspace, but a click that goes through    *)
(* leaves none without a project.                                          *)
UsesWhatItMade(f) ==
  f.containers <= f.ends + f.failed + (IF f.at \in {"made", "project"} THEN 1 ELSE 0)
FormsUseWhatTheyMake == \A v \in Views : UsesWhatItMade(draft[v])

(* No page of the application says what was never so, and no form leaves   *)
(* more behind than its failed calls account for: the three of the above.  *)
PagesAreTrue ==
  MissingIsDeleted /\ JobPageIsWhole /\ FormsUseWhatTheyMake
=============================================================================
