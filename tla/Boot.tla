--------------------------------- MODULE Boot ---------------------------------
(***************************************************************************)
(* main._init_application_db: db.init_db, seed.seed_if_empty and           *)
(* auth.bootstrap, run by each process before it serves.                   *)
(*                                                                         *)
(* Several processes may start on one file (two revisions overlap during a *)
(* rollout), and a process may die between any two transactions; whoever   *)
(* runs it starts it again.  Every CREATE TABLE commits on its own, and so *)
(* does every item of the demo content.  A process that is up lets admins  *)
(* delete servers and edit relationships, and runs                         *)
(* ensure_demo_relationships.                                              *)
(***************************************************************************)
EXTENDS Demo, FiniteSets

CONSTANTS
  Processes,
  Tables,       (* CREATE TABLE statements in SCHEMA_DDL                   *)
  Version, Old, (* SCHEMA_VERSION, and that of an older release            *)
  Configured,   (* a password taken from BOOTSTRAP_PASSWORD                *)
  Nobody,       (* no row in admin_user                                    *)
  MaxCrashes, MaxDeletes, MaxEdits   (* bounds: deaths, and what admins do *)

ASSUME BootAssumption ==
  /\ Tables \in Nat /\ MaxCrashes \in Nat /\ MaxDeletes \in Nat /\ MaxEdits \in Nat
  /\ Nobody # Configured /\ Nobody \notin Nat   (* generated passwords are numbered *)

VARIABLES
  tables,    (* how many tables exist; they are created in one order       *)
  versions,  (* the rows of schema_version                                 *)
  content,   (* the items in the database                                  *)
  admin,     (* the password of the row in admin_user, or Nobody           *)
  announced, (* passwords that were written to the log                     *)
  step,      (* step[p]: what p does next                                  *)
  at,        (* at[p]: how many tables or items p has created in this boot *)
  password,  (* password[p]: the password that p is about to store         *)
  missing,   (* missing[p]: relationships that p is about to add           *)
  crashes,
  deletes, edits   (* servers deleted, relationships changed             *)

db == <<tables, versions, content, admin>>

vars == <<tables, versions, content, admin, announced, step, at, password, missing, crashes, deletes, edits>>

Init ==
  /\ tables \in {0, Tables}
  /\ versions = IF tables = 0 THEN <<>> ELSE <<Old>>
  /\ content = {} /\ admin = Nobody /\ announced = {}
  /\ step = [p \in Processes |-> "down"]
  /\ at = [p \in Processes |-> 0]
  /\ password = [p \in Processes |-> Nobody]
  /\ missing = [p \in Processes |-> {}]
  /\ crashes = 0 /\ deletes = 0 /\ edits = 0

Goto(p, s) == step' = [step EXCEPT ![p] = s]

Bounds == UNCHANGED <<crashes, deletes, edits>>

-------------------------------------------------------------------------------
(* db.migrate *)

Start(p) ==
  /\ step[p] \in {"down", "failed"} /\ Goto(p, "version")
  /\ at' = [at EXCEPT ![p] = 0]
  /\ UNCHANGED <<db, announced, password, missing>> /\ Bounds

(* current_version reads the first row.                                    *)
ReadVersion(p) ==
  /\ step[p] = "version"
  /\ Goto(p, IF versions # <<>> /\ Head(versions) = Version THEN "servers" ELSE "ddl")
  /\ UNCHANGED <<db, announced, at, password, missing>> /\ Bounds

(* executescript: the next CREATE TABLE IF NOT EXISTS.                     *)
CreateTable(p) ==
  /\ step[p] = "ddl" /\ at[p] < Tables
  /\ at' = [at EXCEPT ![p] = @ + 1]
  /\ tables' = IF at[p] < tables THEN tables ELSE at[p] + 1
  /\ UNCHANGED <<versions, content, admin, announced, step, password, missing>> /\ Bounds

\* mutant: the version is written before the tables are there
TablesDoneAny(p) == at[p] > 0

TablesDone(p) == at[p] = Tables

(* DELETE and INSERT in one transaction.                                   *)
Marked == <<Version>>

MarkVersion(p) ==
  /\ step[p] = "ddl" /\ TablesDone(p)
  /\ versions' = Marked
  /\ at' = [at EXCEPT ![p] = 0]
  /\ Goto(p, "servers")
  /\ UNCHANGED <<tables, content, admin, announced, password, missing>> /\ Bounds

-------------------------------------------------------------------------------
(* seed.seed_if_empty *)

ServersIn(items) == {x \in items : x[1] = "server"}

CheckEmpty(p) ==
  /\ step[p] = "servers"
  /\ Goto(p, IF ServersIn(content) = {} THEN "seed" ELSE "admin")
  /\ at' = [at EXCEPT ![p] = 0]
  /\ UNCHANGED <<db, announced, password, missing>> /\ Bounds

(* UNIQUE slugs, keys, tool names, relationship names and joins.           *)
Clash(x, item) ==
  x[1] = item[1] /\ x[2] = item[2] /\ (x[3] = item[3] \/ (x[1] = "rel" /\ x[4] = item[4]))

Taken(item) == \E x \in content : Clash(x, item)

Item(p) == Script[at[p] + 1]

(* One create_* call of the script.  A conflict is raised out of the       *)
(* lifespan handler: the process does not come up.                         *)
SeedItem(p) ==
  /\ step[p] = "seed" /\ at[p] < Len(Script)
  /\ \/ /\ ~Taken(Item(p))
        /\ content' = content \cup {Item(p)}
        /\ at' = [at EXCEPT ![p] = @ + 1]
        /\ UNCHANGED step
     \/ /\ Taken(Item(p))
        /\ Goto(p, "failed")
        /\ UNCHANGED <<content, at>>
  /\ UNCHANGED <<tables, versions, admin, announced, password, missing>> /\ Bounds

Seeded(p) ==
  /\ step[p] = "seed" /\ at[p] = Len(Script)
  /\ Goto(p, "admin")
  /\ at' = [at EXCEPT ![p] = 0]
  /\ UNCHANGED <<db, announced, password, missing>> /\ Bounds

-------------------------------------------------------------------------------
(* auth.bootstrap *)

Skips == admin # Nobody

CheckAdmin(p) ==
  /\ step[p] = "admin"
  /\ \/ Skips /\ Goto(p, "up") /\ UNCHANGED password
     \/ /\ ~Skips /\ Goto(p, "announce")
        /\ \/ password' = [password EXCEPT ![p] = Configured]
           \/ password' = [password EXCEPT ![p] = Cardinality(announced) + 1]
  /\ UNCHANGED <<db, announced, at, missing>> /\ Bounds

Announced(p) == announced \cup ({password[p]} \ {Configured})

(* logger.warning: a generated password is shown before it is stored.      *)
Announce(p) ==
  /\ step[p] = "announce" /\ Goto(p, "insert")
  /\ announced' = Announced(p)
  /\ UNCHANGED <<db, at, password, missing>> /\ Bounds

(* UNIQUE (username)                                                       *)
InsertAdmin(p) ==
  /\ step[p] = "insert"
  /\ \/ admin = Nobody /\ admin' = password[p] /\ Goto(p, "up")
     \/ admin # Nobody /\ Goto(p, "failed") /\ UNCHANGED admin
  /\ password' = [password EXCEPT ![p] = Nobody]
  /\ UNCHANGED <<tables, versions, content, announced, at, missing>> /\ Bounds

Crash(p) ==
  /\ step[p] \notin {"down", "failed"} /\ crashes < MaxCrashes
  /\ crashes' = crashes + 1
  /\ Goto(p, "down")
  /\ at' = [at EXCEPT ![p] = 0]
  /\ password' = [password EXCEPT ![p] = Nobody]
  /\ missing' = [missing EXCEPT ![p] = {}]
  /\ UNCHANGED <<db, announced, deletes, edits>>

-------------------------------------------------------------------------------
(* What admins do through a process that is up.  Bound: not while another  *)
(* process seeds.                                                          *)
Quiet == \A p \in Processes : step[p] # "seed"

Changes(items) ==
  /\ Quiet /\ content' = items
  /\ UNCHANGED <<tables, versions, admin, announced, step, at, password, missing, crashes>>

(* delete_server cascades to what belongs to it, recipe_tool too.          *)
WithoutServer(slug) ==
  {IF x[1] = "recipe" THEN <<x[1], x[2], x[3], {l \in x[4] : l[1] # slug}>> ELSE x :
     x \in {y \in content : y[2] # slug}}

DeleteServer(slug) ==
  /\ deletes < MaxDeletes /\ deletes' = deletes + 1
  /\ \E x \in ServersIn(content) : x[2] = slug
  /\ Changes(WithoutServer(slug))
  /\ UNCHANGED edits

DeleteRelationship(x) ==
  /\ edits < MaxEdits /\ edits' = edits + 1
  /\ x[1] = "rel" /\ Changes(content \ {x})
  /\ UNCHANGED deletes

(* What an admin joins instead, which no demo relationship does.           *)
Changed == "other"

(* An admin gives a relationship another name, or other fields.            *)
EditRelationship(x, name, join) ==
  /\ edits < MaxEdits /\ edits' = edits + 1 /\ UNCHANGED deletes
  /\ x[1] = "rel"
  /\ \A y \in content : y[1] = "rel" /\ y[2] = x[2] => y[3] # name \/ y = x
  /\ Changes((content \ {x}) \cup {<<"rel", x[2], name, join>>})

-------------------------------------------------------------------------------
(* service.ensure_demo_relationships, whose _DEMO_RELATIONSHIPS are the    *)
(* relationships of the demo servers.  Nothing is written before the first *)
(* INSERT, so what is missing is read without a lock.                      *)

Expected(slug) ==
  LET s == Named(slug) IN
  IF \A i \in DOMAIN s.datasets : \E x \in content : x[1] = "dataset" /\ x[2] = slug /\ x[3] = s.datasets[i].key
    THEN {<<"rel", slug, s.joins[i].name, s.joins[i].name>> : i \in DOMAIN s.joins}
    ELSE {}

\* mutant: a relationship is known by its name
MissingByName(slug) == {x \in Expected(slug) : ~Taken(x)}

(* Known by its datasets and fields.                                       *)
Missing(slug) ==
  {x \in Expected(slug) : \A y \in content : ~(y[1] = "rel" /\ y[2] = slug /\ y[4] = x[4])}

EnsureBegin(p) ==
  /\ step[p] = "up" /\ Quiet /\ edits < MaxEdits
  /\ missing' = [missing EXCEPT ![p] = UNION {Missing(slug) : slug \in Slugs}]
  /\ edits' = edits + 1
  /\ Goto(p, "ensure")
  /\ UNCHANGED <<db, announced, at, password, crashes, deletes>>

(* All in one transaction; a name that is taken, or a dataset that is      *)
(* gone, is an IntegrityError that no handler catches.                     *)
EnsureWrite(p) ==
  /\ step[p] = "ensure"
  /\ LET fails == \E x \in missing[p] : Taken(x) \/ x \notin Expected(x[2]) IN
       \/ fails /\ Goto(p, "error") /\ UNCHANGED content
       \/ ~fails /\ Goto(p, "up") /\ content' = content \cup missing[p]
  /\ missing' = [missing EXCEPT ![p] = {}]
  /\ UNCHANGED <<tables, versions, admin, announced, at, password>> /\ Bounds

Boots(p) ==
  \/ Start(p) \/ ReadVersion(p) \/ CreateTable(p) \/ MarkVersion(p)
  \/ CheckEmpty(p) \/ SeedItem(p) \/ Seeded(p)
  \/ CheckAdmin(p) \/ Announce(p) \/ InsertAdmin(p)

Serves(p) ==
  \/ EnsureBegin(p)
  \/ /\ step[p] = "up"
     /\ \/ \E slug \in Slugs : DeleteServer(slug)
        \/ \E x \in content : DeleteRelationship(x)
        \/ \E x \in {y \in content : y[1] = "rel"} :
             \E name \in {"mine", x[3]}, join \in {Changed, x[4]} : EditRelationship(x, name, join)

(* The answer 500 ends a request, not the process.                         *)
Answer(p) ==
  /\ step[p] = "error" /\ Goto(p, "up")
  /\ UNCHANGED <<db, announced, at, password, missing>> /\ Bounds

Next == \E p \in Processes :
  Boots(p) \/ Crash(p) \/ Serves(p) \/ EnsureWrite(p) \/ Answer(p)

Spec == Init /\ [][Next]_vars

(* The container platform starts a process again until it comes up.        *)
FairSpec ==
  Spec /\ \A p \in Processes : WF_vars(Boots(p)) /\ WF_vars(EnsureWrite(p) \/ Answer(p))

-------------------------------------------------------------------------------

Up(p) == step[p] \in {"up", "ensure", "error"}

(* schema_version has at most one row, and the script only grows.          *)
TypeOK ==
  /\ tables \in 0 .. Tables /\ Len(versions) <= 1 /\ crashes <= MaxCrashes
  /\ \A p \in Processes :
       /\ step[p] \in {"down", "failed", "version", "ddl", "servers", "seed", "admin",
                       "announce", "insert", "up", "ensure", "error"}
       /\ at[p] > 0 => step[p] \in {"ddl", "seed", "down", "failed"}
       /\ (password[p] # Nobody) = (step[p] \in {"announce", "insert"})
       /\ missing[p] # {} => step[p] = "ensure"

(* A process that serves has every table and the version of its code,      *)
(* whoever created them and wherever it died before (migrate).             *)
UpMeansMigrated == \A p \in Processes : Up(p) => tables = Tables /\ versions = <<Version>>

(* The admin can log in: a generated password was shown before it took     *)
(* effect ("store this now, it will not be shown again").                  *)
AdminKnown == admin \in {Nobody, Configured} \cup announced

(* The tools of a recipe are tools of servers that exist (seed_recipes,    *)
(* ON DELETE CASCADE of recipe_tool).                                      *)
LinksResolve ==
  \A x \in content : x[1] = "recipe" =>
    \A l \in x[4] : \E y \in content : y[1] = "endpoint" /\ y[2] = l[1] /\ y[3] = l[2]

(* "5 servers, 15 datasets, 42 endpoints, 12 relationships, 1 mock LLM     *)
(* endpoint, and 7 published recipes", and 40 recipe-to-tool links: while  *)
(* no admin changed anything, a process that is up serves them.            *)
Count(items, kind) == Cardinality({x \in items : x[1] = kind})

WholeDemo(items) ==
  /\ Count(items, "server") = 5 /\ Count(items, "dataset") = 15 /\ Count(items, "endpoint") = 42
  /\ Count(items, "rel") = 12 /\ Count(items, "recipe") = 7
  /\ Count(items, "llm") = 1 /\ Count(items, "responses") = 1
  /\ Cardinality(UNION {{<<x[3], l>> : l \in x[4]} : x \in {y \in items : y[1] = "recipe"}}) = 40

SeededWhole ==
  (deletes + edits = 0 /\ \E p \in Processes : Up(p)) => WholeDemo(content)

(* The generated rows fit together: ids are unique, the parent of every    *)
(* row exists (save the blanks of an optional one), and the primary        *)
(* contact of an opportunity is one of its account's.                      *)
RowsOfField(key, field) == {Columns[key][field][k] : k \in DOMAIN Columns[key][field]}

JoinHolds(j) ==
  RowsOfField(j.src, j.field) \subseteq
    RowsOfField(j.tgt, j.targetField) \cup (IF j.required THEN {} ELSE {Blank})

RowsFit(x) ==
  /\ x[1] = "dataset" => Cardinality(RowsOfField(x[3], x[4])) = Len(Columns[x[3]][x[4]])
  /\ x[1] = "rel" =>
       \A i \in DOMAIN Named(x[2]).joins :
         Named(x[2]).joins[i].name = x[4] => JoinHolds(Named(x[2]).joins[i])
  /\ x[1] = "dataset" /\ x[3] = "opportunities" =>
      \A k \in DOMAIN OpportunityColumns.account_id :
       \E n \in DOMAIN ContactColumns.contact_id :
         /\ ContactColumns.contact_id[n] = OpportunityColumns.primary_contact_id[k]
         /\ ContactColumns.account_id[n] = OpportunityColumns.account_id[k]

DemoRowsSound == \A x \in content : RowsFit(x)

(* Of the content itself, of which there is one and no more: nothing in it *)
(* clashes, it is what the README counts, its rows fit, and recipes come   *)
(* after the endpoints they link to.                                       *)
ASSUME DemoAssumption ==
  /\ Len(Script) \in Nat /\ DOMAIN Script = 1 .. Len(Script)
  /\ \A i, j \in DOMAIN Script : i # j => ~Clash(Script[i], Script[j])
  /\ WholeDemo({Script[i] : i \in DOMAIN Script})
  /\ \A i \in DOMAIN Script :
       /\ RowsFit(Script[i])
       /\ Script[i][1] = "rel" => Script[i][2] \in Slugs
       /\ Script[i][1] = "recipe" =>
            \A l \in Script[i][4] : \E j \in 1 .. i - 1 :
              Script[j][1] = "endpoint" /\ Script[j][2] = l[1] /\ Script[j][3] = l[2]
  /\ \A slug \in Slugs : \A i \in DOMAIN Named(slug).joins :
       JoinHolds(Named(slug).joins[i]) /\ Named(slug).joins[i].name # Changed

(* When ensure_demo_relationships succeeds, every demo server that still   *)
(* has its datasets has its relationships, and had each of them once.      *)
EnsureRepairs ==
  [][\A p \in Processes : step[p] = "ensure" /\ step'[p] = "up" =>
       \A slug \in Slugs : \A x \in Expected(slug) :
         Cardinality({y \in content' : y[1] = "rel" /\ y[2] = slug /\ y[4] = x[4]}) = 1]_vars

(* However many processes start together and die on the way, each comes up *)
(* in the end.                                                             *)
ComesUp == \A p \in Processes : step[p] # "up" ~> step[p] = "up"

===============================================================================
