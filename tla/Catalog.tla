-------------------------------- MODULE Catalog --------------------------------
(***************************************************************************)
(* The definitions: servers, their datasets, the endpoints that are tools  *)
(* on a dataset, and the relationships between datasets; with the admin    *)
(* operations of service.py that create, change, clone, import and delete  *)
(* them, for several clients at once.                                      *)
(*                                                                         *)
(* An operation first checks, with one autocommit read per check, and then *)
(* writes in one transaction, which is one step here (module Transaction). *)
(* Nothing that was checked need still hold when the transaction begins:   *)
(* what protects the tables then is SQLite's FOREIGN KEY and UNIQUE        *)
(* constraints (external), and what those do not cover is not protected.   *)
(*                                                                         *)
(* Slugs, keys and names are numbers, for ORDER BY; the field pair of a    *)
(* relationship stands for source_field and target_field.                  *)
(***************************************************************************)
EXTENDS Integers, FiniteSets, Functions

CONSTANTS
  Names,        (* slugs, dataset keys, tool names, relationship names     *)
  None,         (* a field that a PATCH leaves out, an inverse_expand_name *)
                (* that a relationship does not have                       *)
  Clients,      (* clients, each with at most one request in flight        *)
  Requests,     (* the requests they make                                  *)
  MaxId         (* bound: no inserting request starts beyond these ids     *)

Relationship ==                             \* of dataset_relationship, but for its server
  [source : Nat, target : Nat, field : Names, expand : Names, inverse : Names \cup {None}]

(* A server with everything in it, by names: what a clone copies, and what  *)
(* a bundle holds.                                                          *)
IsBundle(b) ==
  /\ b = [keys |-> b.keys, tools |-> b.tools, rels |-> b.rels]
  /\ b.keys \subseteq Names
  /\ IsFiniteSet(b.keys)
  /\ IsFiniteSet(DOMAIN b.tools) /\ DOMAIN b.tools \subseteq Names
  /\ b.tools \in [DOMAIN b.tools -> b.keys]
  /\ IsFiniteSet(DOMAIN b.rels) /\ DOMAIN b.rels \subseteq Names
  /\ b.rels \in [DOMAIN b.rels -> Relationship]
  /\ \A n \in DOMAIN b.rels : b.rels[n].source \in b.keys /\ b.rels[n].target \in b.keys

(* What create_relationship accepts of a bundle; import_bundle refuses the  *)
(* others, which are not modelled.                                          *)
Importable(b) ==
  \A n, m \in DOMAIN b.rels : n # m =>
    /\ b.rels[n].source = b.rels[m].source => b.rels[n].expand # b.rels[m].expand
    /\ b.rels[n].target = b.rels[m].target /\ b.rels[n].inverse # None =>
         b.rels[n].inverse # b.rels[m].inverse

IsRequest(q) ==
  \/ q.kind = "createServer" /\ q.slug \in Names /\ IsBundle(q.bundle) /\ Importable(q.bundle)
  \/ q.kind = "cloneServer" /\ q.id \in Nat /\ q.slug \in Names
  \/ q.kind = "updateServer" /\ q.id \in Nat /\ q.slug \in Names
  \/ q.kind = "createDataset" /\ q.id \in Nat /\ q.key \in Names
  \/ q.kind = "updateDataset" /\ q.id \in Nat /\ q.key \in Names
  \/ q.kind = "createEndpoint" /\ q.id \in Nat /\ q.tool \in Names /\ q.ds \in Nat
  \/ q.kind = "updateEndpoint" /\ q.id \in Nat /\ q.tool \in Names \cup {None} /\ q.ds \in Nat \cup {None}
  \/ q.kind = "createRelationship" /\ q.id \in Nat /\ q.name \in Names /\ q.rel \in Relationship
  \/ q.kind \in {"deleteServer", "deleteDataset", "deleteEndpoint", "deleteRelationship"} /\ q.id \in Nat

(* The request of a client that has none in flight.                        *)
NoRequest == [kind |-> "none"]

Tables == {"servers", "datasets", "endpoints", "rels"}

ASSUME CatalogAssumption ==
  /\ Names \subseteq Nat \ {0}
  /\ None \notin Nat
  /\ \A q \in Requests : IsRequest(q)
  /\ MaxId \in [Tables -> Nat]

VARIABLES
  servers,    (* id -> slug                                                *)
  datasets,   (* id -> [server, key]                                       *)
  endpoints,  (* id -> [server, tool, ds]                                  *)
  rels,       (* id -> [server, name, rel]                                 *)
  next,       (* the next AUTOINCREMENT id of each table                   *)
  req,        (* req[c]: the request of c in flight                        *)
  step,       (* step[c]: what the handler of c does next                  *)
  seen,       (* seen[c]: what it read of the row that the request names   *)
  made,       (* made[c]: the id that its transaction inserted or updated  *)
  answer      (* answer[c]: what the last request of c was told            *)

tables == <<servers, datasets, endpoints, rels, next>>

handlers == <<req, step, seen, made, answer>>

vars == <<tables, handlers>>

NothingSeen == [server |-> 0, ds |-> 0]

TablesOK ==
  /\ next \in [Tables -> Nat \ {0}]
  /\ DOMAIN servers \subseteq 1 .. next["servers"] - 1
  /\ \A s \in DOMAIN servers : servers[s] \in Names
  /\ DOMAIN datasets \subseteq 1 .. next["datasets"] - 1
  /\ \A d \in DOMAIN datasets : datasets[d] \in [server : Nat, key : Names]
  /\ DOMAIN endpoints \subseteq 1 .. next["endpoints"] - 1
  /\ \A e \in DOMAIN endpoints : endpoints[e] \in [server : Nat, tool : Names, ds : Nat]
  /\ DOMAIN rels \subseteq 1 .. next["rels"] - 1
  /\ \A r \in DOMAIN rels : rels[r] \in [server : Nat, name : Names, rel : Relationship]

HandlersOK ==
  /\ req \in [Clients -> Requests \cup {NoRequest}]
  /\ step \in [Clients -> {"idle", "require", "source", "target", "clash", "commit", "confirm"}]
  /\ seen \in [Clients -> [server : Nat, ds : Nat]]
  /\ made \in [Clients -> Nat]
  /\ answer \in [Clients -> {"none", "ok", "refused", "broken", "busy"}]

TypeOK == TablesOK /\ HandlersOK

-------------------------------------------------------------------------------
(* What belongs to a server.                                                *)

DatasetsOf(s) == {d \in DOMAIN datasets : datasets[d].server = s}

EndpointsOf(s) == {e \in DOMAIN endpoints : endpoints[e].server = s}

RelsOf(s) == {r \in DOMAIN rels : rels[r].server = s}

(* The content of server s, with names for ids.                             *)
BundleOf(s) ==
  LET ToolOf(t) == CHOOSE e \in EndpointsOf(s) : endpoints[e].tool = t
      RelOf(n)  == CHOOSE r \in RelsOf(s) : rels[r].name = n
  IN  [keys  |-> {datasets[d].key : d \in DatasetsOf(s)},
       tools |-> [t \in {endpoints[e].tool : e \in EndpointsOf(s)} |->
                    datasets[endpoints[ToolOf(t)].ds].key],
       rels  |-> [n \in {rels[r].name : r \in RelsOf(s)} |->
                    [rels[RelOf(n)].rel EXCEPT !.source = datasets[@].key,
                                               !.target = datasets[@].key]]]

ServerGone(s) == s \notin DOMAIN servers

\* mutant: a dataset that does not exist passes
DatasetOfAnother(d, s) == d \in DOMAIN datasets /\ datasets[d].server # s

\* mutant: any dataset passes that exists
DatasetAnywhere(d, s) == d \notin DOMAIN datasets

(* No dataset of server s: it is gone, or belongs to another.               *)
DatasetElsewhere(d, s) == d \notin DatasetsOf(s)

(* Names in use, by others than the row `but`: what an operation checks     *)
(* before it writes, and what a UNIQUE constraint refuses when it does.     *)
SlugTaken(slug, but) == \E s \in DOMAIN servers \ {but} : servers[s] = slug

KeyTaken(s, key, but) == \E d \in DatasetsOf(s) \ {but} : datasets[d].key = key

ToolTaken(s, tool, but) == \E e \in EndpointsOf(s) \ {but} : endpoints[e].tool = tool

RelNameTaken(s, name) == \E r \in RelsOf(s) : rels[r].name = name

\* mutant: the name of the way there is not compared
InverseTaken(s, rel) ==
  \E r \in RelsOf(s) :
    /\ rel.inverse # None
    /\ rels[r].rel.target = rel.target
    /\ rels[r].rel.inverse = rel.inverse

(* What only the code checks: the names under which a dataset shows others. *)
ExpandTaken(s, rel) ==
  \E r \in RelsOf(s) :
    \/ rels[r].rel.source = rel.source /\ rels[r].rel.expand = rel.expand
    \/ /\ rel.inverse # None
       /\ rels[r].rel.target = rel.target
       /\ rels[r].rel.inverse = rel.inverse

SameJoin(a, b) ==
  /\ a.source = b.source /\ a.target = b.target
  /\ a.field = b.field /\ a.expand = b.expand

JoinTaken(rel) == \E r \in DOMAIN rels : SameJoin(rels[r].rel, rel)

\* mutant: the wrong column is compared
InUseByServer(s, d) == \E e \in EndpointsOf(s) : endpoints[e].server = d

InUse(s, d) == \E e \in EndpointsOf(s) : endpoints[e].ds = d

-------------------------------------------------------------------------------
(* A request arrives; its handler runs the checks one after the other.      *)

InsertsInto(kind) ==
  CASE kind \in {"createServer", "cloneServer"} -> Tables
    [] kind = "createDataset"                   -> {"datasets"}
    [] kind = "createEndpoint"                  -> {"endpoints"}
    [] kind = "createRelationship"              -> {"rels"}
    [] OTHER                                    -> {}

Goto(c, s) == step' = [step EXCEPT ![c] = s]

Answer(c, a) == answer' = [answer EXCEPT ![c] = a]

Arrive(c, q) ==
  /\ step[c] = "idle"
  /\ \A t \in InsertsInto(q.kind) : next[t] <= MaxId[t]
  /\ req' = [req EXCEPT ![c] = q]
  /\ seen' = [seen EXCEPT ![c] = NothingSeen]
  /\ made' = [made EXCEPT ![c] = 0]
  /\ Answer(c, "none")
  /\ Goto(c, CASE q.kind = "createServer"       -> "clash"
               [] q.kind = "createRelationship" -> "source"
               [] OTHER                         -> "require")
  /\ UNCHANGED tables

(* A handler ends with an answer, and its request and its locals are gone.  *)
Finish(c, a) ==
  /\ Goto(c, "idle")
  /\ Answer(c, a)
  /\ req' = [req EXCEPT ![c] = NoRequest]
  /\ seen' = [seen EXCEPT ![c] = NothingSeen]
  /\ made' = [made EXCEPT ![c] = 0]

(* A check passes, and the handler goes on to s, or it raises a ServiceError*)
Check(c, ok, s) ==
  /\ IF ok
       THEN Goto(c, s) /\ UNCHANGED <<req, seen, made, answer>>
       ELSE Finish(c, "refused")
  /\ UNCHANGED tables

\* mutant: a server is looked for among those there have ever been
TableOfKnown(kind) ==
  CASE kind = "cloneServer" -> 1 .. next["servers"] - 1
    [] kind \in {"updateServer", "deleteServer", "createDataset", "createEndpoint"} -> DOMAIN servers
    [] kind \in {"updateDataset", "deleteDataset"}   -> DOMAIN datasets
    [] kind \in {"updateEndpoint", "deleteEndpoint"} -> DOMAIN endpoints
    [] OTHER                                         -> DOMAIN rels

(* _require_server, _require_dataset, _require_endpoint,                    *)
(* _require_relationship: the row the request names is read, or is missing. *)
TableOf(kind) ==
  CASE kind \in {"cloneServer", "updateServer", "deleteServer", "createDataset", "createEndpoint"}
         -> DOMAIN servers
    [] kind \in {"updateDataset", "deleteDataset"}   -> DOMAIN datasets
    [] kind \in {"updateEndpoint", "deleteEndpoint"} -> DOMAIN endpoints
    [] OTHER                                         -> DOMAIN rels

ReadOf(q) ==
  CASE q.kind \in {"updateDataset", "deleteDataset"} -> [server |-> datasets[q.id].server, ds |-> q.id]
    [] q.kind = "updateEndpoint" -> [server |-> endpoints[q.id].server, ds |-> endpoints[q.id].ds]
    [] OTHER                     -> NothingSeen

Require(c) ==
  /\ step[c] = "require"
  /\ LET q == req[c]
     IN  IF q.id \in TableOf(q.kind)
           THEN /\ seen' = [seen EXCEPT ![c] = ReadOf(q)]
                /\ Goto(c, CASE q.kind = "createEndpoint" -> "source"
                             [] q.kind \in {"deleteServer", "deleteEndpoint", "deleteRelationship"}
                                                          -> "commit"
                             [] OTHER                     -> "clash")
                /\ UNCHANGED <<req, made, answer>>
           ELSE Finish(c, "refused")
  /\ UNCHANGED tables

(* _validate_endpoint_shape, and the first dataset of create_relationship:  *)
(* the dataset must be there and on the same server. update_endpoint checks *)
(* fields.get("dataset_id") or endpoint["dataset_id"]: when a PATCH sends a *)
(* 0, it is the stored dataset that is looked for, and the 0 is written.    *)
CheckSource(c) ==
  /\ step[c] = "source"
  /\ LET q == req[c]
     IN  \/ /\ q.kind = "createEndpoint"
            /\ Check(c, ~DatasetElsewhere(q.ds, q.id), "clash")
         \/ /\ q.kind = "updateEndpoint"
            /\ LET d == IF q.ds \in {None, 0} THEN seen[c].ds ELSE q.ds
               IN  Check(c, ~DatasetElsewhere(d, seen[c].server), "commit")
         \/ /\ q.kind = "createRelationship"
            /\ Check(c, ~DatasetElsewhere(q.rel.source, q.id), "target")

\* mutant: only the source of a relationship is checked
CheckTargetSkipped(c) ==
  /\ step[c] = "target"
  /\ Check(c, TRUE, "clash")

CheckTarget(c) ==
  /\ step[c] = "target"
  /\ Check(c, ~DatasetElsewhere(req[c].rel.target, req[c].id), "clash")

(* The names that are in use, and the endpoints that use a dataset.         *)
CheckClash(c) ==
  /\ step[c] = "clash"
  /\ LET q == req[c]
     IN  \/ /\ q.kind \in {"createServer", "cloneServer"}
            /\ Check(c, ~SlugTaken(q.slug, 0), "commit")
         \/ /\ q.kind = "updateServer"
            /\ Check(c, ~SlugTaken(q.slug, q.id), "commit")
         \/ /\ q.kind = "createDataset"
            /\ Check(c, ~KeyTaken(q.id, q.key, 0), "commit")
         \/ /\ q.kind = "updateDataset"
            /\ Check(c, ~KeyTaken(seen[c].server, q.key, q.id), "commit")
         \/ /\ q.kind = "deleteDataset"
            /\ Check(c, ~InUse(seen[c].server, q.id), "commit")
         \/ /\ q.kind = "createEndpoint"
            /\ Check(c, ~ToolTaken(q.id, q.tool, 0), "commit")
         \/ /\ q.kind = "updateEndpoint"
            /\ Check(c, q.tool = None \/ ~ToolTaken(seen[c].server, q.tool, q.id), "source")
         \/ /\ q.kind = "createRelationship"
            /\ Check(c, ~RelNameTaken(q.id, q.name) /\ ~ExpandTaken(q.id, q.rel), "commit")

-------------------------------------------------------------------------------
(* The transactions.                                                        *)

(* The table f with the rows of g added.                                    *)
With(f, g) == [x \in DOMAIN f \cup DOMAIN g |-> IF x \in DOMAIN g THEN g[x] ELSE f[x]]

One(t, row) == [x \in {next[t]} |-> row]

(* The ids of rows that are inserted into t in the order of their names S.  *)
Rank(n, S) == Cardinality({m \in S : m < n})

IdIn(t, n, S) == next[t] + Rank(n, S)

(* Rows of t for the names S: row[n] for each n of them.                    *)
RowsFor(t, S, row) ==
  [x \in {IdIn(t, n, S) : n \in S} |-> row[CHOOSE n \in S : IdIn(t, n, S) = x]]

Counted(n) == next' = [t \in Tables |-> next[t] + n[t]]

\* mutant: the datasets of a relationship are mixed up
InsertServerMixed(slug, b) ==
  LET s == next["servers"]
      dataset(k) == IdIn("datasets", k, b.keys)
      tools == DOMAIN b.tools
      names == DOMAIN b.rels
  IN  /\ servers' = With(servers, One("servers", slug))
      /\ datasets' = With(datasets, RowsFor("datasets", b.keys,
           [k \in b.keys |-> [server |-> s, key |-> k]]))
      /\ endpoints' = With(endpoints, RowsFor("endpoints", tools,
           [t \in tools |-> [server |-> s, tool |-> t, ds |-> dataset(b.tools[t])]]))
      /\ rels' = With(rels, RowsFor("rels", names,
           [n \in names |-> [server |-> s, name |-> n,
              rel |-> [b.rels[n] EXCEPT !.source = dataset(@), !.target = dataset(b.rels[n].source)]]]))
      /\ Counted([servers |-> 1, datasets |-> Cardinality(b.keys),
                  endpoints |-> Cardinality(tools), rels |-> Cardinality(names)])

(* A server with all that b holds: import_bundle and _clone_server_rows map *)
(* the datasets of b to those they have just inserted.                      *)
InsertServer(slug, b) ==
  LET s == next["servers"]
      dataset(k) == IdIn("datasets", k, b.keys)
      tools == DOMAIN b.tools
      names == DOMAIN b.rels
  IN  /\ servers' = With(servers, One("servers", slug))
      /\ datasets' = With(datasets, RowsFor("datasets", b.keys,
           [k \in b.keys |-> [server |-> s, key |-> k]]))
      /\ endpoints' = With(endpoints, RowsFor("endpoints", tools,
           [t \in tools |-> [server |-> s, tool |-> t, ds |-> dataset(b.tools[t])]]))
      /\ rels' = With(rels, RowsFor("rels", names,
           [n \in names |-> [server |-> s, name |-> n,
              rel |-> [b.rels[n] EXCEPT !.source = dataset(@), !.target = dataset(@)]]]))
      /\ Counted([servers |-> 1, datasets |-> Cardinality(b.keys),
                  endpoints |-> Cardinality(tools), rels |-> Cardinality(names)])

InsertRow(t) == next' = [next EXCEPT ![t] = @ + 1]

(* The rows that are left of each table when the datasets D are deleted:    *)
(* the foreign keys cascade.                                                *)
EndpointsWithout(D) == {e \in DOMAIN endpoints : endpoints[e].ds \notin D}

\* mutant: target_dataset_id does not cascade
RelsWithoutSource(D) == {r \in DOMAIN rels : rels[r].rel.source \notin D}

RelsWithout(D) == {r \in DOMAIN rels : rels[r].rel.source \notin D /\ rels[r].rel.target \notin D}

\* mutant: a schema without UNIQUE
BreaksReferences(c) ==
  LET q == req[c]
  IN  \/ q.kind \in {"createDataset", "createEndpoint", "createRelationship"} /\ ServerGone(q.id)
      \/ /\ \/ q.kind = "createEndpoint"
            \/ q.kind = "updateEndpoint" /\ q.id \in DOMAIN endpoints /\ q.ds # None
         /\ q.ds \notin DOMAIN datasets
      \/ /\ q.kind = "createRelationship"
         /\ q.rel.source \notin DOMAIN datasets \/ q.rel.target \notin DOMAIN datasets

(* A constraint of the schema refuses the statement.                        *)
Breaks(c) ==
  LET q == req[c]
  IN  \/ q.kind \in {"createServer", "cloneServer"} /\ SlugTaken(q.slug, 0)
      \/ /\ q.kind = "updateServer"
         /\ q.id \in DOMAIN servers /\ SlugTaken(q.slug, q.id)
      \/ /\ q.kind = "createDataset"
         /\ ServerGone(q.id) \/ KeyTaken(q.id, q.key, 0)
      \/ /\ q.kind = "updateDataset"
         /\ q.id \in DOMAIN datasets /\ KeyTaken(datasets[q.id].server, q.key, q.id)
      \/ /\ q.kind = "createEndpoint"
         /\ ServerGone(q.id) \/ q.ds \notin DOMAIN datasets \/ ToolTaken(q.id, q.tool, 0)
      \/ /\ q.kind = "updateEndpoint"
         /\ q.id \in DOMAIN endpoints
         /\ \/ q.ds # None /\ q.ds \notin DOMAIN datasets
            \/ q.tool # None /\ ToolTaken(endpoints[q.id].server, q.tool, q.id)
      \/ /\ q.kind = "createRelationship"
         /\ \/ ServerGone(q.id)
            \/ q.rel.source \notin DOMAIN datasets \/ q.rel.target \notin DOMAIN datasets
            \/ RelNameTaken(q.id, q.name) \/ JoinTaken(q.rel)

(* import_bundle, create_server (which is an import of nothing) and         *)
(* clone_server: a source that is gone by now has nothing to be copied.     *)
CreateServer(q) ==
  \/ q.kind = "createServer" /\ InsertServer(q.slug, q.bundle)
  \/ q.kind = "cloneServer" /\ InsertServer(q.slug, BundleOf(q.id))

(* An UPDATE of a row that is gone changes nothing.                         *)
UpdateServer(q) ==
  /\ q.kind = "updateServer"
  /\ servers' = [s \in DOMAIN servers |-> IF s = q.id THEN q.slug ELSE servers[s]]
  /\ UNCHANGED <<datasets, endpoints, rels, next>>

DeleteServer(q) ==
  /\ q.kind = "deleteServer"
  /\ LET D == DatasetsOf(q.id)
     IN  /\ datasets' = Restrict(datasets, DOMAIN datasets \ D)
         /\ endpoints' = Restrict(endpoints, EndpointsWithout(D) \ EndpointsOf(q.id))
         /\ rels' = Restrict(rels, RelsWithout(D) \ RelsOf(q.id))
  /\ servers' = Restrict(servers, DOMAIN servers \ {q.id})
  /\ UNCHANGED next

CreateDataset(q) ==
  /\ q.kind = "createDataset"
  /\ datasets' = With(datasets, One("datasets", [server |-> q.id, key |-> q.key]))
  /\ InsertRow("datasets")
  /\ UNCHANGED <<servers, endpoints, rels>>

UpdateDataset(q) ==
  /\ q.kind = "updateDataset"
  /\ datasets' = [d \in DOMAIN datasets |->
                    IF d = q.id THEN [datasets[d] EXCEPT !.key = q.key] ELSE datasets[d]]
  /\ UNCHANGED <<servers, endpoints, rels, next>>

DeleteDataset(q) ==
  /\ q.kind = "deleteDataset"
  /\ datasets' = Restrict(datasets, DOMAIN datasets \ {q.id})
  /\ endpoints' = Restrict(endpoints, EndpointsWithout({q.id}))
  /\ rels' = Restrict(rels, RelsWithout({q.id}))
  /\ UNCHANGED <<servers, next>>

CreateEndpoint(q) ==
  /\ q.kind = "createEndpoint"
  /\ endpoints' = With(endpoints, One("endpoints", [server |-> q.id, tool |-> q.tool, ds |-> q.ds]))
  /\ InsertRow("endpoints")
  /\ UNCHANGED <<servers, datasets, rels>>

UpdateEndpoint(q) ==
  /\ q.kind = "updateEndpoint"
  /\ endpoints' = [e \in DOMAIN endpoints |->
       IF e = q.id
         THEN [endpoints[e] EXCEPT !.tool = IF q.tool = None THEN @ ELSE q.tool,
                                   !.ds = IF q.ds = None THEN @ ELSE q.ds]
         ELSE endpoints[e]]
  /\ UNCHANGED <<servers, datasets, rels, next>>

DeleteEndpoint(q) ==
  /\ q.kind = "deleteEndpoint"
  /\ endpoints' = Restrict(endpoints, DOMAIN endpoints \ {q.id})
  /\ UNCHANGED <<servers, datasets, rels, next>>

CreateRelationship(q) ==
  /\ q.kind = "createRelationship"
  /\ rels' = With(rels, One("rels", [server |-> q.id, name |-> q.name, rel |-> q.rel]))
  /\ InsertRow("rels")
  /\ UNCHANGED <<servers, datasets, endpoints>>

DeleteRelationship(q) ==
  /\ q.kind = "deleteRelationship"
  /\ rels' = Restrict(rels, DOMAIN rels \ {q.id})
  /\ UNCHANGED <<servers, datasets, endpoints, next>>

Write(q) ==
  \/ CreateServer(q) \/ UpdateServer(q) \/ DeleteServer(q)
  \/ CreateDataset(q) \/ UpdateDataset(q) \/ DeleteDataset(q)
  \/ CreateEndpoint(q) \/ UpdateEndpoint(q) \/ DeleteEndpoint(q)
  \/ CreateRelationship(q) \/ DeleteRelationship(q)

DeletingKinds == {"deleteServer", "deleteDataset", "deleteEndpoint", "deleteRelationship"}

(* The id whose row the handler answers with.                               *)
RowMade(q) ==
  CASE q.kind \in {"createServer", "cloneServer"} -> next["servers"]
    [] q.kind = "createDataset"                   -> next["datasets"]
    [] q.kind = "createEndpoint"                  -> next["endpoints"]
    [] q.kind = "createRelationship"              -> next["rels"]
    [] OTHER                                      -> q.id

Commit(c) ==
  /\ step[c] = "commit"
  /\ ~Breaks(c)
  /\ Write(req[c])
  /\ IF req[c].kind \in DeletingKinds
       THEN Finish(c, "ok")
       ELSE /\ Goto(c, "confirm")
            /\ made' = [made EXCEPT ![c] = RowMade(req[c])]
            /\ UNCHANGED <<req, seen, answer>>

(* IntegrityError is no ServiceError: the client is told of a broken server.*)
CommitBreaks(c) ==
  /\ step[c] = "commit"
  /\ Breaks(c)
  /\ Finish(c, "broken")
  /\ UNCHANGED tables

(* "database is locked".                                                    *)
CommitBusy(c) ==
  /\ step[c] = "commit"
  /\ Finish(c, "busy")
  /\ UNCHANGED tables

(* The handler answers with the row, and raises NotFound when it is gone.   *)
MadeIn(kind) ==
  CASE kind \in {"createServer", "cloneServer", "updateServer"} -> DOMAIN servers
    [] kind \in {"createDataset", "updateDataset"}              -> DOMAIN datasets
    [] kind \in {"createEndpoint", "updateEndpoint"}            -> DOMAIN endpoints
    [] OTHER                                                    -> DOMAIN rels

Confirm(c) ==
  /\ step[c] = "confirm"
  /\ Finish(c, IF made[c] \in MadeIn(req[c].kind) THEN "ok" ELSE "refused")
  /\ UNCHANGED tables

(* The process dies between two steps and is started again.                 *)
Crash ==
  /\ req' = [c \in Clients |-> NoRequest]
  /\ step' = [c \in Clients |-> "idle"]
  /\ seen' = [c \in Clients |-> NothingSeen]
  /\ made' = [c \in Clients |-> 0]
  /\ UNCHANGED <<tables, answer>>

-------------------------------------------------------------------------------
Init ==
  /\ servers = [s \in {} |-> 0]
  /\ datasets = [d \in {} |-> 0]
  /\ endpoints = [e \in {} |-> 0]
  /\ rels = [r \in {} |-> 0]
  /\ next = [t \in Tables |-> 1]
  /\ req = [c \in Clients |-> NoRequest]
  /\ step = [c \in Clients |-> "idle"]
  /\ seen = [c \in Clients |-> NothingSeen]
  /\ made = [c \in Clients |-> 0]
  /\ answer = [c \in Clients |-> "none"]

Handle(c) ==
  \/ Require(c)
  \/ CheckSource(c)
  \/ CheckTarget(c)
  \/ CheckClash(c)
  \/ Commit(c)
  \/ CommitBreaks(c)
  \/ CommitBusy(c)
  \/ Confirm(c)

Next ==
  \/ \E c \in Clients, q \in Requests : Arrive(c, q)
  \/ \E c \in Clients : Handle(c)
  \/ Crash

Spec == Init /\ [][Next]_vars

-------------------------------------------------------------------------------
(* Properties.                                                              *)

(* Tools and relationships stay on their own server: each endpoint and each *)
(* relationship stands for datasets that exist and belong to its server,    *)
(* whatever was deleted, moved or created between its check and its write.  *)
OwnData ==
  /\ \A d \in DOMAIN datasets : datasets[d].server \in DOMAIN servers
  /\ \A e \in DOMAIN endpoints : endpoints[e].ds \in DatasetsOf(endpoints[e].server)
  /\ \A r \in DOMAIN rels :
       /\ rels[r].rel.source \in DatasetsOf(rels[r].server)
       /\ rels[r].rel.target \in DatasetsOf(rels[r].server)

(* Two requests that both found a slug, a key or a tool name free do not    *)
(* both get it.                                                             *)
UniqueNames ==
  /\ \A s, t \in DOMAIN servers : servers[s] = servers[t] => s = t
  /\ \A d, e \in DOMAIN datasets : datasets[d] = datasets[e] => d = e
  /\ \A d, e \in DOMAIN endpoints :
       endpoints[d].server = endpoints[e].server /\ endpoints[d].tool = endpoints[e].tool => d = e
  /\ \A d, e \in DOMAIN rels :
       rels[d].server = rels[e].server /\ rels[d].name = rels[e].name => d = e

(* What a server holds.                                                     *)
Unchanged(s) ==
  /\ s \in DOMAIN servers' /\ servers'[s] = servers[s]
  /\ DatasetsOf(s)' = DatasetsOf(s)
  /\ \A d \in DatasetsOf(s) : datasets'[d] = datasets[d]
  /\ EndpointsOf(s)' = EndpointsOf(s)
  /\ \A e \in EndpointsOf(s) : endpoints'[e] = endpoints[e]
  /\ RelsOf(s)' = RelsOf(s)
  /\ \A r \in RelsOf(s) : rels'[r] = rels[r]

(* The servers of a cohort are independent: no operation on one changes     *)
(* another, cascades included.                                              *)
IsolatedServers ==
  [][\A s, t \in DOMAIN servers : s # t => Unchanged(s) \/ Unchanged(t)]_vars

Commits(c, kind) ==
  req[c].kind = kind /\ step[c] = "commit" /\ (step'[c] = "confirm" \/ answer'[c] = "ok")

(* A clone is the source as it is when the clone is made, and an import is  *)
(* its bundle: the same keys, tools on the same keys, the same joins.       *)
FaithfulCopies ==
  [][\A c \in Clients, s \in {next["servers"]} :
       /\ Commits(c, "cloneServer") => BundleOf(s)' = BundleOf(req[c].id)
       /\ Commits(c, "createServer") => BundleOf(s)' = req[c].bundle]_vars

(* Deleting a dataset takes no tool away: one that is still used by an      *)
(* endpoint is not deleted.                                                 *)
ToolsOutliveDatasets ==
  [][\A c \in Clients : Commits(c, "deleteDataset") => UNCHANGED endpoints]_vars

(* Per direction, a dataset has no name twice: not among the names under    *)
(* which it shows others, nor among those under which it is shown back. One *)
(* of either direction may be the same: create_relationship compares an     *)
(* expand_name with the expand_names and an inverse_expand_name with the    *)
(* inverse_expand_names only, and expand_rows then has one way of the two.  *)
ExpandNamesDistinct ==
  \A r, p \in DOMAIN rels : r # p =>
    /\ rels[r].rel.source = rels[p].rel.source => rels[r].rel.expand # rels[p].rel.expand
    /\ /\ rels[r].rel.target = rels[p].rel.target
       /\ rels[r].rel.inverse # None
       => rels[r].rel.inverse # rels[p].rel.inverse

(* No server is made as the clone of one that is not there.                 *)
ClonesHaveSources ==
  [][\A c \in Clients : Commits(c, "cloneServer") => req[c].id \in DOMAIN servers]_vars

SendsZero(q) == q.kind = "updateEndpoint" /\ q.ds = 0

(* What an operation cannot do is refused by its checks, with a 404, 409 or *)
(* 400, and does not surface as an IntegrityError, a 500: with one request  *)
(* at a time that is so of all requests but one, a PATCH of an endpoint     *)
(* with a dataset_id of 0, which the checks of update_endpoint do not see.  *)
RefusedByChecks ==
  [][\A c \in Clients : answer[c] # "broken" /\ answer'[c] = "broken" => SendsZero(req[c])]_vars

-------------------------------------------------------------------------------
(* The inductive invariant behind OwnData and IsolatedServers.              *)

(* Dataset d, which was seen on server s: it is gone or still there.        *)
WasOn(d, s) ==
  /\ d \in 1 .. next["datasets"] - 1
  /\ d \in DOMAIN datasets => datasets[d].server = s

(* What the checks have established by the time of the write, and what is   *)
(* left of it: ids do not come back, and no row changes its server.         *)
Vetted(c) ==
  LET q == req[c]
  IN  /\ step[c] = "target" => q.kind = "createRelationship"
      /\ step[c] = "require" => q.kind # "createRelationship"
      /\ q.kind = "createEndpoint" /\ step[c] \in {"clash", "commit"} => WasOn(q.ds, q.id)
      /\ q.kind = "createRelationship" /\ step[c] \in {"target", "clash", "commit"} =>
           WasOn(q.rel.source, q.id)
      /\ q.kind = "createRelationship" /\ step[c] \in {"clash", "commit"} =>
           WasOn(q.rel.target, q.id)
      /\ q.kind = "updateEndpoint" /\ step[c] \in {"clash", "source", "commit"} =>
           /\ q.id \in 1 .. next["endpoints"] - 1
           /\ q.id \in DOMAIN endpoints => endpoints[q.id].server = seen[c].server
      /\ q.kind = "updateEndpoint" /\ step[c] = "commit" /\ q.ds \notin {None, 0} =>
           WasOn(q.ds, seen[c].server)

IInv == TypeOK /\ OwnData /\ \A c \in Clients : Vetted(c)

(* A client is told nothing before its handler is done.                     *)
Silent(c) == step[c] # "idle" => answer[c] = "none"

(* What the checks have established of the row that the request names, when *)
(* nobody else writes: it is there, and is what was read of it.             *)
RowFound(c) ==
  LET q == req[c]
  IN  /\ q.kind = "cloneServer" /\ step[c] \in {"clash", "commit"} => q.id \in DOMAIN servers
      /\ q.kind = "createDataset" /\ step[c] \in {"clash", "commit"} => q.id \in DOMAIN servers
      /\ q.kind = "createEndpoint" /\ step[c] \in {"source", "clash", "commit"} => q.id \in DOMAIN servers
      /\ q.kind \in {"updateDataset", "deleteDataset"} /\ step[c] \in {"clash", "commit"} =>
           q.id \in DatasetsOf(seen[c].server)
      /\ q.kind = "updateEndpoint" /\ step[c] \in {"clash", "source", "commit"} =>
           q.id \in EndpointsOf(seen[c].server)

(* The datasets of a tool or a relationship, when nobody else writes.       *)
DatasetsFound(c) ==
  LET q == req[c]
  IN  /\ q.kind = "createEndpoint" /\ step[c] \in {"clash", "commit"} => q.ds \in DatasetsOf(q.id)
      /\ q.kind = "updateEndpoint" /\ step[c] = "commit" /\ q.ds \notin {None, 0} =>
           q.ds \in DatasetsOf(seen[c].server)
      /\ q.kind = "createRelationship" /\ step[c] \in {"target", "clash", "commit"} =>
           q.rel.source \in DatasetsOf(q.id)
      /\ q.kind = "createRelationship" /\ step[c] \in {"clash", "commit"} =>
           q.rel.target \in DatasetsOf(q.id)

(* The names that the write is about to take, when nobody else writes.      *)
NamesFree(c) ==
  LET q == req[c]
  IN  /\ q.kind \in {"createServer", "cloneServer"} /\ step[c] = "commit" => ~SlugTaken(q.slug, 0)
      /\ q.kind = "updateServer" /\ step[c] = "commit" => ~SlugTaken(q.slug, q.id)
      /\ q.kind = "createDataset" /\ step[c] = "commit" => ~KeyTaken(q.id, q.key, 0)
      /\ q.kind = "updateDataset" /\ step[c] = "commit" => ~KeyTaken(seen[c].server, q.key, q.id)
      /\ q.kind = "deleteDataset" /\ step[c] = "commit" => ~InUse(seen[c].server, q.id)
      /\ q.kind = "createEndpoint" /\ step[c] = "commit" => ~ToolTaken(q.id, q.tool, 0)
      /\ q.kind = "updateEndpoint" /\ step[c] \in {"source", "commit"} /\ q.tool # None =>
           ~ToolTaken(seen[c].server, q.tool, q.id)
      /\ q.kind = "createRelationship" /\ step[c] = "commit" =>
           ~RelNameTaken(q.id, q.name) /\ ~ExpandTaken(q.id, q.rel)

(* The inductive invariant of one admin at work alone: what its handler     *)
(* found is still so when it writes.                                        *)
SerialInv ==
  /\ ExpandNamesDistinct
  /\ \A c \in Clients : Silent(c) /\ RowFound(c) /\ DatasetsFound(c) /\ NamesFree(c)

===============================================================================
