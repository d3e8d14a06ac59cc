------------------------------- MODULE Portability -------------------------------
(***************************************************************************)
(* Copies of a server: portability.build_bundle and import_bundle, and     *)
(* service.bulk_clone_server (clone_server is the case of one slug), while *)
(* the server is edited.                                                   *)
(*                                                                         *)
(* build_bundle reads the server piece by piece, in autocommit: each piece *)
(* is a step, and may see another state of the server.  import_bundle and  *)
(* bulk_clone_server look for the slugs first and then work in one         *)
(* transaction, whose first INSERT takes the write lock: a step each.      *)
(* Exporters import what they exported.  Endpoints are their tool name and *)
(* dataset, relationships their name and two datasets; module Catalog has  *)
(* the rules for their names.                                              *)
(***************************************************************************)
EXTENDS Naturals, FiniteSets, FiniteSetsExt

CONSTANTS
  Exporters, Cloners, Editors,   (* threads                                *)
  Ids,            (* ids of datasets of the server; bounds their creation  *)
  Keys,           (* keys of datasets, "" included                         *)
  Tools, Rels,    (* names of endpoints and of relationships               *)
  Rows,           (* what the rows of a dataset may be                     *)
  Clean(_),       (* rows without _row_id and sensitive fields             *)
  Slugs, Targets, (* slugs, and the sets of slugs to clone into            *)
  Unused, Deleted, Absent, Nothing

Clients == Exporters \cup Cloners \cup Editors

Dataset == [key : Keys, live : Rows, seed : Rows]

ToolLinks == Tools \X Keys

RelLinks == Rels \X Keys \X Keys

(* A server by the names in it, and one that is being read: seed rows come *)
(* after the live ones.                                                    *)
Server == [datasets : SUBSET Dataset, tools : SUBSET ToolLinks, rels : SUBSET RelLinks]

Bundle ==
  [datasets : SUBSET [key : Keys, live : Rows, seed : Rows \cup {Nothing}],
   tools : SUBSET ToolLinks, rels : SUBSET RelLinks]

PortabilityAssumption ==
  /\ IsFiniteSet(Ids) /\ Ids = 1 .. Cardinality(Ids)
  /\ \A r \in Rows : Clean(r) \in Rows /\ Clean(Clean(r)) = Clean(r)
  /\ \A t \in Targets : t \subseteq Slugs /\ t # {}
  /\ Unused # Deleted /\ {Unused, Deleted} \cap Dataset = {}
  /\ Absent \notin Server /\ Absent \notin Ids \cup (Ids \X Ids)
  /\ Nothing \notin Bundle /\ Nothing \notin Rows

VARIABLES
  datasets,   (* datasets[d]: [key, live, seed], Unused or Deleted         *)
  tools,      (* tools[t]: the dataset of the endpoint t, or Absent        *)
  rels,       (* rels[n]: <<source, target>>, or Absent                    *)
  copies,     (* copies[g]: the server with slug g, by names; or Absent    *)
  step,       (* step[c]: what c does next, or how its request ended       *)
  keyOf,      (* keyOf[c]: id -> key, as the export of c listed them       *)
  queue,      (* queue[c]: the datasets it has yet to read, in the order   *)
              (* of their ids                                              *)
  bundle,     (* bundle[c]: what it has read                               *)
  slugs,      (* slugs[c]: where c clones or imports to                    *)
  source      (* history: the server when the export of c began            *)

vars == <<datasets, tools, rels, copies, step, keyOf, queue, bundle, slugs, source>>

server == <<datasets, tools, rels>>

Stored == {d \in Ids : datasets[d] \notin {Unused, Deleted}}

(* A server by the names in it: endpoints and relationships, with a key    *)
(* for each dataset; and all of it as it is now.                           *)
NamedTools(key) == {<<t, key[tools[t]]>> : t \in {u \in Tools : tools[u] # Absent}}

NamedRels(key) ==
  {<<n, key[rels[n][1]], key[rels[n][2]]>> : n \in {m \in Rels : rels[m] # Absent}}

KeysNow == [d \in Stored |-> datasets[d].key]

Whole ==
  [datasets |-> {datasets[d] : d \in Stored}, tools |-> NamedTools(KeysNow),
   rels |-> NamedRels(KeysNow)]

CleanServer(s) ==
  [s EXCEPT !.datasets = {[d EXCEPT !.live = Clean(@), !.seed = Clean(@)] : d \in s.datasets}]

Empty == [datasets |-> {}, tools |-> {}, rels |-> {}]

Init ==
  /\ datasets \in [Ids -> [key : Keys \ {""}, live : Rows, seed : Rows] \cup {Unused}]
  /\ \A d \in Ids : (datasets[d] # Unused) = (d = 1)
  /\ tools = [t \in Tools |-> Absent] /\ rels = [n \in Rels |-> Absent]
  /\ copies = [g \in Slugs |-> Absent]
  /\ step = [c \in Clients |-> "idle"]
  /\ keyOf = [c \in Exporters |-> <<>>] /\ queue = [c \in Exporters |-> {}]
  /\ bundle = [c \in Exporters |-> Nothing] /\ source = bundle
  /\ slugs = [c \in Clients |-> {}]

Exporting(c) == step[c] \in {"datasets", "seeds", "endpoints", "rels", "bundle", "import"}

Idle(c) == ~Exporting(c) /\ step[c] # "clone"

Goto(c, s) == step' = [step EXCEPT ![c] = s]

-------------------------------------------------------------------------------
(* Editors: each a transaction.                                            *)

Edit(c) ==
  /\ c \in Editors /\ Idle(c)
  /\ UNCHANGED <<copies, step, keyOf, queue, bundle, slugs, source>>

ReplaceRows(c, d, rows) ==
  /\ Edit(c) /\ d \in Stored
  /\ datasets' = [datasets EXCEPT ![d].live = rows]
  /\ UNCHANGED <<tools, rels>>

SaveAsSeed(c, d) ==
  /\ Edit(c) /\ d \in Stored
  /\ datasets' = [datasets EXCEPT ![d].seed = datasets[d].live]
  /\ UNCHANGED <<tools, rels>>

FreeKey(k) == \A d \in Stored : datasets[d].key # k

CreateDataset(c, k, rows) ==
  LET unused == {d \in Ids : datasets[d] = Unused} IN
  /\ Edit(c) /\ unused # {} /\ FreeKey(k) /\ k # ""
  /\ datasets' = [datasets EXCEPT ![Min(unused)] = [key |-> k, live |-> rows, seed |-> rows]]
  /\ UNCHANGED <<tools, rels>>

(* update_dataset takes any key.                                           *)
RenameDataset(c, d, k) ==
  /\ Edit(c) /\ d \in Stored /\ FreeKey(k)
  /\ datasets' = [datasets EXCEPT ![d].key = k]
  /\ UNCHANGED <<tools, rels>>

Ends(r) == {r[1], r[2]}

(* Refused while endpoints use it; relationships go along.                 *)
DeleteDataset(c, d) ==
  /\ Edit(c) /\ d \in Stored /\ \A t \in Tools : tools[t] # d
  /\ datasets' = [datasets EXCEPT ![d] = Deleted]
  /\ rels' = [n \in Rels |-> IF rels[n] # Absent /\ d \in Ends(rels[n]) THEN Absent ELSE rels[n]]
  /\ UNCHANGED tools

(* Creation, update and deletion of an endpoint.                           *)
SetTool(c, t, d) ==
  /\ Edit(c) /\ d \in Stored \cup {Absent} /\ tools[t] # d
  /\ tools' = [tools EXCEPT ![t] = d]
  /\ UNCHANGED <<datasets, rels>>

(* Creation and deletion of a relationship.                                *)
SetRel(c, n, r) ==
  /\ Edit(c) /\ (rels[n] = Absent) # (r = Absent)
  /\ r # Absent => Ends(r) \subseteq Stored
  /\ rels' = [rels EXCEPT ![n] = r]
  /\ UNCHANGED <<datasets, tools>>

-------------------------------------------------------------------------------
(* build_bundle                                                            *)

Reading == UNCHANGED <<server, copies, slugs, source>>

BeginExport(c) ==
  /\ c \in Exporters /\ Idle(c)
  /\ keyOf' = [keyOf EXCEPT ![c] = [d \in Stored |-> datasets[d].key]]
  /\ queue' = [queue EXCEPT ![c] = Stored]
  /\ bundle' = [bundle EXCEPT ![c] = Empty]
  /\ source' = [source EXCEPT ![c] = Whole]
  /\ Goto(c, "datasets")
  /\ UNCHANGED <<server, copies, slugs>>

Abandon(c, how) ==
  /\ Goto(c, how)
  /\ keyOf' = [keyOf EXCEPT ![c] = <<>>]
  /\ queue' = [queue EXCEPT ![c] = {}]
  /\ bundle' = [bundle EXCEPT ![c] = Nothing]
  /\ slugs' = [slugs EXCEPT ![c] = {}]
  /\ source' = [source EXCEPT ![c] = Nothing]
  /\ UNCHANGED <<server, copies>>

(* _bundle_dataset: the live rows; then, by a backup of the whole          *)
(* database, the seed rows.  The key is the one listed before.             *)
ReadLive(c, d) == [key |-> keyOf[c][d], live |-> Clean(datasets[d].live), seed |-> Nothing]

ReadSeed(c, d) == [key |-> keyOf[c][d], live |-> Nothing, seed |-> Clean(datasets[d].seed)]

ExportRows(c) ==
  LET d == Min(queue[c]) IN
  /\ step[c] = "datasets" /\ queue[c] # {} /\ d \in Stored
  /\ bundle' = [bundle EXCEPT ![c].datasets = @ \cup {ReadLive(c, d)}]
  /\ Goto(c, "seeds")
  /\ UNCHANGED <<keyOf, queue>> /\ Reading

ExportSeeds(c) ==
  LET d == Min(queue[c])
      half == CHOOSE x \in bundle[c].datasets : x.seed = Nothing IN
  /\ step[c] = "seeds" /\ d \in Stored
  /\ bundle' = [bundle EXCEPT ![c].datasets =
       (@ \ {half}) \cup {[half EXCEPT !.seed = ReadSeed(c, d).seed]}]
  /\ queue' = [queue EXCEPT ![c] = @ \ {d}]
  /\ Goto(c, IF queue[c] = {d} THEN "endpoints" ELSE "datasets")
  /\ UNCHANGED keyOf /\ Reading

(* list_rows and reset_to_seed raise NotFound.                             *)
DatasetGone(c) ==
  /\ step[c] \in {"datasets", "seeds"} /\ queue[c] # {} /\ Min(queue[c]) \notin Stored
  /\ Abandon(c, "refused")

NoDatasets(c) ==
  /\ step[c] = "datasets" /\ queue[c] = {}
  /\ Goto(c, "endpoints")
  /\ UNCHANGED <<keyOf, queue, bundle>> /\ Reading

UsedByTools == {tools[t] : t \in Tools} \ {Absent}

UsedByRels == UNION {Ends(rels[n]) : n \in {m \in Rels : rels[m] # Absent}}

(* dataset_keys[...] raises a KeyError that nothing catches.               *)
UnknownKey(c) ==
  /\ \/ step[c] = "endpoints" /\ ~(UsedByTools \subseteq DOMAIN keyOf[c])
     \/ step[c] = "rels" /\ ~(UsedByRels \subseteq DOMAIN keyOf[c])
  /\ Abandon(c, "keyerror")

\* mutant: endpoints name the keys of now
ExportEndpointsFresh(c) ==
  /\ step[c] = "endpoints" /\ UsedByTools \subseteq DOMAIN keyOf[c]
  /\ bundle' = [bundle EXCEPT ![c].tools = NamedTools(KeysNow)]
  /\ Goto(c, "rels")
  /\ UNCHANGED <<keyOf, queue>> /\ Reading

ExportEndpoints(c) ==
  /\ step[c] = "endpoints" /\ UsedByTools \subseteq DOMAIN keyOf[c]
  /\ bundle' = [bundle EXCEPT ![c].tools = NamedTools(keyOf[c])]
  /\ Goto(c, "rels")
  /\ UNCHANGED <<keyOf, queue>> /\ Reading

ExportRels(c) ==
  /\ step[c] = "rels" /\ UsedByRels \subseteq DOMAIN keyOf[c]
  /\ bundle' = [bundle EXCEPT ![c].rels = NamedRels(keyOf[c])]
  /\ keyOf' = [keyOf EXCEPT ![c] = <<>>]
  /\ Goto(c, "bundle")
  /\ UNCHANGED queue /\ Reading

-------------------------------------------------------------------------------
(* import_bundle and bulk_clone_server                                     *)

Taken(gs) == \E g \in gs : copies[g] # Absent

(* _required_str(dataset, "key"), raised inside the transaction.           *)
Malformed(b) == \E d \in b.datasets : d.key = ""

BeginImport(c, g) ==
  /\ step[c] = "bundle"
  /\ \/ /\ Taken({g}) \/ Malformed(bundle[c])
        /\ Abandon(c, "refused")
     \/ /\ ~Taken({g}) /\ ~Malformed(bundle[c])
        /\ slugs' = [slugs EXCEPT ![c] = {g}]
        /\ Goto(c, "import")
        /\ UNCHANGED <<server, copies, keyOf, queue, bundle, source>>

(* A dataset is created with its seed rows as live rows, which are         *)
(* replaced when the bundle has others; ids are new, keys lead to them.    *)
Created(d) == [d EXCEPT !.live = d.seed]

Made(d) == IF d.live = d.seed THEN Created(d) ELSE [Created(d) EXCEPT !.live = d.live]

\* mutant: live rows are not replaced
ImportedLazy(b) == [b EXCEPT !.datasets = {Created(d) : d \in b.datasets}]

Imported(b) == [b EXCEPT !.datasets = {Made(d) : d \in b.datasets}]

(* The request ends: UNIQUE (slug) fails, nothing is kept, and no handler  *)
(* catches it; or the copies are there.                                    *)
Finish(c, how, made) ==
  /\ Goto(c, how)
  /\ copies' = made
  /\ slugs' = [slugs EXCEPT ![c] = {}]
  /\ IF c \in Exporters
       THEN /\ bundle' = [bundle EXCEPT ![c] = Nothing]
            /\ source' = [source EXCEPT ![c] = Nothing]
       ELSE UNCHANGED <<bundle, source>>
  /\ UNCHANGED <<server, keyOf, queue>>

Into(gs, s) == [g \in Slugs |-> IF g \in gs THEN s ELSE copies[g]]

Import(c) ==
  /\ step[c] = "import"
  /\ \/ Taken(slugs[c]) /\ Finish(c, "error", copies)
     \/ ~Taken(slugs[c]) /\ Finish(c, "copied", Into(slugs[c], Imported(bundle[c])))

BeginClone(c, gs) ==
  /\ c \in Cloners /\ Idle(c)
  /\ IF Taken(gs)
       THEN Goto(c, "refused") /\ UNCHANGED slugs
       ELSE Goto(c, "clone") /\ slugs' = [slugs EXCEPT ![c] = gs]
  /\ UNCHANGED <<server, copies, keyOf, queue, bundle, source>>

(* _clone_server_rows, for each slug, all in one transaction.              *)
Clone(c) ==
  /\ step[c] = "clone"
  /\ \/ Taken(slugs[c]) /\ Finish(c, "error", copies)
     \/ ~Taken(slugs[c]) /\ Finish(c, "copied", Into(slugs[c], Whole))

(* delete_server, of a copy.                                               *)
DeleteCopy(c, g) ==
  /\ c \in Editors /\ Idle(c) /\ copies[g] # Absent
  /\ copies' = [copies EXCEPT ![g] = Absent]
  /\ UNCHANGED <<server, step, keyOf, queue, bundle, slugs, source>>

Edits(c, keys, rowsets) ==
  \/ \E d \in Ids, rows \in rowsets : ReplaceRows(c, d, rows)
  \/ \E d \in Ids : SaveAsSeed(c, d)
  \/ \E k \in keys, rows \in rowsets : CreateDataset(c, k, rows)
  \/ \E d \in Ids, k \in keys : RenameDataset(c, d, k)
  \/ \E d \in Ids : DeleteDataset(c, d)
  \/ \E t \in Tools, d \in Ids \cup {Absent} : SetTool(c, t, d)
  \/ \E n \in Rels, r \in (Ids \X Ids) \cup {Absent} : SetRel(c, n, r)
  \/ \E g \in Slugs : DeleteCopy(c, g)

Exports(c, into) ==
  \/ BeginExport(c) \/ ExportRows(c) \/ ExportSeeds(c) \/ NoDatasets(c)
  \/ ExportEndpoints(c) \/ ExportRels(c) \/ DatasetGone(c) \/ UnknownKey(c)
  \/ \E g \in into : BeginImport(c, g)
  \/ Import(c)

Clones(c, targets) ==
  Clone(c) \/ \E gs \in targets : BeginClone(c, gs)

Next ==
  \/ \E c \in Editors : Edits(c, Keys, Rows)
  \/ \E c \in Exporters : Exports(c, Slugs)
  \/ \E c \in Cloners : Clones(c, Targets)

Spec == Init /\ [][Next]_vars

-------------------------------------------------------------------------------

SelfContainedServer(s) ==
  LET keys == {d.key : d \in s.datasets} IN
  /\ \A t \in s.tools : t[2] \in keys
  /\ \A r \in s.rels : r[2] \in keys /\ r[3] \in keys

(* The server is whole: what its endpoints and relationships use exists,   *)
(* and keys are unique; a copy has every row that a dataset needs.         *)
TypeOK ==
  /\ UsedByTools \cup UsedByRels \subseteq Stored
  /\ \A d, e \in Stored : datasets[d].key = datasets[e].key => d = e
  /\ \A g \in Slugs : copies[g] \in Server \cup {Absent}
  /\ \A c \in Exporters : (bundle[c] # Nothing) = Exporting(c)

(* "Build a self-contained JSON bundle for a server" (build_bundle),       *)
(* whatever is edited while it is read: bundles name their own datasets.   *)
SelfContained ==
  \A c \in Exporters : step[c] \in {"bundle", "import"} => SelfContainedServer(bundle[c])

(* So does every copy, and no two datasets of a copy have one key.         *)
CopiesWhole ==
  \A g \in Slugs : copies[g] # Absent =>
    /\ SelfContainedServer(copies[g])
    /\ \A d, e \in copies[g].datasets : d.key = e.key => d = e

(* The rest is about every step that is taken.                             *)

(* bulk_clone_server makes all of its clones or none                       *)
(* (test_bulk_clone_conflict_creates_nothing), and a clone is the server   *)
(* as it is at one moment, that of the commit.                             *)
AllClones ==
  \A c \in Cloners : step[c] = "clone" /\ step'[c] # "clone" =>
    \/ copies' = copies
    \/ \A g \in slugs[c] : copies[g] = Absent /\ copies'[g] = Whole

(* A server that is left alone while it is exported is imported as it was, *)
(* less what _clean_row drops                                              *)
(* (test_bundle_round_trip_preserves_counts_rows_seed_rows_and_endpoints). *)
RoundTrip ==
  \A c \in Exporters : step[c] = "import" /\ step'[c] = "copied" =>
    \A g \in slugs[c] : copies'[g] = CleanServer(source[c])

-------------------------------------------------------------------------------
(* The invariants behind these properties.                                  *)

Listed(c) == step[c] \in {"datasets", "seeds", "endpoints", "rels"}

(* The datasets that the export of c has begun to read.                     *)
Begun(c) ==
  DOMAIN keyOf[c] \ (IF step[c] = "seeds" THEN queue[c] \ {Min(queue[c])} ELSE queue[c])

(* What the export of c has listed has keys of its own, and the bundle has  *)
(* those that it has begun to read.                                         *)
ListOK(c) ==
  Listed(c) =>
    /\ DOMAIN keyOf[c] \subseteq Ids /\ queue[c] \subseteq DOMAIN keyOf[c]
    /\ \A d \in DOMAIN keyOf[c] : keyOf[c][d] \in Keys
    /\ \A d, e \in DOMAIN keyOf[c] : keyOf[c][d] = keyOf[c][e] => d = e
    /\ step[c] = "seeds" => queue[c] # {}
    /\ step[c] \in {"endpoints", "rels"} => queue[c] = {}
    /\ \A d \in Begun(c) : \E x \in bundle[c].datasets : x.key = keyOf[c][d]
    /\ \A x \in bundle[c].datasets : \E d \in Begun(c) : x.key = keyOf[c][d]

(* One dataset at most lacks its seed rows, the one at hand.                *)
BundleOK(c) ==
  Exporting(c) =>
    /\ c \in Exporters
    /\ \A x, y \in bundle[c].datasets : x.key = y.key => x = y
    /\ step[c] = "seeds" => \E x \in bundle[c].datasets : x.seed = Nothing
    /\ \A x \in bundle[c].datasets : x.seed = Nothing =>
         step[c] = "seeds" /\ x.key = keyOf[c][Min(queue[c])]
    /\ step[c] \in {"datasets", "seeds", "endpoints"} => bundle[c].tools = {}
    /\ Listed(c) => bundle[c].rels = {}
    /\ ~Listed(c) \/ step[c] = "rels" => SelfContainedServer(bundle[c])

Shaped ==
  /\ datasets \in [Ids -> Dataset \cup {Unused, Deleted}]
  /\ tools \in [Tools -> Ids \cup {Absent}] /\ rels \in [Rels -> (Ids \X Ids) \cup {Absent}]
  /\ copies \in [Slugs -> Server \cup {Absent}]
  /\ step = [c \in Clients |-> step[c]] /\ slugs \in [Clients -> SUBSET Slugs]
  /\ keyOf = [c \in Exporters |-> keyOf[c]] /\ source = [c \in Exporters |-> source[c]]
  /\ queue \in [Exporters -> SUBSET Ids] /\ bundle \in [Exporters -> Bundle \cup {Nothing}]
  /\ \A c \in Clients : ListOK(c) /\ BundleOK(c)

IInv == TypeOK /\ Shaped /\ CopiesWhole

Cleaned(d) ==
  [key |-> datasets[d].key, live |-> Clean(datasets[d].live), seed |-> Clean(datasets[d].seed)]

(* Nobody else is active, and the bundle of c is of the server as it is.    *)
Alone(c) ==
  /\ \A d \in Clients \ {c} : step[d] = "idle"
  /\ Listed(c) => keyOf[c] = KeysNow
  /\ Exporting(c) =>
       /\ source[c] = Whole
       /\ bundle[c].datasets =
            {Cleaned(d) : d \in IF Listed(c) THEN Stored \ queue[c] ELSE Stored} \cup
            (IF step[c] = "seeds" THEN {ReadLive(c, Min(queue[c]))} ELSE {})
       /\ step[c] \notin {"datasets", "seeds", "endpoints"} => bundle[c].tools = NamedTools(KeysNow)
       /\ ~Listed(c) => bundle[c].rels = NamedRels(KeysNow)

===============================================================================
