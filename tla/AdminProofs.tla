------------------------------ MODULE AdminProofs ------------------------------
(***************************************************************************)
(* The programs that administrators and readers use, for all clients,      *)
(* servers, datasets, recipes and rules.                                   *)
(*                                                                         *)
(*  - Portability: bundles and copies are self-contained, clones are made  *)
(*    all or none, and a server that is left alone is imported as it was.  *)
(*  - Cohort: a bulk reset restores all that it listed or nothing, and no  *)
(*    more.                                                                *)
(*  - Recipes: no list of tools that was not written as a whole is stored  *)
(*    or shown, and a validation reports all that dangles throughout it.   *)
(*  - LlmEndpoint: what is stored is valid, and what is answered or sent   *)
(*    comes from one set of rules, or one row.                             *)
(*                                                                         *)
(* The two sections called "The composition" carry these over to MCCopies  *)
(* and to MCAdmin.                                                         *)
(***************************************************************************)
EXTENDS MCCopies, MCAdmin, FiniteSetTheorems, WellFoundedInduction, TLAPS

-------------------------------------------------------------------------------
(* Portability.                                                             *)

(* Portability counts with its own copy of FiniteSets.                    *)
LEMMA CopyCounts ==
  \A S : Copy!IsFiniteSet(S) = IsFiniteSet(S) /\ Copy!Cardinality(S) = Cardinality(S)
BY Zenon DEF Copy!IsFiniteSet, IsFiniteSet, Copy!Cardinality, Cardinality

LEMMA CopyMinIsIn ==
  ASSUME NEW S \in SUBSET Nat, S # {}
  PROVE  Copy!Min(S) \in S
<1>1. PICK m \in S : \A n \in S : <<n, m>> \notin OpToRel(<, Nat)
  BY NatLessThanWellFounded, WFMin
<1>2. \A n \in S : ~(n < m)
  BY <1>1 DEF OpToRel
<1>3. \A n \in S : m <= n
  BY <1>2
<1>4. QED
  BY <1>3, Zenon DEF Copy!Min

LEMMA CopyIdsAreNumbers ==
  ASSUME Copy!PortabilityAssumption
  PROVE  DatasetIds \subseteq Nat
<1>1. Copy!Cardinality(DatasetIds) \in Nat
  BY FS_CardinalityType, CopyCounts DEF Copy!PortabilityAssumption
<1>2. \A n \in Nat : 1 .. n \subseteq Nat
  OBVIOUS
<1>3. QED
  BY <1>1, <1>2 DEF Copy!PortabilityAssumption

-------------------------------------------------------------------------------
(* The server by its names.                                                 *)

(* What is used, one endpoint and relationship at a time.                   *)
LEMMA Used ==
  ASSUME Copy!PortabilityAssumption, NEW D \in SUBSET DatasetIds
  PROVE  /\ Copy!UsedByTools \subseteq D <=> \A t \in ToolNames : tools[t] \in D \cup {Absent}
         /\ Copy!UsedByRels \subseteq D <=>
              \A n \in Rels : rels[n] = Absent \/ (rels[n][1] \in D /\ rels[n][2] \in D)
BY DEF Copy!UsedByTools, Copy!UsedByRels, Copy!Ends, Copy!PortabilityAssumption

LEMMA NamesAreKeys ==
  ASSUME Copy!PortabilityAssumption, NEW D \in SUBSET DatasetIds, NEW key, \A d \in D : key[d] \in DatasetKeys,
         Copy!UsedByTools \subseteq D
  PROVE  /\ Copy!NamedTools(key) \in SUBSET Copy!ToolLinks
         /\ \A x \in Copy!NamedTools(key) : \E d \in D : x[2] = key[d]
<1>1. \A t \in ToolNames : tools[t] \in D \cup {Absent}
  BY Used
<1>2. QED
  BY <1>1 DEF Copy!NamedTools, Copy!ToolLinks

LEMMA EndsAreKeys ==
  ASSUME Copy!PortabilityAssumption, NEW D \in SUBSET DatasetIds, NEW key, \A d \in D : key[d] \in DatasetKeys,
         Copy!UsedByRels \subseteq D
  PROVE  /\ Copy!NamedRels(key) \in SUBSET Copy!RelLinks
         /\ \A x \in Copy!NamedRels(key) : \E d, e \in D : x[2] = key[d] /\ x[3] = key[e]
<1>1. \A n \in Rels : rels[n] = Absent \/ (rels[n][1] \in D /\ rels[n][2] \in D)
  BY Used
<1>2. QED
  BY <1>1 DEF Copy!NamedRels, Copy!RelLinks

LEMMA StoredRows ==
  ASSUME Copy!IInv, NEW d \in Copy!Stored
  PROVE  datasets[d] \in Copy!Dataset
BY DEF Copy!IInv, Copy!Shaped, Copy!Stored

(* The server as a whole is whole.                                          *)
LEMMA WholeIsWhole ==
  ASSUME Copy!PortabilityAssumption, Copy!IInv
  PROVE  /\ Copy!Whole \in Copy!Server /\ Copy!SelfContainedServer(Copy!Whole)
         /\ \A x, y \in Copy!Whole.datasets : x.key = y.key => x = y
<1>1. /\ Copy!Stored \in SUBSET DatasetIds /\ Copy!UsedByTools \subseteq Copy!Stored /\ Copy!UsedByRels \subseteq Copy!Stored
      /\ \A d \in Copy!Stored : datasets[d] \in Copy!Dataset /\ Copy!KeysNow[d] = datasets[d].key /\ Copy!KeysNow[d] \in DatasetKeys
  BY StoredRows DEF Copy!IInv, Copy!TypeOK, Copy!KeysNow, Copy!Dataset, Copy!Stored
<1>2. /\ Copy!NamedTools(Copy!KeysNow) \in SUBSET Copy!ToolLinks
      /\ \A x \in Copy!NamedTools(Copy!KeysNow) : \E d \in Copy!Stored : x[2] = Copy!KeysNow[d]
  BY <1>1, NamesAreKeys
<1>3. /\ Copy!NamedRels(Copy!KeysNow) \in SUBSET Copy!RelLinks
      /\ \A x \in Copy!NamedRels(Copy!KeysNow) : \E d, e \in Copy!Stored : x[2] = Copy!KeysNow[d] /\ x[3] = Copy!KeysNow[e]
  BY <1>1, EndsAreKeys
<1>4. /\ Copy!Whole.datasets = {datasets[d] : d \in Copy!Stored}
      /\ Copy!Whole.tools = Copy!NamedTools(Copy!KeysNow) /\ Copy!Whole.rels = Copy!NamedRels(Copy!KeysNow)
  BY DEF Copy!Whole
<1>5. Copy!Whole \in Copy!Server
  BY <1>1, <1>2, <1>3 DEF Copy!Whole, Copy!Server
<1>6. Copy!SelfContainedServer(Copy!Whole)
  BY <1>1, <1>2, <1>3, <1>4 DEF Copy!SelfContainedServer
<1>7. \A x, y \in Copy!Whole.datasets : x.key = y.key => x = y
  BY <1>4 DEF Copy!IInv, Copy!TypeOK
<1>8. QED
  BY <1>5, <1>6, <1>7

-------------------------------------------------------------------------------
(* Editors.                                                                 *)

Private == <<copies, step, keyOf, queue, bundle, slugs, source>>

LEMMA PrivateKept ==
  ASSUME Copy!IInv, UNCHANGED Private
  PROVE  /\ \A c \in Copy!Clients : Copy!ListOK(c)' /\ Copy!BundleOK(c)'
         /\ Copy!CopiesWhole' /\ \A c \in Copy!Clients : Copy!Exporting(c)' = Copy!Exporting(c)
<1>1. \A c \in Copy!Clients : Copy!ListOK(c) /\ Copy!BundleOK(c)
  BY DEF Copy!IInv, Copy!Shaped
<1>2. \A c \in Copy!Clients : Copy!ListOK(c)' = Copy!ListOK(c) /\ Copy!BundleOK(c)' = Copy!BundleOK(c)
  BY DEF Private, Copy!ListOK, Copy!BundleOK, Copy!Listed, Copy!Exporting, Copy!Begun, Copy!SelfContainedServer
<1>3. QED
  BY <1>1, <1>2 DEF Private, Copy!IInv, Copy!CopiesWhole, Copy!SelfContainedServer, Copy!Exporting

LEMMA CopyEditKeeps ==
  ASSUME Copy!PortabilityAssumption, Copy!IInv, UNCHANGED Private,
         datasets' \in [DatasetIds -> Copy!Dataset \cup {Unused, Deleted}],
         tools' \in [ToolNames -> DatasetIds \cup {Absent}], rels' \in [Rels -> (DatasetIds \X DatasetIds) \cup {Absent}],
         \A t \in ToolNames : tools'[t] \in Copy!Stored' \cup {Absent},
         \A n \in Rels : rels'[n] = Absent \/ (rels'[n][1] \in Copy!Stored' /\ rels'[n][2] \in Copy!Stored'),
         \A d, e \in Copy!Stored' : datasets'[d].key = datasets'[e].key => d = e
  PROVE  Copy!IInv'
<1>1. Copy!UsedByTools' \cup Copy!UsedByRels' \subseteq Copy!Stored'
  BY DEF Copy!UsedByTools, Copy!UsedByRels, Copy!Ends, Copy!PortabilityAssumption
<1>2. Copy!TypeOK'
  BY <1>1, PrivateKept DEF Copy!IInv, Copy!TypeOK, Private, Copy!Clients
<1>3. QED
  BY <1>2, PrivateKept DEF Copy!IInv, Copy!Shaped, Private

(* What the tables are like before an edit.                                 *)
LEMMA TablesNow ==
  ASSUME Copy!PortabilityAssumption, Copy!IInv
  PROVE  /\ datasets \in [DatasetIds -> Copy!Dataset \cup {Unused, Deleted}]
         /\ tools \in [ToolNames -> DatasetIds \cup {Absent}] /\ rels \in [Rels -> (DatasetIds \X DatasetIds) \cup {Absent}]
         /\ \A t \in ToolNames : tools[t] \in Copy!Stored \cup {Absent}
         /\ \A n \in Rels : rels[n] = Absent \/ (rels[n][1] \in Copy!Stored /\ rels[n][2] \in Copy!Stored)
         /\ \A d, e \in Copy!Stored : datasets[d].key = datasets[e].key => d = e
         /\ Copy!Stored = {d \in DatasetIds : datasets[d] \in Copy!Dataset}
         /\ Copy!Stored' = {d \in DatasetIds : datasets'[d] \notin {Unused, Deleted}}
<1>1. Copy!Stored \in SUBSET DatasetIds
  BY DEF Copy!Stored
<1>2. Copy!Stored = {d \in DatasetIds : datasets[d] \in Copy!Dataset}
  BY DEF Copy!IInv, Copy!Shaped, Copy!Stored, Copy!PortabilityAssumption
<1>3. QED
  BY <1>1, <1>2, Used DEF Copy!IInv, Copy!Shaped, Copy!TypeOK, Copy!Stored

LEMMA ReplaceRowsKeeps ==
  ASSUME Copy!PortabilityAssumption, Copy!IInv, NEW c \in Editors, NEW d \in DatasetIds, NEW rows \in RowsOf,
         Copy!ReplaceRows(c, d, rows)
  PROVE  Copy!IInv'
<1>1. datasets' = [datasets EXCEPT ![d].live = rows] /\ UNCHANGED <<tools, rels>> /\ d \in Copy!Stored
      /\ UNCHANGED Private
  BY DEF Copy!ReplaceRows, Copy!Edit, Private
<1>2. datasets[d] \in Copy!Dataset /\ datasets'[d] \in Copy!Dataset /\ datasets'[d].key = datasets[d].key
  BY <1>1, TablesNow DEF Copy!Dataset
<1>3. QED
  BY <1>1, <1>2, TablesNow, CopyEditKeeps DEF Copy!PortabilityAssumption

LEMMA CopySaveAsSeedKeeps ==
  ASSUME Copy!PortabilityAssumption, Copy!IInv, NEW c \in Editors, NEW d \in DatasetIds, Copy!SaveAsSeed(c, d)
  PROVE  Copy!IInv'
<1>1. datasets' = [datasets EXCEPT ![d].seed = datasets[d].live] /\ UNCHANGED <<tools, rels>> /\ d \in Copy!Stored
      /\ UNCHANGED Private
  BY DEF Copy!SaveAsSeed, Copy!Edit, Private
<1>2. datasets[d] \in Copy!Dataset /\ datasets'[d] \in Copy!Dataset /\ datasets'[d].key = datasets[d].key
  BY <1>1, TablesNow DEF Copy!Dataset
<1>3. QED
  BY <1>1, <1>2, TablesNow, CopyEditKeeps DEF Copy!PortabilityAssumption

LEMMA CopyCreateDatasetKeeps ==
  ASSUME Copy!PortabilityAssumption, Copy!IInv, NEW c \in Editors, NEW k \in DatasetKeys, NEW rows \in RowsOf,
         Copy!CreateDataset(c, k, rows)
  PROVE  Copy!IInv'
<1> DEFINE row == [key |-> k, live |-> rows, seed |-> rows]
<1>1. PICK i \in DatasetIds : datasets[i] = Unused /\ datasets' = [datasets EXCEPT ![i] = row]
  BY CopyMinIsIn, CopyIdsAreNumbers DEF Copy!CreateDataset
<1>2. UNCHANGED <<tools, rels>> /\ Copy!FreeKey(k) /\ UNCHANGED Private
  BY DEF Copy!CreateDataset, Copy!Edit, Private
<1>3. row \in Copy!Dataset /\ row.key = k
  BY DEF Copy!Dataset
<1> HIDE DEF row
<1>4. i \notin Copy!Stored /\ datasets'[i] = row
  BY <1>1, TablesNow DEF Copy!PortabilityAssumption
<1>5. Copy!Stored' = Copy!Stored \cup {i} /\ \A d \in Copy!Stored : datasets'[d] = datasets[d]
  BY <1>1, <1>3, <1>4, TablesNow DEF Copy!PortabilityAssumption
<1>6. \A d, e \in Copy!Stored' : datasets'[d].key = datasets'[e].key => d = e
  BY <1>2, <1>3, <1>4, <1>5, TablesNow DEF Copy!FreeKey
<1>7. datasets' \in [DatasetIds -> Copy!Dataset \cup {Unused, Deleted}]
  BY <1>1, <1>3, TablesNow
<1>8. QED
  BY <1>2, <1>5, <1>6, <1>7, TablesNow, CopyEditKeeps

LEMMA RenameDatasetKeeps ==
  ASSUME Copy!PortabilityAssumption, Copy!IInv, NEW c \in Editors, NEW d \in DatasetIds, NEW k \in DatasetKeys,
         Copy!RenameDataset(c, d, k)
  PROVE  Copy!IInv'
<1>1. datasets' = [datasets EXCEPT ![d].key = k] /\ UNCHANGED <<tools, rels>> /\ d \in Copy!Stored
      /\ UNCHANGED Private /\ Copy!FreeKey(k)
  BY DEF Copy!RenameDataset, Copy!Edit, Private
<1>2. datasets[d] \in Copy!Dataset /\ datasets'[d] \in Copy!Dataset /\ datasets'[d].key = k
  BY <1>1, TablesNow DEF Copy!Dataset
<1>3. Copy!Stored' = Copy!Stored /\ datasets' \in [DatasetIds -> Copy!Dataset \cup {Unused, Deleted}]
  <2>1. \A e \in DatasetIds \ {d} : datasets'[e] = datasets[e]
    BY <1>1, TablesNow
  <2>2. datasets' \in [DatasetIds -> Copy!Dataset \cup {Unused, Deleted}]
    BY <1>1, <1>2, TablesNow
  <2>3. datasets'[d] \notin {Unused, Deleted} /\ datasets[d] \notin {Unused, Deleted}
    BY <1>2 DEF Copy!PortabilityAssumption
  <2>4. \A e \in DatasetIds : datasets'[e] \in {Unused, Deleted} <=> datasets[e] \in {Unused, Deleted}
    BY <2>1, <2>3
  <2>5. QED
    BY <2>2, <2>4 DEF Copy!Stored
<1>4. \A e \in Copy!Stored \ {d} : datasets'[e] = datasets[e]
  BY <1>1, TablesNow
<1>5. \A e, f \in Copy!Stored' : datasets'[e].key = datasets'[f].key => e = f
  BY <1>1, <1>2, <1>3, <1>4, TablesNow DEF Copy!FreeKey
<1>6. QED
  BY <1>1, <1>3, <1>5, TablesNow, CopyEditKeeps

LEMMA CopyDeleteDatasetKeeps ==
  ASSUME Copy!PortabilityAssumption, Copy!IInv, NEW c \in Editors, NEW d \in DatasetIds, Copy!DeleteDataset(c, d)
  PROVE  Copy!IInv'
<1>1. /\ datasets' = [datasets EXCEPT ![d] = Deleted] /\ UNCHANGED tools
      /\ \A t \in ToolNames : tools[t] # d
      /\ rels' = [n \in Rels |-> IF rels[n] # Absent /\ d \in Copy!Ends(rels[n]) THEN Absent ELSE rels[n]]
      /\ UNCHANGED Private
  BY DEF Copy!DeleteDataset, Copy!Edit, Private
<1>2. Copy!Stored' = Copy!Stored \ {d} /\ datasets' \in [DatasetIds -> Copy!Dataset \cup {Unused, Deleted}]
  BY <1>1, TablesNow DEF Copy!PortabilityAssumption, Copy!Stored
<1>3. /\ rels' \in [Rels -> (DatasetIds \X DatasetIds) \cup {Absent}]
      /\ \A n \in Rels : rels'[n] = Absent \/ (rels'[n][1] \in Copy!Stored' /\ rels'[n][2] \in Copy!Stored')
  BY <1>1, <1>2, TablesNow DEF Copy!Ends
<1>4. \A e, f \in Copy!Stored' : datasets'[e].key = datasets'[f].key => e = f
  BY <1>1, <1>2, TablesNow
<1>5. QED
  BY <1>1, <1>2, <1>3, <1>4, TablesNow, CopyEditKeeps

LEMMA SetToolKeeps ==
  ASSUME Copy!PortabilityAssumption, Copy!IInv, NEW c \in Editors, NEW t \in ToolNames, NEW d \in DatasetIds \cup {Absent},
         Copy!SetTool(c, t, d)
  PROVE  Copy!IInv'
<1>1. tools' = [tools EXCEPT ![t] = d] /\ UNCHANGED <<datasets, rels>> /\ d \in Copy!Stored \cup {Absent}
      /\ UNCHANGED Private
  BY DEF Copy!SetTool, Copy!Edit, Private
<1>2. Copy!Stored' = Copy!Stored
  BY <1>1 DEF Copy!Stored
<1>3. QED
  BY <1>1, <1>2, TablesNow, CopyEditKeeps

LEMMA SetRelKeeps ==
  ASSUME Copy!PortabilityAssumption, Copy!IInv, NEW c \in Editors, NEW n \in Rels,
         NEW r \in (DatasetIds \X DatasetIds) \cup {Absent}, Copy!SetRel(c, n, r)
  PROVE  Copy!IInv'
<1>1. /\ rels' = [rels EXCEPT ![n] = r] /\ UNCHANGED <<datasets, tools>>
      /\ r = Absent \/ (r[1] \in Copy!Stored /\ r[2] \in Copy!Stored)
      /\ UNCHANGED Private
  BY DEF Copy!SetRel, Copy!Edit, Private, Copy!Ends
<1>2. Copy!Stored' = Copy!Stored
  BY <1>1 DEF Copy!Stored
<1>3. QED
  BY <1>1, <1>2, TablesNow, CopyEditKeeps

LEMMA TablesKept ==
  ASSUME Copy!IInv, UNCHANGED <<datasets, tools, rels>>
  PROVE  /\ Copy!UsedByTools' \cup Copy!UsedByRels' \subseteq Copy!Stored'
         /\ \A d, e \in Copy!Stored' : datasets'[d].key = datasets'[e].key => d = e
         /\ datasets' \in [DatasetIds -> Copy!Dataset \cup {Unused, Deleted}]
         /\ tools' \in [ToolNames -> DatasetIds \cup {Absent}] /\ rels' \in [Rels -> (DatasetIds \X DatasetIds) \cup {Absent}]
BY DEF Copy!IInv, Copy!TypeOK, Copy!Shaped, Copy!UsedByTools, Copy!UsedByRels, Copy!Stored

LEMMA DeleteCopyKeeps ==
  ASSUME Copy!PortabilityAssumption, Copy!IInv, NEW c \in Editors, NEW g \in CopySlugs, Copy!DeleteCopy(c, g)
  PROVE  Copy!IInv'
<1>1. copies' = [copies EXCEPT ![g] = Absent] /\ UNCHANGED <<datasets, tools, rels>>
      /\ UNCHANGED <<step, keyOf, queue, bundle, slugs, source>>
  BY DEF Copy!DeleteCopy, Copy!server
<1>2. \A d \in Copy!Clients : Copy!ListOK(d)' = Copy!ListOK(d) /\ Copy!BundleOK(d)' = Copy!BundleOK(d) /\ Copy!Exporting(d)' = Copy!Exporting(d)
  BY <1>1 DEF Copy!ListOK, Copy!BundleOK, Copy!Listed, Copy!Exporting, Copy!Begun, Copy!SelfContainedServer
<1>3. copies' \in [CopySlugs -> Copy!Server \cup {Absent}] /\ Copy!CopiesWhole'
  BY <1>1 DEF Copy!IInv, Copy!Shaped, Copy!CopiesWhole, Copy!SelfContainedServer
<1>4. QED
  BY <1>1, <1>2, <1>3, TablesKept DEF Copy!IInv, Copy!TypeOK, Copy!Shaped, Copy!Clients

LEMMA CopyEditsKeep ==
  ASSUME Copy!PortabilityAssumption, Copy!IInv, NEW c \in Editors, NEW keys \in SUBSET DatasetKeys,
         NEW rowsets \in SUBSET RowsOf, Copy!Edits(c, keys, rowsets)
  PROVE  Copy!IInv'
BY ReplaceRowsKeeps, CopySaveAsSeedKeeps, CopyCreateDatasetKeeps, RenameDatasetKeeps, CopyDeleteDatasetKeeps,
   SetToolKeeps, SetRelKeeps, DeleteCopyKeeps DEF Copy!Edits

LEMMA CopyInitHolds ==
  ASSUME Copy!PortabilityAssumption, Copy!Init
  PROVE  Copy!IInv
<1>1. \A t \in ToolNames : tools[t] = Absent
  BY DEF Copy!Init
<1>2. \A n \in Rels : rels[n] = Absent
  BY DEF Copy!Init
<1>3. Copy!UsedByTools = {} /\ Copy!UsedByRels = {}
  BY <1>1, <1>2 DEF Copy!UsedByTools, Copy!UsedByRels
<1>4. \A d, e \in Copy!Stored : d = e
  BY DEF Copy!Init, Copy!Stored
<1>5. datasets \in [DatasetIds -> Copy!Dataset \cup {Unused, Deleted}]
  BY DEF Copy!Init, Copy!Dataset
<1>6. \A c \in Copy!Clients : step[c] = "idle"
  BY DEF Copy!Init
<1>7. \A c \in Copy!Clients : Copy!ListOK(c) /\ Copy!BundleOK(c) /\ ~Copy!Exporting(c)
  BY <1>6 DEF Copy!ListOK, Copy!BundleOK, Copy!Listed, Copy!Exporting
<1>8. Copy!TypeOK
  <2>1. \A g \in CopySlugs : copies[g] = Absent
    BY DEF Copy!Init
  <2>2. \A c \in Exporters : bundle[c] = Nothing /\ ~Copy!Exporting(c)
    BY <1>7 DEF Copy!Init, Copy!Clients
  <2>3. QED
    BY <1>3, <1>4, <2>1, <2>2 DEF Copy!TypeOK, Copy!Exporting
<1>9. QED
  BY <1>5, <1>7, <1>8 DEF Copy!IInv, Copy!Shaped, Copy!Init, Copy!CopiesWhole

-------------------------------------------------------------------------------
(* Exporters and cloners.                                                   *)

(* A request changes only what is its own.                                  *)
OneRequest(c) ==
  /\ step' = [step EXCEPT ![c] = step'[c]] /\ slugs' = [slugs EXCEPT ![c] = slugs'[c]]
  /\ keyOf' = [keyOf EXCEPT ![c] = keyOf'[c]] /\ queue' = [queue EXCEPT ![c] = queue'[c]]
  /\ bundle' = [bundle EXCEPT ![c] = bundle'[c]] /\ source' = [source EXCEPT ![c] = source'[c]]

LEMMA OthersKeep ==
  ASSUME Copy!IInv, NEW c \in Copy!Clients, OneRequest(c), NEW d \in Copy!Clients \ {c}
  PROVE  Copy!ListOK(d)' /\ Copy!BundleOK(d)' /\ Copy!Exporting(d)' = Copy!Exporting(d) /\ step'[d] = step[d]
<1>1. step'[d] = step[d]
  BY DEF OneRequest, Copy!IInv, Copy!Shaped
<1>2. Copy!ListOK(d) /\ Copy!BundleOK(d)
  BY DEF Copy!IInv, Copy!Shaped
<1>3. CASE ~Copy!Exporting(d)
  BY <1>1, <1>3 DEF Copy!Exporting, Copy!ListOK, Copy!BundleOK, Copy!Listed
<1>4. CASE Copy!Exporting(d)
  <2>1. d \in Exporters
    BY <1>2, <1>4 DEF Copy!BundleOK
  <2>2. keyOf'[d] = keyOf[d] /\ queue'[d] = queue[d] /\ bundle'[d] = bundle[d]
    BY <2>1 DEF OneRequest, Copy!IInv, Copy!Shaped
  <2>3. QED
    BY <1>1, <1>2, <2>2 DEF Copy!Exporting, Copy!ListOK, Copy!BundleOK, Copy!Listed, Copy!Begun, Copy!SelfContainedServer
<1>5. QED
  BY <1>3, <1>4

(* What is to show of a step of c.                                          *)
LEMMA StepKeeps ==
  ASSUME Copy!PortabilityAssumption, Copy!IInv, NEW c \in Copy!Clients, OneRequest(c),
         UNCHANGED <<datasets, tools, rels>>,
         slugs'[c] \in SUBSET CopySlugs,
         copies' \in [CopySlugs -> Copy!Server \cup {Absent}], Copy!CopiesWhole',
         c \in Exporters => /\ queue'[c] \in SUBSET DatasetIds
                            /\ bundle'[c] \in Copy!Bundle \cup {Nothing}
                            /\ (bundle'[c] # Nothing) = Copy!Exporting(c)',
         Copy!ListOK(c)', Copy!BundleOK(c)'
  PROVE  Copy!IInv'
<1>1. \A d \in Copy!Clients : Copy!ListOK(d)' /\ Copy!BundleOK(d)'
  BY OthersKeep
<1>2. \A d \in Exporters : (bundle'[d] # Nothing) = Copy!Exporting(d)'
  <2> SUFFICES ASSUME NEW d \in Exporters, d # c
               PROVE  (bundle'[d] # Nothing) = Copy!Exporting(d)'
    OBVIOUS
  <2>1. d \in Copy!Clients /\ bundle'[d] = bundle[d] /\ (bundle[d] # Nothing) = Copy!Exporting(d)
    BY DEF OneRequest, Copy!IInv, Copy!Shaped, Copy!TypeOK, Copy!Clients
  <2>2. QED
    BY <2>1, OthersKeep
<1>3. Copy!TypeOK'
  BY <1>2, TablesKept DEF Copy!TypeOK
<1>4. /\ step' = [d \in Copy!Clients |-> step'[d]] /\ slugs' \in [Copy!Clients -> SUBSET CopySlugs]
      /\ keyOf' = [d \in Exporters |-> keyOf'[d]] /\ source' = [d \in Exporters |-> source'[d]]
      /\ queue' \in [Exporters -> SUBSET DatasetIds] /\ bundle' \in [Exporters -> Copy!Bundle \cup {Nothing}]
  BY DEF OneRequest, Copy!IInv, Copy!Shaped
<1>5. QED
  BY <1>1, <1>3, <1>4, TablesKept DEF Copy!IInv, Copy!Shaped

(* The copies stay.                                                         *)
LEMMA CopiesKept ==
  ASSUME Copy!IInv, UNCHANGED copies
  PROVE  copies' \in [CopySlugs -> Copy!Server \cup {Absent}] /\ Copy!CopiesWhole'
BY DEF Copy!IInv, Copy!Shaped, Copy!CopiesWhole, Copy!SelfContainedServer

(* A request that is over, or that has not begun to export.                 *)
LEMMA QuietKeeps ==
  ASSUME Copy!PortabilityAssumption, Copy!IInv, NEW c \in Copy!Clients, OneRequest(c),
         UNCHANGED <<datasets, tools, rels>>, slugs'[c] \in SUBSET CopySlugs,
         copies' \in [CopySlugs -> Copy!Server \cup {Absent}], Copy!CopiesWhole', ~Copy!Exporting(c)',
         c \in Exporters => queue'[c] \in SUBSET DatasetIds /\ bundle'[c] = Nothing
  PROVE  Copy!IInv'
<1>1. Copy!ListOK(c)' /\ Copy!BundleOK(c)'
  BY DEF Copy!ListOK, Copy!BundleOK, Copy!Listed, Copy!Exporting
<1>2. c \in Exporters => (bundle'[c] # Nothing) = Copy!Exporting(c)'
  BY DEF Copy!Exporting
<1>3. QED
  BY <1>1, <1>2, StepKeeps

LEMMA BeginExportKeeps ==
  ASSUME Copy!PortabilityAssumption, Copy!IInv, NEW c \in Exporters, Copy!BeginExport(c)
  PROVE  Copy!IInv'
<1>1. /\ c \in Copy!Clients /\ Copy!Idle(c) /\ step' = [step EXCEPT ![c] = "datasets"]
      /\ keyOf' = [keyOf EXCEPT ![c] = Copy!KeysNow]
      /\ queue' = [queue EXCEPT ![c] = Copy!Stored] /\ bundle' = [bundle EXCEPT ![c] = Copy!Empty]
      /\ source' = [source EXCEPT ![c] = Copy!Whole] /\ UNCHANGED <<datasets, tools, rels, copies, slugs>>
  BY DEF Copy!BeginExport, Copy!Goto, Copy!KeysNow, Copy!Clients, Copy!server
<1>2. /\ step'[c] = "datasets" /\ keyOf'[c] = Copy!KeysNow /\ queue'[c] = Copy!Stored /\ bundle'[c] = Copy!Empty
      /\ source'[c] = Copy!Whole /\ slugs'[c] = slugs[c]
  BY <1>1 DEF Copy!IInv, Copy!Shaped
<1>3. OneRequest(c)
  BY <1>1, <1>2 DEF OneRequest, Copy!IInv, Copy!Shaped
<1>4. Copy!Empty \in Copy!Bundle /\ Copy!Empty.datasets = {} /\ Copy!Empty.tools = {} /\ Copy!Empty.rels = {}
  BY DEF Copy!Empty, Copy!Bundle
<1>5. /\ DOMAIN Copy!KeysNow = Copy!Stored /\ Copy!Stored \in SUBSET DatasetIds
      /\ \A d \in Copy!Stored : Copy!KeysNow[d] \in DatasetKeys /\ Copy!KeysNow[d] = datasets[d].key
      /\ \A d, e \in Copy!Stored : datasets[d].key = datasets[e].key => d = e
  BY StoredRows DEF Copy!KeysNow, Copy!Stored, Copy!Dataset, Copy!IInv, Copy!TypeOK
<1>6. Copy!ListOK(c)'
  BY <1>2, <1>4, <1>5 DEF Copy!ListOK, Copy!Begun, Copy!Listed
<1>7. Copy!BundleOK(c)'
  BY <1>2, <1>4 DEF Copy!BundleOK, Copy!Listed, Copy!Exporting
<1>8. (bundle'[c] # Nothing) = Copy!Exporting(c)' /\ slugs'[c] \in SUBSET CopySlugs
  BY <1>1, <1>2, <1>4 DEF Copy!Exporting, Copy!PortabilityAssumption, Copy!IInv, Copy!Shaped
<1>9. QED
  BY <1>1, <1>2, <1>3, <1>4, <1>5, <1>6, <1>7, <1>8, CopiesKept, StepKeeps

LEMMA AbandonKeeps ==
  ASSUME Copy!PortabilityAssumption, Copy!IInv, NEW c \in Exporters, NEW how \in {"refused", "keyerror"},
         Copy!Abandon(c, how)
  PROVE  Copy!IInv'
<1>1. /\ c \in Copy!Clients /\ step' = [step EXCEPT ![c] = how]
      /\ keyOf' = [keyOf EXCEPT ![c] = <<>>] /\ queue' = [queue EXCEPT ![c] = {}]
      /\ bundle' = [bundle EXCEPT ![c] = Nothing] /\ slugs' = [slugs EXCEPT ![c] = {}]
      /\ source' = [source EXCEPT ![c] = Nothing] /\ UNCHANGED <<datasets, tools, rels, copies>>
  BY DEF Copy!Abandon, Copy!Goto, Copy!Clients, Copy!server
<1>2. step'[c] = how /\ queue'[c] = {} /\ bundle'[c] = Nothing /\ slugs'[c] = {}
  BY <1>1 DEF Copy!IInv, Copy!Shaped
<1>3. OneRequest(c)
  BY <1>1 DEF OneRequest, Copy!IInv, Copy!Shaped
<1>4. ~Copy!Exporting(c)'
  BY <1>2 DEF Copy!Exporting
<1>5. QED
  BY <1>1, <1>2, <1>3, <1>4, CopiesKept, QuietKeeps

(* An export in progress.                                                   *)
LEMMA Reads ==
  ASSUME Copy!PortabilityAssumption, Copy!IInv, NEW c \in Exporters, Copy!Exporting(c)
  PROVE  /\ c \in Copy!Clients /\ Copy!ListOK(c) /\ Copy!BundleOK(c) /\ bundle[c] \in Copy!Bundle
         /\ queue[c] \in SUBSET DatasetIds /\ slugs[c] \in SUBSET CopySlugs
         /\ queue[c] # {} => Copy!Min(queue[c]) \in queue[c]
<1>1. c \in Copy!Clients
  BY DEF Copy!Clients
<1>2. bundle[c] \in Copy!Bundle
  BY DEF Copy!IInv, Copy!TypeOK, Copy!Shaped
<1>3. queue[c] \in SUBSET Nat
  BY CopyIdsAreNumbers DEF Copy!IInv, Copy!Shaped
<1>4. QED
  BY <1>1, <1>2, <1>3, CopyMinIsIn DEF Copy!IInv, Copy!Shaped

(* One more that is read.                                                   *)
LEMMA ReadsOn ==
  ASSUME Copy!PortabilityAssumption, Copy!IInv, NEW c \in Exporters, NEW how, NEW q \in SUBSET DatasetIds, NEW b \in Copy!Bundle,
         step' = [step EXCEPT ![c] = how], queue' = [queue EXCEPT ![c] = q],
         bundle' = [bundle EXCEPT ![c] = b], UNCHANGED <<datasets, tools, rels, copies, keyOf, slugs, source>>,
         how \in {"datasets", "seeds", "endpoints", "rels", "bundle", "import"},
         Copy!ListOK(c)', Copy!BundleOK(c)'
  PROVE  Copy!IInv'
<1>1. c \in Copy!Clients /\ step'[c] = how /\ queue'[c] = q /\ bundle'[c] = b /\ slugs'[c] = slugs[c]
  BY DEF Copy!IInv, Copy!Shaped, Copy!Clients
<1>2. OneRequest(c)
  BY <1>1 DEF OneRequest, Copy!IInv, Copy!Shaped
<1>3. (bundle'[c] # Nothing) = Copy!Exporting(c)' /\ slugs'[c] \in SUBSET CopySlugs
  BY <1>1 DEF Copy!Exporting, Copy!PortabilityAssumption, Copy!IInv, Copy!Shaped
<1>4. QED
  BY <1>1, <1>2, <1>3, CopiesKept, StepKeeps

LEMMA RowsRead ==
  ASSUME Copy!PortabilityAssumption, Copy!IInv, NEW c \in Exporters, Copy!Exporting(c), NEW d \in Copy!Stored, keyOf[c][d] \in DatasetKeys
  PROVE  /\ Copy!ReadLive(c, d) \in [key : DatasetKeys, live : RowsOf, seed : RowsOf \cup {Nothing}]
         /\ Copy!ReadLive(c, d).key = keyOf[c][d] /\ Copy!ReadLive(c, d).seed = Nothing
         /\ Copy!ReadSeed(c, d).seed \in RowsOf
BY StoredRows DEF Copy!ReadLive, Copy!ReadSeed, Copy!Dataset, Copy!PortabilityAssumption

LEMMA ExportRowsKeeps ==
  ASSUME Copy!PortabilityAssumption, Copy!IInv, NEW c \in Exporters, Copy!ExportRows(c)
  PROVE  Copy!IInv'
<1> DEFINE d == Copy!Min(queue[c])
           x == Copy!ReadLive(c, d)
           ds == bundle[c].datasets \cup {x}
           b == [bundle[c] EXCEPT !.datasets = ds]
<1>1. /\ step[c] = "datasets" /\ step' = [step EXCEPT ![c] = "seeds"] /\ queue[c] # {} /\ d \in Copy!Stored
      /\ bundle' = [bundle EXCEPT ![c] = b]
      /\ UNCHANGED <<datasets, tools, rels, copies, keyOf, queue, slugs, source>>
  <2>1. bundle' = [bundle EXCEPT ![c].datasets = ds]
    BY DEF Copy!ExportRows
  <2>2. [bundle EXCEPT ![c].datasets = ds] = [bundle EXCEPT ![c] = b]
    OBVIOUS
  <2>3. QED
    BY <2>1, <2>2 DEF Copy!ExportRows, Copy!Goto, Copy!Reading, Copy!server
<1>2. Copy!Exporting(c) /\ Copy!Listed(c)
  BY <1>1 DEF Copy!Exporting, Copy!Listed
<1>3. /\ d \in queue[c] /\ queue[c] \subseteq DOMAIN keyOf[c] /\ DOMAIN keyOf[c] \subseteq DatasetIds
      /\ \A e, f \in DOMAIN keyOf[c] : keyOf[c][e] = keyOf[c][f] => e = f
      /\ \A e \in DOMAIN keyOf[c] : keyOf[c][e] \in DatasetKeys
  BY <1>1, <1>2, Reads DEF Copy!ListOK
<1>4. x \in [key : DatasetKeys, live : RowsOf, seed : RowsOf \cup {Nothing}] /\ x.key = keyOf[c][d] /\ x.seed = Nothing
  BY <1>1, <1>2, <1>3, RowsRead
<1>5. b \in Copy!Bundle /\ b.datasets = ds /\ b.tools = bundle[c].tools /\ b.rels = bundle[c].rels
  BY <1>2, <1>4, Reads DEF Copy!Bundle
<1>6. step'[c] = "seeds" /\ bundle'[c] = b /\ keyOf'[c] = keyOf[c] /\ queue'[c] = queue[c]
  BY <1>1, <1>2, Reads DEF Copy!IInv, Copy!Shaped
<1> HIDE DEF x, b
<1>7. Copy!Begun(c) = DOMAIN keyOf[c] \ queue[c] /\ Copy!Begun(c)' = Copy!Begun(c) \cup {d} /\ d \notin Copy!Begun(c)
  BY <1>1, <1>3, <1>6 DEF Copy!Begun
<1>8. Copy!ListOK(c)'
  BY <1>1, <1>2, <1>3, <1>4, <1>5, <1>6, <1>7, Reads DEF Copy!ListOK, Copy!Listed
<1>9. \A y \in bundle[c].datasets : y.key # x.key /\ y.seed # Nothing
  BY <1>1, <1>2, <1>3, <1>4, <1>7, Reads DEF Copy!ListOK, Copy!BundleOK, Copy!Begun
<1>10. Copy!BundleOK(c)'
  BY <1>1, <1>2, <1>4, <1>5, <1>6, <1>9, Reads DEF Copy!BundleOK, Copy!Listed, Copy!Exporting
<1>11. queue' = [queue EXCEPT ![c] = queue[c]]
  BY <1>1 DEF Copy!IInv, Copy!Shaped
<1>12. QED
  BY <1>1, <1>2, <1>5, <1>8, <1>10, <1>11, Reads, ReadsOn

LEMMA ExportSeedsKeeps ==
  ASSUME Copy!PortabilityAssumption, Copy!IInv, NEW c \in Exporters, Copy!ExportSeeds(c)
  PROVE  Copy!IInv'
<1> DEFINE d == Copy!Min(queue[c])
           half == CHOOSE x \in bundle[c].datasets : x.seed = Nothing
           new == [half EXCEPT !.seed = Copy!ReadSeed(c, d).seed]
           ds == (bundle[c].datasets \ {half}) \cup {new}
           b == [bundle[c] EXCEPT !.datasets = ds]
           q == queue[c] \ {d}
           how == IF queue[c] = {d} THEN "endpoints" ELSE "datasets"
<1>1. /\ step[c] = "seeds" /\ step' = [step EXCEPT ![c] = how] /\ d \in Copy!Stored
      /\ bundle' = [bundle EXCEPT ![c] = b] /\ queue' = [queue EXCEPT ![c] = q]
      /\ UNCHANGED <<datasets, tools, rels, copies, keyOf, slugs, source>>
  <2>1. bundle' = [bundle EXCEPT ![c].datasets = ds]
    BY DEF Copy!ExportSeeds
  <2>2. [bundle EXCEPT ![c].datasets = ds] = [bundle EXCEPT ![c] = b]
    OBVIOUS
  <2>3. QED
    BY <2>1, <2>2 DEF Copy!ExportSeeds, Copy!Goto, Copy!Reading, Copy!server
<1>2. Copy!Exporting(c) /\ Copy!Listed(c)
  BY <1>1 DEF Copy!Exporting, Copy!Listed
<1>3. /\ d \in queue[c] /\ queue[c] \subseteq DOMAIN keyOf[c] /\ DOMAIN keyOf[c] \subseteq DatasetIds
      /\ \A e \in DOMAIN keyOf[c] : keyOf[c][e] \in DatasetKeys
  BY <1>1, <1>2, Reads DEF Copy!ListOK
<1>4. half \in bundle[c].datasets /\ half.seed = Nothing
  BY <1>1, <1>2, Reads DEF Copy!BundleOK
<1>5. bundle[c].datasets \in SUBSET [key : DatasetKeys, live : RowsOf, seed : RowsOf \cup {Nothing}]
  BY <1>2, Reads DEF Copy!Bundle
<1>6. Copy!ReadSeed(c, d).seed \in RowsOf /\ Copy!ReadSeed(c, d).seed # Nothing
  BY <1>1, <1>2, <1>3, RowsRead DEF Copy!PortabilityAssumption
<1>7. /\ new \in [key : DatasetKeys, live : RowsOf, seed : RowsOf \cup {Nothing}]
      /\ new.key = half.key /\ new.seed # Nothing
  BY <1>4, <1>5, <1>6
<1>8. b \in Copy!Bundle /\ b.datasets = ds /\ b.tools = bundle[c].tools /\ b.rels = bundle[c].rels
  BY <1>2, <1>5, <1>7, Reads DEF Copy!Bundle
<1>9. step'[c] = how /\ bundle'[c] = b /\ keyOf'[c] = keyOf[c] /\ queue'[c] = q
  BY <1>1, <1>2, Reads DEF Copy!IInv, Copy!Shaped
<1> HIDE DEF half, new, b
<1>10. Copy!Begun(c) = DOMAIN keyOf[c] \ q /\ Copy!Begun(c)' = Copy!Begun(c) /\ how \in {"endpoints", "datasets"}
  BY <1>1, <1>3, <1>9 DEF Copy!Begun
<1>11. Copy!ListOK(c)'
  <2>1. \A x \in bundle[c].datasets : \E y \in ds : x.key = y.key
    BY <1>7
  <2>2. \A y \in ds : \E x \in bundle[c].datasets : x.key = y.key
    BY <1>4, <1>7
  <2>3. q \subseteq DOMAIN keyOf[c] /\ (how = "endpoints" => q = {})
    BY <1>3
  <2>4. QED
    BY <1>1, <1>2, <1>8, <1>9, <1>10, <2>1, <2>2, <2>3, Reads DEF Copy!ListOK, Copy!Listed
<1>12. Copy!BundleOK(c)'
  <2>1. \A x, y \in ds : x.key = y.key => x = y
    BY <1>1, <1>2, <1>4, <1>7, Reads DEF Copy!BundleOK
  <2>2. \A x \in bundle[c].datasets \ {half} : x.seed # Nothing
    BY <1>1, <1>2, <1>4, Reads DEF Copy!BundleOK
  <2>3. \A x \in ds : x.seed # Nothing
    BY <2>2, <1>7
  <2>4. bundle[c].tools = {} /\ bundle[c].rels = {}
    BY <1>1, <1>2, Reads DEF Copy!BundleOK
  <2>5. QED
    BY <1>8, <1>9, <1>10, <2>1, <2>3, <2>4 DEF Copy!BundleOK, Copy!Listed, Copy!Exporting
<1>13. q \in SUBSET DatasetIds
  BY <1>2, Reads
<1>14. QED
  BY <1>1, <1>8, <1>10, <1>11, <1>12, <1>13, ReadsOn

LEMMA NoDatasetsKeeps ==
  ASSUME Copy!PortabilityAssumption, Copy!IInv, NEW c \in Exporters, Copy!NoDatasets(c)
  PROVE  Copy!IInv'
<1>1. /\ step[c] = "datasets" /\ queue[c] = {} /\ step' = [step EXCEPT ![c] = "endpoints"]
      /\ UNCHANGED <<datasets, tools, rels, copies, keyOf, queue, bundle, slugs, source>>
  BY DEF Copy!NoDatasets, Copy!Goto, Copy!Reading, Copy!server
<1>2. Copy!Exporting(c) /\ Copy!Listed(c)
  BY <1>1 DEF Copy!Exporting, Copy!Listed
<1>3. step'[c] = "endpoints"
  BY <1>1, <1>2, Reads DEF Copy!IInv, Copy!Shaped
<1>4. Copy!Begun(c)' = Copy!Begun(c)
  BY <1>1, <1>3 DEF Copy!Begun
<1>5. Copy!ListOK(c)'
  BY <1>1, <1>2, <1>3, <1>4, Reads DEF Copy!ListOK, Copy!Listed
<1>6. Copy!BundleOK(c)'
  BY <1>1, <1>2, <1>3, Reads DEF Copy!BundleOK, Copy!Listed, Copy!Exporting
<1>7. queue' = [queue EXCEPT ![c] = queue[c]] /\ bundle' = [bundle EXCEPT ![c] = bundle[c]]
  BY <1>1 DEF Copy!IInv, Copy!Shaped
<1>8. QED
  BY <1>1, <1>2, <1>5, <1>6, <1>7, Reads, ReadsOn

LEMMA ExportEndpointsKeeps ==
  ASSUME Copy!PortabilityAssumption, Copy!IInv, NEW c \in Exporters, Copy!ExportEndpoints(c)
  PROVE  Copy!IInv'
<1> DEFINE named == Copy!NamedTools(keyOf[c])
           b == [bundle[c] EXCEPT !.tools = named]
<1>1. /\ step[c] = "endpoints" /\ Copy!UsedByTools \subseteq DOMAIN keyOf[c] /\ step' = [step EXCEPT ![c] = "rels"]
      /\ bundle' = [bundle EXCEPT ![c] = b]
      /\ UNCHANGED <<datasets, tools, rels, copies, keyOf, queue, slugs, source>>
  <2>1. bundle' = [bundle EXCEPT ![c].tools = named]
    BY DEF Copy!ExportEndpoints
  <2>2. [bundle EXCEPT ![c].tools = named] = [bundle EXCEPT ![c] = b]
    OBVIOUS
  <2>3. QED
    BY <2>1, <2>2 DEF Copy!ExportEndpoints, Copy!Goto, Copy!Reading, Copy!server
<1>2. Copy!Exporting(c) /\ Copy!Listed(c)
  BY <1>1 DEF Copy!Exporting, Copy!Listed
<1>3. /\ queue[c] = {} /\ DOMAIN keyOf[c] \in SUBSET DatasetIds
      /\ \A e \in DOMAIN keyOf[c] : keyOf[c][e] \in DatasetKeys
      /\ \A d \in DOMAIN keyOf[c] : \E x \in bundle[c].datasets : x.key = keyOf[c][d]
  BY <1>1, <1>2, Reads DEF Copy!ListOK, Copy!Begun
<1>4. named \in SUBSET Copy!ToolLinks /\ \A t \in named : \E d \in DOMAIN keyOf[c] : t[2] = keyOf[c][d]
  BY <1>1, <1>3, NamesAreKeys
<1>5. b \in Copy!Bundle /\ b.datasets = bundle[c].datasets /\ b.tools = named /\ b.rels = bundle[c].rels
  BY <1>2, <1>4, Reads DEF Copy!Bundle
<1>6. step'[c] = "rels" /\ bundle'[c] = b /\ keyOf'[c] = keyOf[c] /\ queue'[c] = queue[c]
  BY <1>1, <1>2, Reads DEF Copy!IInv, Copy!Shaped
<1> HIDE DEF b, named
<1>7. Copy!Begun(c)' = Copy!Begun(c)
  BY <1>1, <1>6 DEF Copy!Begun
<1>8. Copy!ListOK(c)'
  BY <1>1, <1>2, <1>5, <1>6, <1>7, Reads DEF Copy!ListOK, Copy!Listed
<1>9. bundle[c].rels = {}
  BY <1>1, <1>2, Reads DEF Copy!BundleOK
<1>10. Copy!SelfContainedServer(b)
  BY <1>3, <1>4, <1>5, <1>9 DEF Copy!SelfContainedServer
<1>11. Copy!BundleOK(c)'
  <2>1. Copy!SelfContainedServer(bundle[c])'
    BY <1>6, <1>10 DEF Copy!SelfContainedServer
  <2>2. QED
    BY <1>1, <1>2, <1>5, <1>6, <1>9, <2>1, Reads DEF Copy!BundleOK, Copy!Listed, Copy!Exporting
<1>12. queue' = [queue EXCEPT ![c] = queue[c]]
  BY <1>1 DEF Copy!IInv, Copy!Shaped
<1>13. QED
  BY <1>1, <1>2, <1>5, <1>8, <1>11, <1>12, Reads, ReadsOn

LEMMA ExportRelsKeeps ==
  ASSUME Copy!PortabilityAssumption, Copy!IInv, NEW c \in Exporters, Copy!ExportRels(c)
  PROVE  Copy!IInv'
<1> DEFINE named == Copy!NamedRels(keyOf[c])
           b == [bundle[c] EXCEPT !.rels = named]
<1>1. /\ step[c] = "rels" /\ Copy!UsedByRels \subseteq DOMAIN keyOf[c] /\ step' = [step EXCEPT ![c] = "bundle"]
      /\ bundle' = [bundle EXCEPT ![c] = b] /\ keyOf' = [keyOf EXCEPT ![c] = <<>>]
      /\ UNCHANGED <<datasets, tools, rels, copies, queue, slugs, source>>
  <2>1. bundle' = [bundle EXCEPT ![c].rels = named]
    BY DEF Copy!ExportRels
  <2>2. [bundle EXCEPT ![c].rels = named] = [bundle EXCEPT ![c] = b]
    OBVIOUS
  <2>3. QED
    BY <2>1, <2>2 DEF Copy!ExportRels, Copy!Goto, Copy!Reading, Copy!server
<1>2. Copy!Exporting(c) /\ Copy!Listed(c)
  BY <1>1 DEF Copy!Exporting, Copy!Listed
<1>3. /\ queue[c] = {} /\ DOMAIN keyOf[c] \in SUBSET DatasetIds
      /\ \A e \in DOMAIN keyOf[c] : keyOf[c][e] \in DatasetKeys
      /\ \A d \in DOMAIN keyOf[c] : \E x \in bundle[c].datasets : x.key = keyOf[c][d]
  BY <1>1, <1>2, Reads DEF Copy!ListOK, Copy!Begun
<1>4. /\ named \in SUBSET Copy!RelLinks
      /\ \A r \in named : \E d, e \in DOMAIN keyOf[c] : r[2] = keyOf[c][d] /\ r[3] = keyOf[c][e]
  <2> DEFINE D == DOMAIN keyOf[c]
             key == keyOf[c]
  <2>1. Copy!UsedByRels \subseteq D /\ D \in SUBSET DatasetIds /\ \A e \in D : key[e] \in DatasetKeys
    BY <1>1, <1>3
  <2> HIDE DEF D, key
  <2>2. /\ Copy!NamedRels(key) \in SUBSET Copy!RelLinks
        /\ \A r \in Copy!NamedRels(key) : \E d, e \in D : r[2] = key[d] /\ r[3] = key[e]
    BY <2>1, EndsAreKeys
  <2>3. QED
    BY <2>2 DEF D, key
<1>5. b \in Copy!Bundle /\ b.datasets = bundle[c].datasets /\ b.tools = bundle[c].tools /\ b.rels = named
  BY <1>2, <1>4, Reads DEF Copy!Bundle
<1>6. step'[c] = "bundle" /\ bundle'[c] = b /\ queue'[c] = queue[c]
  BY <1>1, <1>2, Reads DEF Copy!IInv, Copy!Shaped
<1> HIDE DEF b, named
<1>7. Copy!ListOK(c)'
  BY <1>6 DEF Copy!ListOK, Copy!Listed
<1>8. Copy!SelfContainedServer(bundle[c])
  BY <1>1, <1>2, Reads DEF Copy!BundleOK
<1>9. Copy!SelfContainedServer(b)
  BY <1>3, <1>4, <1>5, <1>8 DEF Copy!SelfContainedServer
<1>10. Copy!BundleOK(c)'
  <2>1. Copy!SelfContainedServer(bundle[c])'
    BY <1>6, <1>9 DEF Copy!SelfContainedServer
  <2>2. \A x \in bundle[c].datasets : x.seed # Nothing
    BY <1>1, <1>2, Reads DEF Copy!BundleOK
  <2>3. QED
    BY <1>1, <1>2, <1>5, <1>6, <2>1, <2>2, Reads DEF Copy!BundleOK, Copy!Listed, Copy!Exporting
<1>11. OneRequest(c)
  BY <1>1, <1>6 DEF OneRequest, Copy!IInv, Copy!Shaped
<1>12. (bundle'[c] # Nothing) = Copy!Exporting(c)' /\ slugs'[c] \in SUBSET CopySlugs
  BY <1>1, <1>2, <1>5, <1>6, Reads DEF Copy!Exporting, Copy!PortabilityAssumption
<1>13. QED
  BY <1>1, <1>2, <1>5, <1>6, <1>7, <1>10, <1>11, <1>12, Reads, CopiesKept, StepKeeps

LEMMA BeginImportKeeps ==
  ASSUME Copy!PortabilityAssumption, Copy!IInv, NEW c \in Exporters, NEW g \in CopySlugs, Copy!BeginImport(c, g)
  PROVE  Copy!IInv'
<1>1. CASE Copy!Abandon(c, "refused")
  BY <1>1, AbandonKeeps
<1>2. CASE /\ step[c] = "bundle" /\ slugs' = [slugs EXCEPT ![c] = {g}] /\ step' = [step EXCEPT ![c] = "import"]
           /\ UNCHANGED <<datasets, tools, rels, copies, keyOf, queue, bundle, source>>
  <2>1. Copy!Exporting(c) /\ ~Copy!Listed(c)
    BY <1>2 DEF Copy!Exporting, Copy!Listed
  <2>2. step'[c] = "import" /\ slugs'[c] = {g}
    BY <1>2, <2>1, Reads DEF Copy!IInv, Copy!Shaped
  <2>3. Copy!ListOK(c)'
    BY <2>2 DEF Copy!ListOK, Copy!Listed
  <2>4. Copy!BundleOK(c)'
    BY <1>2, <2>1, <2>2, Reads DEF Copy!BundleOK, Copy!Listed, Copy!Exporting, Copy!SelfContainedServer
  <2>5. OneRequest(c)
    BY <1>2, <2>2 DEF OneRequest, Copy!IInv, Copy!Shaped
  <2>6. (bundle'[c] # Nothing) = Copy!Exporting(c)'
    BY <1>2, <2>1, <2>2, Reads DEF Copy!Exporting, Copy!PortabilityAssumption
  <2>7. QED
    BY <1>2, <2>1, <2>2, <2>3, <2>4, <2>5, <2>6, Reads, CopiesKept, StepKeeps
<1>3. QED
  BY <1>1, <1>2 DEF Copy!BeginImport, Copy!Goto, Copy!server

(* What the copies become.                                                  *)
LEMMA IntoIsWhole ==
  ASSUME Copy!PortabilityAssumption, Copy!IInv, NEW gs \in SUBSET CopySlugs, NEW s \in Copy!Server, Copy!SelfContainedServer(s),
         \A x, y \in s.datasets : x.key = y.key => x = y, copies' = Copy!Into(gs, s)
  PROVE  copies' \in [CopySlugs -> Copy!Server \cup {Absent}] /\ Copy!CopiesWhole'
<1>1. \A g \in CopySlugs : copies'[g] = IF g \in gs THEN s ELSE copies[g]
  BY DEF Copy!Into
<1>2. copies' \in [CopySlugs -> Copy!Server \cup {Absent}]
  BY DEF Copy!Into, Copy!IInv, Copy!Shaped
<1>3. QED
  BY <1>1, <1>2 DEF Copy!CopiesWhole, Copy!IInv, Copy!SelfContainedServer

LEMMA FinishKeeps ==
  ASSUME Copy!PortabilityAssumption, Copy!IInv, NEW c \in Copy!Clients, NEW how \in {"error", "copied"}, NEW made,
         Copy!Finish(c, how, made), made \in [CopySlugs -> Copy!Server \cup {Absent}], Copy!CopiesWhole'
  PROVE  Copy!IInv'
<1>1. /\ step' = [step EXCEPT ![c] = how] /\ copies' = made /\ slugs' = [slugs EXCEPT ![c] = {}]
      /\ UNCHANGED <<datasets, tools, rels, keyOf, queue>>
  BY DEF Copy!Finish, Copy!Goto, Copy!server
<1>2. c \in Exporters => /\ bundle' = [bundle EXCEPT ![c] = Nothing] /\ source' = [source EXCEPT ![c] = Nothing]
  BY DEF Copy!Finish
<1>3. c \notin Exporters => UNCHANGED <<bundle, source>>
  BY DEF Copy!Finish
<1>4. step'[c] = how /\ slugs'[c] = {} /\ (c \in Exporters => queue'[c] \in SUBSET DatasetIds /\ bundle'[c] = Nothing)
  BY <1>1, <1>2 DEF Copy!IInv, Copy!Shaped
<1>5. bundle' = [bundle EXCEPT ![c] = bundle'[c]] /\ source' = [source EXCEPT ![c] = source'[c]]
  <2>1. CASE c \in Exporters
    BY <2>1, <1>2 DEF Copy!IInv, Copy!Shaped
  <2>2. CASE c \notin Exporters
    BY <2>2, <1>3 DEF Copy!IInv, Copy!Shaped
  <2>3. QED
    BY <2>1, <2>2
<1>6. keyOf' = [keyOf EXCEPT ![c] = keyOf'[c]] /\ queue' = [queue EXCEPT ![c] = queue'[c]]
  BY <1>1 DEF Copy!IInv, Copy!Shaped
<1>7. OneRequest(c)
  BY <1>1, <1>4, <1>5, <1>6 DEF OneRequest
<1>8. ~Copy!Exporting(c)'
  BY <1>4 DEF Copy!Exporting
<1>9. QED
  BY <1>1, <1>4, <1>7, <1>8, QuietKeeps

(* Replacing rows by what they are changes nothing.                         *)
LEMMA ImportedAsItIs ==
  ASSUME NEW b \in Copy!Bundle
  PROVE  Copy!Imported(b) = b
<1>1. \A d \in b.datasets : Copy!Made(d) = d
  BY DEF Copy!Made, Copy!Created, Copy!Bundle
<1>2. {Copy!Made(d) : d \in b.datasets} = b.datasets
  BY <1>1
<1>3. QED
  BY <1>2 DEF Copy!Imported, Copy!Bundle

(* A bundle that is read is a server.                                       *)
LEMMA BundleIsServer ==
  ASSUME Copy!PortabilityAssumption, Copy!IInv, NEW c \in Exporters, step[c] = "import"
  PROVE  /\ Copy!Imported(bundle[c]) = bundle[c] /\ bundle[c] \in Copy!Server /\ Copy!SelfContainedServer(bundle[c])
         /\ \A x, y \in bundle[c].datasets : x.key = y.key => x = y
<1>1. Copy!Exporting(c) /\ ~Copy!Listed(c)
  BY DEF Copy!Exporting, Copy!Listed
<1>2. bundle[c] \in Copy!Bundle /\ \A x \in bundle[c].datasets : x.seed # Nothing
  BY <1>1, Reads DEF Copy!BundleOK
<1>3. \A x \in bundle[c].datasets : x \in Copy!Dataset
  BY <1>2 DEF Copy!Bundle, Copy!Dataset
<1>4. bundle[c] \in Copy!Server
  BY <1>2, <1>3 DEF Copy!Bundle, Copy!Server
<1>5. QED
  BY <1>1, <1>2, <1>4, Reads, ImportedAsItIs DEF Copy!BundleOK

LEMMA ImportKeeps ==
  ASSUME Copy!PortabilityAssumption, Copy!IInv, NEW c \in Exporters, Copy!Import(c)
  PROVE  Copy!IInv'
<1>1. step[c] = "import" /\ c \in Copy!Clients /\ slugs[c] \in SUBSET CopySlugs
  BY DEF Copy!Import, Copy!Clients, Copy!IInv, Copy!Shaped
<1>2. CASE Copy!Finish(c, "error", copies)
  <2>1. copies' = copies
    BY <1>2 DEF Copy!Finish
  <2>2. QED
    BY <1>1, <1>2, <2>1, CopiesKept, FinishKeeps
<1>3. CASE Copy!Finish(c, "copied", Copy!Into(slugs[c], Copy!Imported(bundle[c])))
  <2>1. copies' = Copy!Into(slugs[c], Copy!Imported(bundle[c]))
    BY <1>3 DEF Copy!Finish
  <2>2. copies' \in [CopySlugs -> Copy!Server \cup {Absent}] /\ Copy!CopiesWhole'
    BY <1>1, <2>1, BundleIsServer, IntoIsWhole
  <2>3. QED
    BY <1>1, <1>3, <2>1, <2>2, FinishKeeps
<1>4. QED
  BY <1>2, <1>3 DEF Copy!Import

LEMMA CloneKeeps ==
  ASSUME Copy!PortabilityAssumption, Copy!IInv, NEW c \in Cloners, Copy!Clone(c)
  PROVE  Copy!IInv'
<1>1. c \in Copy!Clients /\ slugs[c] \in SUBSET CopySlugs
  BY DEF Copy!Clients, Copy!IInv, Copy!Shaped
<1>2. CASE Copy!Finish(c, "error", copies)
  <2>1. copies' = copies
    BY <1>2 DEF Copy!Finish
  <2>2. QED
    BY <1>1, <1>2, <2>1, CopiesKept, FinishKeeps
<1>3. CASE Copy!Finish(c, "copied", Copy!Into(slugs[c], Copy!Whole))
  <2>1. copies' = Copy!Into(slugs[c], Copy!Whole)
    BY <1>3 DEF Copy!Finish
  <2>2. copies' \in [CopySlugs -> Copy!Server \cup {Absent}] /\ Copy!CopiesWhole'
    BY <1>1, <2>1, WholeIsWhole, IntoIsWhole
  <2>3. QED
    BY <1>1, <1>3, <2>1, <2>2, FinishKeeps
<1>4. QED
  BY <1>2, <1>3 DEF Copy!Clone

LEMMA BeginCloneKeeps ==
  ASSUME Copy!PortabilityAssumption, Copy!IInv, NEW c \in Cloners, NEW gs \in Targets, Copy!BeginClone(c, gs)
  PROVE  Copy!IInv'
<1>1. /\ c \in Copy!Clients /\ Copy!Idle(c) /\ gs \in SUBSET CopySlugs
      /\ \E how \in {"refused", "clone"} : step' = [step EXCEPT ![c] = how]
      /\ UNCHANGED slugs \/ slugs' = [slugs EXCEPT ![c] = gs]
      /\ UNCHANGED <<datasets, tools, rels, copies, keyOf, queue, bundle, source>>
  BY DEF Copy!BeginClone, Copy!Goto, Copy!server, Copy!Clients, Copy!PortabilityAssumption
<1>2. step'[c] \in {"refused", "clone"} /\ slugs'[c] \in SUBSET CopySlugs
  BY <1>1 DEF Copy!IInv, Copy!Shaped
<1>3. OneRequest(c)
  BY <1>1 DEF OneRequest, Copy!IInv, Copy!Shaped
<1>4. ~Copy!Exporting(c)' /\ ~Copy!Exporting(c)
  BY <1>1, <1>2 DEF Copy!Exporting, Copy!Idle
<1>5. c \in Exporters => queue'[c] \in SUBSET DatasetIds /\ bundle'[c] = Nothing
  BY <1>1, <1>4 DEF Copy!IInv, Copy!Shaped, Copy!TypeOK, Copy!Exporting
<1>6. QED
  BY <1>1, <1>2, <1>3, <1>4, <1>5, CopiesKept, QuietKeeps

LEMMA ExportsKeep ==
  ASSUME Copy!PortabilityAssumption, Copy!IInv, NEW c \in Exporters, NEW into \in SUBSET CopySlugs, Copy!Exports(c, into)
  PROVE  Copy!IInv'
<1>1. CASE Copy!DatasetGone(c) \/ Copy!UnknownKey(c)
  BY <1>1, AbandonKeeps DEF Copy!DatasetGone, Copy!UnknownKey
<1>2. QED
  BY <1>1, BeginExportKeeps, ExportRowsKeeps, ExportSeedsKeeps, NoDatasetsKeeps, ExportEndpointsKeeps,
     ExportRelsKeeps, BeginImportKeeps, ImportKeeps DEF Copy!Exports

LEMMA ClonesKeep ==
  ASSUME Copy!PortabilityAssumption, Copy!IInv, NEW c \in Cloners, NEW targets \in SUBSET Targets, Copy!Clones(c, targets)
  PROVE  Copy!IInv'
BY CloneKeeps, BeginCloneKeeps DEF Copy!Clones

LEMMA CopyStutterKeeps ==
  ASSUME Copy!IInv, UNCHANGED Copy!vars
  PROVE  Copy!IInv'
<1>1. UNCHANGED <<datasets, tools, rels>> /\ UNCHANGED Private
  BY DEF Copy!vars, Private
<1>2. QED
  BY <1>1, TablesKept, PrivateKept DEF Copy!IInv, Copy!TypeOK, Copy!Shaped, Private, Copy!Clients

-------------------------------------------------------------------------------
(* Bundles are self-contained, and clones all made.                         *)

LEMMA BundlesAreWhole ==
  ASSUME Copy!IInv
  PROVE  Copy!SelfContained
BY DEF Copy!IInv, Copy!Shaped, Copy!BundleOK, Copy!Listed, Copy!Exporting, Copy!SelfContained, Copy!Clients

(* An edit is no end of a request.                                          *)
LEMMA EditsFaithful ==
  ASSUME NEW c, NEW keys, NEW rowsets, Copy!Edits(c, keys, rowsets)
  PROVE  UNCHANGED step /\ Copy!AllClones /\ Copy!RoundTrip /\ Copy!Idle(c)
<1>1. UNCHANGED step /\ Copy!Idle(c)
  BY DEF Copy!Edits, Copy!ReplaceRows, Copy!SaveAsSeed, Copy!CreateDataset, Copy!RenameDataset, Copy!DeleteDataset, Copy!SetTool, Copy!SetRel,
         Copy!DeleteCopy, Copy!Edit
<1>2. QED
  BY <1>1 DEF Copy!AllClones, Copy!RoundTrip

(* What a step of an export may be.                                         *)
LEMMA ExportsGo ==
  ASSUME Copy!PortabilityAssumption, Copy!IInv, NEW c \in Exporters, NEW into, Copy!Exports(c, into)
  PROVE  step[c] # "clone" /\ \E how : step' = [step EXCEPT ![c] = how]
<1>1. CASE Copy!BeginExport(c)
  BY <1>1 DEF Copy!BeginExport, Copy!Idle, Copy!Goto
<1>2. CASE Copy!ExportRows(c) \/ Copy!ExportSeeds(c) \/ Copy!NoDatasets(c) \/ Copy!ExportEndpoints(c) \/ Copy!ExportRels(c)
  BY <1>2 DEF Copy!ExportRows, Copy!ExportSeeds, Copy!NoDatasets, Copy!ExportEndpoints, Copy!ExportRels, Copy!Goto
<1>3. CASE Copy!DatasetGone(c) \/ Copy!UnknownKey(c)
  BY <1>3 DEF Copy!DatasetGone, Copy!UnknownKey, Copy!Abandon, Copy!Goto
<1>4. CASE \E g \in into : Copy!BeginImport(c, g)
  BY <1>4 DEF Copy!BeginImport, Copy!Abandon, Copy!Goto
<1>5. CASE Copy!Import(c)
  BY <1>5 DEF Copy!Import, Copy!Finish, Copy!Goto
<1>6. QED
  BY <1>1, <1>2, <1>3, <1>4, <1>5 DEF Copy!Exports

LEMMA ExportsCloneNothing ==
  ASSUME Copy!PortabilityAssumption, Copy!IInv, NEW c \in Exporters, NEW into, Copy!Exports(c, into)
  PROVE  Copy!AllClones
<1>1. \A d \in Cloners : d # c => step'[d] = step[d]
  BY ExportsGo DEF Copy!IInv, Copy!Shaped, Copy!Clients
<1>2. QED
  BY <1>1, ExportsGo DEF Copy!AllClones

LEMMA ClonesAreWhole ==
  ASSUME Copy!PortabilityAssumption, Copy!IInv, NEW c \in Cloners, NEW targets, Copy!Clones(c, targets)
  PROVE  Copy!AllClones
<1>1. \E how : step' = [step EXCEPT ![c] = how]
  BY DEF Copy!Clones, Copy!Clone, Copy!BeginClone, Copy!Finish, Copy!Goto
<1>2. \A d \in Cloners : d # c => step'[d] = step[d]
  BY <1>1 DEF Copy!IInv, Copy!Shaped, Copy!Clients
<1>3. step[c] = "clone" => copies' = copies \/ \A g \in slugs[c] : copies[g] = Absent /\ copies'[g] = Copy!Whole
  <2>1. slugs[c] \in SUBSET CopySlugs
    BY DEF Copy!IInv, Copy!Shaped, Copy!Clients
  <2>2. CASE \E gs \in targets : Copy!BeginClone(c, gs)
    BY <2>2 DEF Copy!BeginClone, Copy!Idle
  <2>3. CASE Copy!Clone(c)
    BY <2>1, <2>3 DEF Copy!Clone, Copy!Finish, Copy!Taken, Copy!Into
  <2>4. QED
    BY <2>2, <2>3 DEF Copy!Clones
<1>4. QED
  BY <1>2, <1>3 DEF Copy!AllClones

LEMMA StutterFaithful ==
  ASSUME UNCHANGED step
  PROVE  Copy!AllClones /\ Copy!RoundTrip
BY DEF Copy!AllClones, Copy!RoundTrip

-------------------------------------------------------------------------------
(* One user alone.                                                          *)

LEMMA ServerKept ==
  ASSUME UNCHANGED <<datasets, tools, rels>>
  PROVE  /\ Copy!Stored' = Copy!Stored /\ Copy!KeysNow' = Copy!KeysNow /\ Copy!Whole' = Copy!Whole
         /\ Copy!NamedTools(Copy!KeysNow)' = Copy!NamedTools(Copy!KeysNow) /\ Copy!NamedRels(Copy!KeysNow)' = Copy!NamedRels(Copy!KeysNow)
         /\ \A d : Copy!Cleaned(d)' = Copy!Cleaned(d)
<1>1. Copy!Stored' = Copy!Stored /\ Copy!KeysNow' = Copy!KeysNow
  BY DEF Copy!Stored, Copy!KeysNow
<1>2. Copy!NamedTools(Copy!KeysNow)' = Copy!NamedTools(Copy!KeysNow)
  BY <1>1 DEF Copy!NamedTools
<1>3. Copy!NamedRels(Copy!KeysNow)' = Copy!NamedRels(Copy!KeysNow)
  BY <1>1 DEF Copy!NamedRels
<1>4. Copy!Whole' = Copy!Whole
  BY <1>1, <1>2, <1>3 DEF Copy!Whole
<1>5. QED
  BY <1>1, <1>2, <1>3, <1>4 DEF Copy!Cleaned

LEMMA CopyInitAlone ==
  ASSUME Copy!Init, NEW c \in Copy!Clients
  PROVE  Copy!Alone(c)
<1>1. \A d \in Copy!Clients : step[d] = "idle"
  BY DEF Copy!Init
<1>2. QED
  BY <1>1 DEF Copy!Alone, Copy!Listed, Copy!Exporting

(* Whoever is not exporting is alone if the others are idle.                *)
LEMMA QuietAlone ==
  ASSUME NEW c, ~Copy!Exporting(c)', \A d \in Copy!Clients \ {c} : step'[d] = "idle"
  PROVE  Copy!Alone(c)'
BY DEF Copy!Alone, Copy!Listed, Copy!Exporting

LEMMA CopyEditsAlone ==
  ASSUME NEW c \in Copy!Clients, Copy!Alone(c), NEW keys, NEW rowsets, Copy!Edits(c, keys, rowsets)
  PROVE  Copy!Alone(c)'
<1>1. UNCHANGED step /\ ~Copy!Exporting(c)
  BY EditsFaithful DEF Copy!Idle
<1>2. ~Copy!Exporting(c)' /\ \A d \in Copy!Clients \ {c} : step'[d] = "idle"
  BY <1>1 DEF Copy!Exporting, Copy!Alone
<1>3. QED
  BY <1>2, QuietAlone

(* What the export of a user who is alone reads.                            *)
LEMMA AloneReads ==
  ASSUME Copy!PortabilityAssumption, Copy!IInv, NEW c \in Exporters, Copy!Alone(c), Copy!Exporting(c)
  PROVE  /\ source[c] = Copy!Whole
         /\ Copy!Listed(c) => /\ keyOf[c] = Copy!KeysNow /\ queue[c] \subseteq Copy!Stored
                         /\ \A d \in Copy!Stored : keyOf[c][d] = datasets[d].key
         /\ step[c] \in {"datasets", "endpoints", "rels"} =>
              bundle[c].datasets = {Copy!Cleaned(d) : d \in Copy!Stored \ queue[c]}
         /\ step[c] = "seeds" =>
              bundle[c].datasets = {Copy!Cleaned(d) : d \in Copy!Stored \ queue[c]} \cup {Copy!ReadLive(c, Copy!Min(queue[c]))}
         /\ ~Copy!Listed(c) => bundle[c].datasets = {Copy!Cleaned(d) : d \in Copy!Stored}
<1>1. Copy!ListOK(c)
  BY Reads
<1>2. Copy!Listed(c) => keyOf[c] = Copy!KeysNow /\ queue[c] \subseteq DOMAIN keyOf[c]
  BY <1>1 DEF Copy!Alone, Copy!ListOK
<1>3. DOMAIN Copy!KeysNow = Copy!Stored /\ \A d \in Copy!Stored : Copy!KeysNow[d] = datasets[d].key
  BY DEF Copy!KeysNow
<1>4. QED
  BY <1>2, <1>3 DEF Copy!Alone, Copy!Listed

LEMMA CleanedRows ==
  ASSUME Copy!PortabilityAssumption, Copy!IInv, NEW d \in Copy!Stored
  PROVE  Copy!Cleaned(d) \in Copy!Dataset /\ Copy!Cleaned(d).seed # Nothing
BY StoredRows DEF Copy!Cleaned, Copy!Dataset, Copy!PortabilityAssumption

(* A step of an export that reads on.                                       *)
LEMMA AloneReadsOn ==
  ASSUME Copy!PortabilityAssumption, Copy!IInv, NEW c \in Exporters, Copy!Alone(c), NEW how,
         step' = [step EXCEPT ![c] = how], UNCHANGED <<datasets, tools, rels>>,
         source'[c] = Copy!Whole,
         Copy!Listed(c)' => keyOf'[c] = Copy!KeysNow,
         bundle'[c].datasets =
           {Copy!Cleaned(d) : d \in IF Copy!Listed(c)' THEN Copy!Stored \ queue'[c] ELSE Copy!Stored} \cup
           (IF how = "seeds" THEN {Copy!ReadLive(c, Copy!Min(queue[c]))'} ELSE {}),
         how \notin {"datasets", "seeds", "endpoints"} => bundle'[c].tools = Copy!NamedTools(Copy!KeysNow),
         ~Copy!Listed(c)' => bundle'[c].rels = Copy!NamedRels(Copy!KeysNow)
  PROVE  Copy!Alone(c)'
<1>1. c \in Copy!Clients /\ step'[c] = how /\ \A d \in Copy!Clients \ {c} : step'[d] = "idle"
  BY DEF Copy!IInv, Copy!Shaped, Copy!Clients, Copy!Alone
<1>2. {Copy!Cleaned(d)' : d \in IF Copy!Listed(c)' THEN Copy!Stored' \ queue'[c] ELSE Copy!Stored'} =
        {Copy!Cleaned(d) : d \in IF Copy!Listed(c)' THEN Copy!Stored \ queue'[c] ELSE Copy!Stored}
  BY ServerKept
<1>3. QED
  BY <1>1, <1>2, ServerKept DEF Copy!Alone

LEMMA BeginExportAlone ==
  ASSUME Copy!PortabilityAssumption, Copy!IInv, NEW c \in Exporters, Copy!Alone(c), Copy!BeginExport(c)
  PROVE  Copy!Alone(c)'
<1>1. /\ step' = [step EXCEPT ![c] = "datasets"] /\ keyOf'[c] = Copy!KeysNow /\ queue'[c] = Copy!Stored
      /\ bundle'[c] = Copy!Empty /\ source'[c] = Copy!Whole /\ UNCHANGED <<datasets, tools, rels>>
  BY DEF Copy!BeginExport, Copy!Goto, Copy!KeysNow, Copy!server, Copy!IInv, Copy!Shaped
<1>2. step'[c] = "datasets" /\ Copy!Listed(c)'
  BY <1>1 DEF Copy!Listed, Copy!IInv, Copy!Shaped, Copy!Clients
<1>3. bundle'[c].datasets = {}
  BY <1>1 DEF Copy!Empty
<1>4. QED
  BY <1>1, <1>2, <1>3, AloneReadsOn

LEMMA ExportRowsAlone ==
  ASSUME Copy!PortabilityAssumption, Copy!IInv, NEW c \in Exporters, Copy!Alone(c), Copy!ExportRows(c)
  PROVE  Copy!Alone(c)'
<1> DEFINE x == Copy!ReadLive(c, Copy!Min(queue[c]))
<1>1. /\ step[c] = "datasets" /\ step' = [step EXCEPT ![c] = "seeds"]
      /\ bundle' = [bundle EXCEPT ![c].datasets = @ \cup {x}]
      /\ UNCHANGED <<datasets, tools, rels, copies, keyOf, queue, slugs, source>>
  BY DEF Copy!ExportRows, Copy!Goto, Copy!Reading, Copy!server
<1>2. Copy!Exporting(c) /\ Copy!Listed(c)
  BY <1>1 DEF Copy!Exporting, Copy!Listed
<1>3. step'[c] = "seeds" /\ Copy!Listed(c)'
  BY <1>1 DEF Copy!Listed, Copy!IInv, Copy!Shaped, Copy!Clients
<1>4. bundle'[c].datasets = bundle[c].datasets \cup {x}
  BY <1>1, <1>2, Reads DEF Copy!IInv, Copy!Shaped, Copy!Bundle
<1>5. bundle[c].datasets = {Copy!Cleaned(d) : d \in Copy!Stored \ queue[c]} /\ keyOf[c] = Copy!KeysNow /\ source[c] = Copy!Whole
  BY <1>1, <1>2, AloneReads
<1>6. Copy!ReadLive(c, Copy!Min(queue[c]))' = x
  BY <1>1 DEF Copy!ReadLive
<1> HIDE DEF x
<1>7. bundle'[c].datasets =
        {Copy!Cleaned(d) : d \in IF Copy!Listed(c)' THEN Copy!Stored \ queue'[c] ELSE Copy!Stored} \cup {Copy!ReadLive(c, Copy!Min(queue[c]))'}
  BY <1>1, <1>3, <1>4, <1>5, <1>6
<1>8. QED
  BY <1>1, <1>3, <1>5, <1>7, AloneReadsOn

LEMMA ExportSeedsAlone ==
  ASSUME Copy!PortabilityAssumption, Copy!IInv, NEW c \in Exporters, Copy!Alone(c), Copy!ExportSeeds(c)
  PROVE  Copy!Alone(c)'
<1> DEFINE d == Copy!Min(queue[c])
           half == CHOOSE x \in bundle[c].datasets : x.seed = Nothing
           new == [half EXCEPT !.seed = Copy!ReadSeed(c, d).seed]
           how == IF queue[c] = {d} THEN "endpoints" ELSE "datasets"
           rest == {Copy!Cleaned(e) : e \in Copy!Stored \ queue[c]}
<1>1. /\ step[c] = "seeds" /\ step' = [step EXCEPT ![c] = how] /\ d \in Copy!Stored
      /\ bundle' = [bundle EXCEPT ![c].datasets = (@ \ {half}) \cup {new}]
      /\ queue' = [queue EXCEPT ![c] = queue[c] \ {d}]
      /\ UNCHANGED <<datasets, tools, rels, copies, keyOf, slugs, source>>
  BY DEF Copy!ExportSeeds, Copy!Goto, Copy!Reading, Copy!server
<1>2. Copy!Exporting(c) /\ Copy!Listed(c)
  BY <1>1 DEF Copy!Exporting, Copy!Listed
<1>3. step'[c] = how /\ Copy!Listed(c)' /\ queue'[c] = queue[c] \ {d}
  BY <1>1 DEF Copy!Listed, Copy!IInv, Copy!Shaped, Copy!Clients
<1>4. bundle'[c].datasets = (bundle[c].datasets \ {half}) \cup {new}
  BY <1>1, <1>2, Reads DEF Copy!IInv, Copy!Shaped, Copy!Bundle
<1>5. /\ bundle[c].datasets = rest \cup {Copy!ReadLive(c, d)} /\ keyOf[c] = Copy!KeysNow /\ source[c] = Copy!Whole
      /\ keyOf[c][d] = datasets[d].key /\ queue[c] \subseteq Copy!Stored
  BY <1>1, <1>2, AloneReads
<1>6. d \in queue[c]
  BY <1>1, <1>2, Reads DEF Copy!ListOK
<1>7. \A x \in rest : x.seed # Nothing
  BY CleanedRows
<1>8. Copy!ReadLive(c, d).seed = Nothing
  BY DEF Copy!ReadLive
<1>9. half = Copy!ReadLive(c, d)
  BY <1>5, <1>7, <1>8
<1>10. new = Copy!Cleaned(d)
  BY <1>5, <1>9 DEF Copy!ReadLive, Copy!ReadSeed, Copy!Cleaned
<1> HIDE DEF half, new
<1>11. bundle'[c].datasets = rest \cup {Copy!Cleaned(d)}
  BY <1>4, <1>5, <1>7, <1>8, <1>9, <1>10
<1>12. Copy!Stored \ queue'[c] = (Copy!Stored \ queue[c]) \cup {d}
  BY <1>1, <1>3, <1>6
<1>13. bundle'[c].datasets = {Copy!Cleaned(e) : e \in Copy!Stored \ queue'[c]}
  BY <1>11, <1>12
<1>14. how \in {"endpoints", "datasets"}
  OBVIOUS
<1>15. QED
  BY <1>1, <1>3, <1>5, <1>13, <1>14, AloneReadsOn

LEMMA NoDatasetsAlone ==
  ASSUME Copy!PortabilityAssumption, Copy!IInv, NEW c \in Exporters, Copy!Alone(c), Copy!NoDatasets(c)
  PROVE  Copy!Alone(c)'
<1>1. /\ step[c] = "datasets" /\ step' = [step EXCEPT ![c] = "endpoints"]
      /\ UNCHANGED <<datasets, tools, rels, copies, keyOf, queue, bundle, slugs, source>>
  BY DEF Copy!NoDatasets, Copy!Goto, Copy!Reading, Copy!server
<1>2. Copy!Exporting(c) /\ Copy!Listed(c)
  BY <1>1 DEF Copy!Exporting, Copy!Listed
<1>3. step'[c] = "endpoints" /\ Copy!Listed(c)'
  BY <1>1 DEF Copy!Listed, Copy!IInv, Copy!Shaped, Copy!Clients
<1>4. bundle[c].datasets = {Copy!Cleaned(d) : d \in Copy!Stored \ queue[c]} /\ keyOf[c] = Copy!KeysNow /\ source[c] = Copy!Whole
  BY <1>1, <1>2, AloneReads
<1>5. QED
  BY <1>1, <1>3, <1>4, AloneReadsOn

LEMMA ExportEndpointsAlone ==
  ASSUME Copy!PortabilityAssumption, Copy!IInv, NEW c \in Exporters, Copy!Alone(c), Copy!ExportEndpoints(c)
  PROVE  Copy!Alone(c)'
<1>1. /\ step[c] = "endpoints" /\ step' = [step EXCEPT ![c] = "rels"]
      /\ bundle' = [bundle EXCEPT ![c].tools = Copy!NamedTools(keyOf[c])]
      /\ UNCHANGED <<datasets, tools, rels, copies, keyOf, queue, slugs, source>>
  BY DEF Copy!ExportEndpoints, Copy!Goto, Copy!Reading, Copy!server
<1>2. Copy!Exporting(c) /\ Copy!Listed(c)
  BY <1>1 DEF Copy!Exporting, Copy!Listed
<1>3. step'[c] = "rels" /\ Copy!Listed(c)'
  BY <1>1 DEF Copy!Listed, Copy!IInv, Copy!Shaped, Copy!Clients
<1>4. bundle[c].datasets = {Copy!Cleaned(d) : d \in Copy!Stored \ queue[c]} /\ keyOf[c] = Copy!KeysNow /\ source[c] = Copy!Whole
  BY <1>1, <1>2, AloneReads
<1>5. bundle'[c].datasets = bundle[c].datasets /\ bundle'[c].tools = Copy!NamedTools(Copy!KeysNow)
  BY <1>1, <1>2, <1>4, Reads DEF Copy!IInv, Copy!Shaped, Copy!Bundle
<1>6. QED
  BY <1>1, <1>3, <1>4, <1>5, AloneReadsOn

LEMMA ExportRelsAlone ==
  ASSUME Copy!PortabilityAssumption, Copy!IInv, NEW c \in Exporters, Copy!Alone(c), Copy!ExportRels(c)
  PROVE  Copy!Alone(c)'
<1>1. /\ step[c] = "rels" /\ step' = [step EXCEPT ![c] = "bundle"]
      /\ bundle' = [bundle EXCEPT ![c].rels = Copy!NamedRels(keyOf[c])]
      /\ UNCHANGED <<datasets, tools, rels, copies, queue, slugs, source>>
  BY DEF Copy!ExportRels, Copy!Goto, Copy!Reading, Copy!server
<1>2. Copy!Exporting(c) /\ Copy!Listed(c)
  BY <1>1 DEF Copy!Exporting, Copy!Listed
<1>3. step'[c] = "bundle" /\ ~Copy!Listed(c)'
  BY <1>1 DEF Copy!Listed, Copy!IInv, Copy!Shaped, Copy!Clients
<1>4. /\ bundle[c].datasets = {Copy!Cleaned(d) : d \in Copy!Stored \ queue[c]} /\ keyOf[c] = Copy!KeysNow /\ source[c] = Copy!Whole
      /\ bundle[c].tools = Copy!NamedTools(Copy!KeysNow)
  BY <1>1, <1>2, AloneReads DEF Copy!Alone
<1>5. queue[c] = {}
  BY <1>1, <1>2, Reads DEF Copy!ListOK
<1>6. /\ bundle'[c].datasets = bundle[c].datasets /\ bundle'[c].tools = bundle[c].tools
      /\ bundle'[c].rels = Copy!NamedRels(Copy!KeysNow)
  BY <1>1, <1>2, <1>4, Reads DEF Copy!IInv, Copy!Shaped, Copy!Bundle
<1>7. bundle'[c].datasets = {Copy!Cleaned(d) : d \in Copy!Stored}
  BY <1>4, <1>5, <1>6
<1>8. QED
  BY <1>1, <1>3, <1>4, <1>6, <1>7, AloneReadsOn

LEMMA ExportsAlone ==
  ASSUME Copy!PortabilityAssumption, Copy!IInv, NEW c \in Exporters, Copy!Alone(c), NEW into, Copy!Exports(c, into)
  PROVE  Copy!Alone(c)'
<1>1. c \in Copy!Clients /\ \A d \in Copy!Clients \ {c} : step'[d] = "idle"
  BY ExportsGo DEF Copy!IInv, Copy!Shaped, Copy!Clients, Copy!Alone
<1>2. CASE step'[c] \in {"refused", "keyerror", "error", "copied"}
  BY <1>1, <1>2, QuietAlone DEF Copy!Exporting
<1>3. CASE \E g \in into : Copy!BeginImport(c, g)
  <2>1. CASE Copy!Abandon(c, "refused")
    BY <1>1, <1>2, <2>1 DEF Copy!Abandon, Copy!Goto, Copy!IInv, Copy!Shaped
  <2>2. CASE /\ step[c] = "bundle" /\ step' = [step EXCEPT ![c] = "import"]
             /\ UNCHANGED <<Copy!server, copies, keyOf, queue, bundle, source>>
    <3>1. Copy!Exporting(c) /\ ~Copy!Listed(c) /\ UNCHANGED <<datasets, tools, rels>>
      BY <2>2 DEF Copy!Exporting, Copy!Listed, Copy!server
    <3>2. step'[c] = "import" /\ ~Copy!Listed(c)'
      BY <1>1, <2>2 DEF Copy!Listed, Copy!IInv, Copy!Shaped
    <3>3. /\ bundle[c].datasets = {Copy!Cleaned(d) : d \in Copy!Stored} /\ source[c] = Copy!Whole
          /\ bundle[c].tools = Copy!NamedTools(Copy!KeysNow) /\ bundle[c].rels = Copy!NamedRels(Copy!KeysNow)
      BY <2>2, <3>1, AloneReads DEF Copy!Alone
    <3>4. QED
      BY <2>2, <3>1, <3>2, <3>3, AloneReadsOn
  <2>3. QED
    BY <1>3, <2>1, <2>2 DEF Copy!BeginImport, Copy!Goto
<1>4. CASE Copy!DatasetGone(c) \/ Copy!UnknownKey(c)
  BY <1>1, <1>2, <1>4 DEF Copy!DatasetGone, Copy!UnknownKey, Copy!Abandon, Copy!Goto, Copy!IInv, Copy!Shaped
<1>5. CASE Copy!Import(c)
  BY <1>1, <1>2, <1>5 DEF Copy!Import, Copy!Finish, Copy!Goto, Copy!IInv, Copy!Shaped
<1>6. QED
  BY <1>3, <1>4, <1>5, BeginExportAlone, ExportRowsAlone, ExportSeedsAlone, NoDatasetsAlone,
     ExportEndpointsAlone, ExportRelsAlone DEF Copy!Exports

LEMMA CopyStutterAlone ==
  ASSUME NEW c \in Copy!Clients, Copy!Alone(c), UNCHANGED Copy!vars
  PROVE  Copy!Alone(c)'
<1>1. UNCHANGED <<datasets, tools, rels, step, keyOf, queue, bundle, source>>
  BY DEF Copy!vars
<1>2. Copy!ReadLive(c, Copy!Min(queue[c]))' = Copy!ReadLive(c, Copy!Min(queue[c]))
  BY <1>1 DEF Copy!ReadLive
<1>3. {Copy!Cleaned(d) : d \in IF Copy!Listed(c) THEN Copy!Stored \ queue[c] ELSE Copy!Stored}' =
        {Copy!Cleaned(d) : d \in IF Copy!Listed(c) THEN Copy!Stored \ queue[c] ELSE Copy!Stored}
  BY <1>1, ServerKept DEF Copy!Listed
<1>4. QED
  BY <1>1, <1>2, <1>3, ServerKept DEF Copy!Alone, Copy!Listed, Copy!Exporting

LEMMA CleanOnce ==
  ASSUME NEW x \in Copy!Dataset
  PROVE  [x EXCEPT !.live = Clean(@), !.seed = Clean(@)] =
           [key |-> x.key, live |-> Clean(x.live), seed |-> Clean(x.seed)]
<1>1. [x EXCEPT !.live = Clean(x.live)] = [key |-> x.key, live |-> Clean(x.live), seed |-> x.seed]
  BY DEF Copy!Dataset
<1>2. [[key |-> x.key, live |-> Clean(x.live), seed |-> x.seed] EXCEPT !.seed = Clean(x.seed)] =
        [key |-> x.key, live |-> Clean(x.live), seed |-> Clean(x.seed)]
  OBVIOUS
<1>3. QED
  BY <1>1, <1>2

(* What the import of a user who is alone makes.                            *)
LEMMA AloneImports ==
  ASSUME Copy!PortabilityAssumption, Copy!IInv, NEW c \in Exporters, Copy!Alone(c), step[c] = "import"
  PROVE  bundle[c] = Copy!CleanServer(source[c])
<1>1. Copy!Exporting(c) /\ ~Copy!Listed(c)
  BY DEF Copy!Exporting, Copy!Listed
<1>2. /\ bundle[c].datasets = {Copy!Cleaned(d) : d \in Copy!Stored} /\ source[c] = Copy!Whole
      /\ bundle[c].tools = Copy!NamedTools(Copy!KeysNow) /\ bundle[c].rels = Copy!NamedRels(Copy!KeysNow)
  BY <1>1, AloneReads DEF Copy!Alone
<1> DEFINE clean(x) == [x EXCEPT !.live = Clean(@), !.seed = Clean(@)]
<1>3. \A d \in Copy!Stored : clean(datasets[d]) = Copy!Cleaned(d)
  BY StoredRows, CleanOnce DEF Copy!Cleaned
<1> HIDE DEF clean
<1>4. {clean(x) : x \in Copy!Whole.datasets} = {Copy!Cleaned(d) : d \in Copy!Stored}
  BY <1>3 DEF Copy!Whole
<1>5. Copy!CleanServer(Copy!Whole) =
        [datasets |-> {Copy!Cleaned(d) : d \in Copy!Stored}, tools |-> Copy!NamedTools(Copy!KeysNow), rels |-> Copy!NamedRels(Copy!KeysNow)]
  <2>1. Copy!CleanServer(Copy!Whole) = [Copy!Whole EXCEPT !.datasets = {clean(x) : x \in Copy!Whole.datasets}]
    BY DEF Copy!CleanServer, clean
  <2>2. QED
    BY <1>4, <2>1 DEF Copy!Whole
<1>6. bundle[c] = [datasets |-> bundle[c].datasets, tools |-> bundle[c].tools, rels |-> bundle[c].rels]
  BY <1>1, Reads DEF Copy!Bundle
<1>7. QED
  BY <1>2, <1>5, <1>6

LEMMA ExportsFaithful ==
  ASSUME Copy!PortabilityAssumption, Copy!IInv, NEW c \in Exporters, Copy!Alone(c), NEW into, Copy!Exports(c, into)
  PROVE  Copy!RoundTrip
<1>1. c \in Copy!Clients /\ \A d \in Exporters \ {c} : step[d] # "import"
  BY DEF Copy!Alone, Copy!Clients
<1>2. step[c] = "import" /\ step'[c] = "copied" => \A g \in slugs[c] : copies'[g] = Copy!CleanServer(source[c])
  <2> SUFFICES ASSUME step[c] = "import", step'[c] = "copied"
               PROVE  \A g \in slugs[c] : copies'[g] = Copy!CleanServer(source[c])
    OBVIOUS
  <2>1. Copy!Import(c)
    BY DEF Copy!Exports, Copy!BeginExport, Copy!Idle, Copy!Exporting, Copy!ExportRows, Copy!ExportSeeds, Copy!NoDatasets, Copy!ExportEndpoints,
           Copy!ExportRels, Copy!DatasetGone, Copy!UnknownKey, Copy!BeginImport
  <2>2. copies' = Copy!Into(slugs[c], Copy!Imported(bundle[c])) /\ slugs[c] \in SUBSET CopySlugs
    BY <1>1, <2>1 DEF Copy!Import, Copy!Finish, Copy!Goto, Copy!IInv, Copy!Shaped
  <2>3. QED
    BY <2>2, BundleIsServer, AloneImports DEF Copy!Into
<1>3. QED
  BY <1>1, <1>2 DEF Copy!RoundTrip

-------------------------------------------------------------------------------
(* Cohort.                                                                  *)

(* Cohort counts with its own copy of FiniteSets.                         *)
LEMMA TeamCounts ==
  \A S : Cohorts!IsFiniteSet(S) = IsFiniteSet(S) /\ Cohorts!Cardinality(S) = Cardinality(S)
BY Zenon DEF Cohorts!IsFiniteSet, IsFiniteSet, Cohorts!Cardinality, Cardinality

(* The least of a set of numbers.                                           *)
LEMMA TeamMinIsIn ==
  ASSUME NEW S \in SUBSET Nat, S # {}
  PROVE  Cohorts!Min(S) \in S
<1>1. PICK m \in S : \A n \in S : <<n, m>> \notin OpToRel(<, Nat)
  BY NatLessThanWellFounded, WFMin
<1>2. \A n \in S : ~(n < m)
  BY <1>1 DEF OpToRel
<1>3. \A n \in S : m <= n
  BY <1>2
<1>4. QED
  BY <1>3, Zenon DEF Cohorts!Min

LEMMA TeamIdsAreNumbers ==
  ASSUME Cohorts!CohortAssumption
  PROVE  TeamIds \subseteq Nat /\ Team \subseteq Nat
<1>1. Cohorts!Cardinality(TeamIds) \in Nat
  BY FS_CardinalityType, TeamCounts DEF Cohorts!CohortAssumption
<1>2. \A n \in Nat : 1 .. n \subseteq Nat
  OBVIOUS
<1>3. QED
  BY <1>1, <1>2 DEF Cohorts!CohortAssumption

(* Equal rows, equal counts.                                                *)
LEMMA DriftHolds == Cohorts!DriftIsReal
<1> SUFFICES ASSUME NEW s \in team, Cohorts!Restored(s)
             PROVE  Cohorts!InSync(s)
  BY DEF Cohorts!DriftIsReal
<1>1. [d \in Cohorts!Of(s) |-> Cohorts!Cardinality(live[d])] = [d \in Cohorts!Of(s) |-> Cohorts!Cardinality(seed[d])]
  BY DEF Cohorts!Restored
<1>2. QED
  BY <1>1, Zenon DEF Cohorts!InSync, Cohorts!LiveCount, Cohorts!SeedCount

LEMMA TeamInitHolds ==
  ASSUME Cohorts!CohortAssumption, Cohorts!Init
  PROVE  Cohorts!IInv
BY DEF Cohorts!CohortAssumption, Cohorts!Init, Cohorts!IInv, Cohorts!TypeOK, Cohorts!Shaped, Cohorts!Ledger, Cohorts!Stored, Cohorts!Busy

(* A writer of one dataset.                                                 *)
LEMMA WriteKeeps ==
  ASSUME Cohorts!IInv, NEW c \in Cohorts!Clients, Cohorts!Write(c), Cohorts!CohortAssumption,
         team' \subseteq team,
         home' \in [TeamIds -> Team \cup {Unused, Deleted}],
         live' \in [TeamIds -> SUBSET TeamRows], seed' \in [TeamIds -> SUBSET TeamRows],
         \A d \in TeamIds : home'[d] \in team' \cup {Unused, Deleted},
         \A d \in TeamIds : home'[d] \notin Team => live'[d] = {} /\ seed'[d] = {}
  PROVE  Cohorts!IInv'
BY DEF Cohorts!IInv, Cohorts!TypeOK, Cohorts!Shaped, Cohorts!Ledger, Cohorts!Stored, Cohorts!Busy, Cohorts!Write, Cohorts!Goto, Cohorts!CohortAssumption

LEMMA TeamEditKeeps ==
  ASSUME Cohorts!CohortAssumption, Cohorts!IInv, NEW c \in Cohorts!Clients, NEW d \in TeamIds, NEW rows \in SUBSET TeamRows,
         Cohorts!Edit(c, d, rows)
  PROVE  Cohorts!IInv'
BY WriteKeeps DEF Cohorts!IInv, Cohorts!TypeOK, Cohorts!Shaped, Cohorts!Stored, Cohorts!Edit

LEMMA TeamSaveAsSeedKeeps ==
  ASSUME Cohorts!CohortAssumption, Cohorts!IInv, NEW c \in Cohorts!Clients, NEW d \in TeamIds, Cohorts!SaveAsSeed(c, d)
  PROVE  Cohorts!IInv'
BY WriteKeeps DEF Cohorts!IInv, Cohorts!TypeOK, Cohorts!Shaped, Cohorts!Stored, Cohorts!SaveAsSeed

LEMMA TeamCreateDatasetKeeps ==
  ASSUME Cohorts!CohortAssumption, Cohorts!IInv, NEW c \in Cohorts!Clients, NEW s \in Team, NEW rows \in SUBSET TeamRows,
         Cohorts!CreateDataset(c, s, rows)
  PROVE  Cohorts!IInv'
<1>1. PICK i \in TeamIds : /\ home' = [home EXCEPT ![i] = s]
                       /\ live' = [live EXCEPT ![i] = rows]
                       /\ seed' = [seed EXCEPT ![i] = rows]
  BY TeamMinIsIn, TeamIdsAreNumbers DEF Cohorts!CreateDataset
<1>2. s \in team /\ UNCHANGED team /\ Cohorts!Write(c)
  BY DEF Cohorts!CreateDataset
<1>3. QED
  BY <1>1, <1>2, WriteKeeps DEF Cohorts!IInv, Cohorts!TypeOK, Cohorts!Shaped, Cohorts!Stored

LEMMA DropKeeps ==
  ASSUME Cohorts!CohortAssumption, Cohorts!IInv, NEW c \in Cohorts!Clients, NEW ds \in SUBSET TeamIds, Cohorts!Write(c), Cohorts!Drop(ds),
         team' \subseteq team, \A d \in TeamIds \ ds : home[d] \notin team \ team'
  PROVE  Cohorts!IInv'
<1>1. \A d \in TeamIds : home'[d] = (IF d \in ds THEN Deleted ELSE home[d])
                  /\ live'[d] = (IF d \in ds THEN {} ELSE live[d])
                  /\ seed'[d] = (IF d \in ds THEN {} ELSE seed[d])
  BY DEF Cohorts!Drop
<1>2. /\ home' \in [TeamIds -> Team \cup {Unused, Deleted}]
      /\ live' \in [TeamIds -> SUBSET TeamRows] /\ seed' \in [TeamIds -> SUBSET TeamRows]
  BY DEF Cohorts!Drop, Cohorts!IInv, Cohorts!Shaped
<1>3. QED
  BY <1>1, <1>2, WriteKeeps DEF Cohorts!IInv, Cohorts!TypeOK, Cohorts!Shaped, Cohorts!Stored

LEMMA TeamDeleteDatasetKeeps ==
  ASSUME Cohorts!CohortAssumption, Cohorts!IInv, NEW c \in Cohorts!Clients, NEW d \in TeamIds, Cohorts!DeleteDataset(c, d)
  PROVE  Cohorts!IInv'
BY DropKeeps DEF Cohorts!DeleteDataset

LEMMA DeleteServerKeeps ==
  ASSUME Cohorts!CohortAssumption, Cohorts!IInv, NEW c \in Cohorts!Clients, NEW s \in Team, Cohorts!DeleteServer(c, s)
  PROVE  Cohorts!IInv'
BY DropKeeps DEF Cohorts!DeleteServer, Cohorts!Of

LEMMA BeginResetKeeps ==
  ASSUME Cohorts!CohortAssumption, Cohorts!IInv, NEW c \in Cohorts!Clients, NEW p \in Matching, Cohorts!BeginReset(c, p)
  PROVE  Cohorts!IInv'
<1>1. owner # c /\ reset_queue[c] = {}
  BY DEF Cohorts!IInv, Cohorts!TypeOK, Cohorts!Shaped, Cohorts!Ledger, Cohorts!Busy, Cohorts!BeginReset, Cohorts!CohortAssumption
<1>2. Cohorts!TypeOK'
  BY <1>1 DEF Cohorts!IInv, Cohorts!TypeOK, Cohorts!Shaped, Cohorts!Stored, Cohorts!Busy, Cohorts!BeginReset, Cohorts!Goto, Cohorts!tables
<1>3. \A d \in Cohorts!Clients : Cohorts!Ledger(d)'
  BY <1>1 DEF Cohorts!IInv, Cohorts!Shaped, Cohorts!Ledger, Cohorts!BeginReset, Cohorts!Busy, Cohorts!Goto, Cohorts!tables
<1>4. QED
  BY <1>2, <1>3 DEF Cohorts!IInv, Cohorts!Shaped, Cohorts!BeginReset, Cohorts!Goto, Cohorts!ServersForReset, Cohorts!tables, Cohorts!CohortAssumption

LEMMA ListDatasetsKeeps ==
  ASSUME Cohorts!CohortAssumption, Cohorts!IInv, NEW c \in Cohorts!Clients, Cohorts!ListDatasets(c)
  PROVE  Cohorts!IInv'
BY DEF Cohorts!IInv, Cohorts!TypeOK, Cohorts!Shaped, Cohorts!Ledger, Cohorts!Stored, Cohorts!Busy, Cohorts!ListDatasets, Cohorts!Of, Cohorts!tables

LEMMA ResetOneKeeps ==
  ASSUME Cohorts!CohortAssumption, Cohorts!IInv, NEW c \in Cohorts!Clients, Cohorts!ResetOne(c)
  PROVE  Cohorts!IInv'
<1>1. Cohorts!Min(reset_queue[c]) \in reset_queue[c]
  BY TeamMinIsIn, TeamIdsAreNumbers DEF Cohorts!ResetOne, Cohorts!IInv, Cohorts!Shaped
<1>2. QED
  BY <1>1 DEF Cohorts!IInv, Cohorts!TypeOK, Cohorts!Shaped, Cohorts!Ledger, Cohorts!Stored, Cohorts!Busy, Cohorts!ResetOne, Cohorts!tables, Cohorts!CohortAssumption

LEMMA EndKeeps ==
  ASSUME Cohorts!CohortAssumption, Cohorts!IInv, NEW c \in Cohorts!Clients, NEW how \in {"refused", "reset"}, Cohorts!Busy(c), Cohorts!End(c, how),
         live' \in [TeamIds -> SUBSET TeamRows], \A d \in TeamIds \ Cohorts!Stored : live'[d] = {}
  PROVE  Cohorts!IInv'
BY DEF Cohorts!IInv, Cohorts!TypeOK, Cohorts!Shaped, Cohorts!Ledger, Cohorts!Stored, Cohorts!Busy, Cohorts!End, Cohorts!Goto, Cohorts!CohortAssumption

LEMMA FailKeeps ==
  ASSUME Cohorts!CohortAssumption, Cohorts!IInv, NEW c \in Cohorts!Clients, Cohorts!Fail(c)
  PROVE  Cohorts!IInv'
BY EndKeeps DEF Cohorts!Fail, Cohorts!IInv, Cohorts!Shaped, Cohorts!TypeOK

LEMMA CommitKeeps ==
  ASSUME Cohorts!CohortAssumption, Cohorts!IInv, NEW c \in Cohorts!Clients, Cohorts!Commit(c)
  PROVE  Cohorts!IInv'
BY EndKeeps DEF Cohorts!Commit, Cohorts!Reset, Cohorts!IInv, Cohorts!Shaped, Cohorts!TypeOK

LEMMA TeamEditsKeep ==
  ASSUME Cohorts!CohortAssumption, Cohorts!IInv, NEW c \in Cohorts!Clients, NEW rowsets \in SUBSET (SUBSET TeamRows),
         Cohorts!Edits(c, rowsets)
  PROVE  Cohorts!IInv'
BY TeamEditKeeps, TeamCreateDatasetKeeps, TeamSaveAsSeedKeeps, TeamDeleteDatasetKeeps, DeleteServerKeeps DEF Cohorts!Edits

LEMMA ResetsKeep ==
  ASSUME Cohorts!CohortAssumption, Cohorts!IInv, NEW c \in Cohorts!Clients, Cohorts!Resets(c)
  PROVE  Cohorts!IInv'
BY BeginResetKeeps, ListDatasetsKeeps, ResetOneKeeps, FailKeeps, CommitKeeps DEF Cohorts!Resets

LEMMA TeamStutterKeeps ==
  ASSUME Cohorts!IInv, UNCHANGED Cohorts!vars
  PROVE  Cohorts!IInv'
BY DEF Cohorts!IInv, Cohorts!TypeOK, Cohorts!Shaped, Cohorts!Ledger, Cohorts!Stored, Cohorts!Busy, Cohorts!vars

-------------------------------------------------------------------------------
(* All or nothing.                                                          *)

LEMMA EditsWhole ==
  ASSUME Cohorts!CohortAssumption, Cohorts!IInv, NEW c \in Cohorts!Clients, NEW rowsets \in SUBSET (SUBSET TeamRows),
         Cohorts!Edits(c, rowsets)
  PROVE  Cohorts!ResetWhole /\ Cohorts!ResetComplete
<1>1. Cohorts!Write(c)
  BY DEF Cohorts!Edits, Cohorts!Edit, Cohorts!CreateDataset, Cohorts!SaveAsSeed, Cohorts!DeleteDataset, Cohorts!DeleteServer
<1>2. \A d \in Resetters : Cohorts!Busy(d) => reset_step'[d] = "resetting" /\ owner # d
  BY <1>1 DEF Cohorts!Write, Cohorts!Goto, Cohorts!Busy, Cohorts!IInv, Cohorts!Shaped, Cohorts!Clients, Cohorts!CohortAssumption
<1>3. QED
  BY <1>2 DEF Cohorts!ResetWhole, Cohorts!ResetComplete

LEMMA ResetsWhole ==
  ASSUME Cohorts!CohortAssumption, Cohorts!IInv, NEW c \in Cohorts!Clients, Cohorts!Resets(c)
  PROVE  Cohorts!ResetWhole
<1> SUFFICES ASSUME NEW d \in Resetters, Cohorts!Busy(d)
             PROVE  CASE reset_step'[d] = "reset" -> \A e \in listed[d] : live'[e] = seed'[e]
                      [] reset_step'[d] = "refused" -> live' = live
                      [] OTHER -> owner = d => live' = live
  BY DEF Cohorts!ResetWhole
<1>1. d \in Cohorts!Clients /\ reset_step[d] = "resetting"
  BY DEF Cohorts!Clients, Cohorts!Busy
<1>2. CASE (\E p \in Matching : Cohorts!BeginReset(c, p)) \/ Cohorts!ListDatasets(c) \/ Cohorts!ResetOne(c)
  <2>1. reset_step'[d] = "resetting" /\ live' = live
    BY <1>1, <1>2 DEF Cohorts!BeginReset, Cohorts!ListDatasets, Cohorts!ResetOne, Cohorts!Goto, Cohorts!Busy, Cohorts!IInv, Cohorts!Shaped, Cohorts!tables
  <2>2. QED
    BY <2>1
<1>3. CASE Cohorts!Fail(c)
  <2>1. live' = live /\ reset_step'[d] \in {"refused", "resetting"}
    BY <1>1, <1>3 DEF Cohorts!Fail, Cohorts!End, Cohorts!Goto, Cohorts!IInv, Cohorts!Shaped
  <2>2. QED
    BY <2>1
<1>4. CASE Cohorts!Commit(c)
  <2>1. CASE d = c
    <3>1. listed[c] \subseteq TeamIds /\ listed[c] = (IF owner = c THEN done ELSE {})
      BY <1>4 DEF Cohorts!Commit, Cohorts!IInv, Cohorts!Shaped, Cohorts!Ledger
    <3>2. seed' = seed /\ live' = [e \in TeamIds |-> IF e \in listed[c] THEN seed[e] ELSE live[e]]
      BY <1>4, <3>1 DEF Cohorts!Commit, Cohorts!Reset, Cohorts!End
    <3>3. reset_step'[d] = "reset"
      BY <1>4, <2>1 DEF Cohorts!Commit, Cohorts!End, Cohorts!Goto, Cohorts!IInv, Cohorts!Shaped
    <3>4. QED
      BY <2>1, <3>1, <3>2, <3>3
  <2>2. CASE d # c
    <3>1. reset_step'[d] = "resetting"
      BY <1>1, <1>4, <2>2 DEF Cohorts!Commit, Cohorts!End, Cohorts!Goto, Cohorts!IInv, Cohorts!Shaped
    <3>2. owner = d => live' = live
      BY <1>4, <2>2 DEF Cohorts!Commit, Cohorts!Reset, Cohorts!IInv, Cohorts!Shaped
    <3>3. QED
      BY <3>1, <3>2
  <2>3. QED
    BY <2>1, <2>2
<1>5. QED
  BY <1>2, <1>3, <1>4 DEF Cohorts!Resets

(* Without interference, all that the prefix matches, and no more.          *)
LEMMA TeamInitAlone ==
  ASSUME NEW c \in Cohorts!Clients, Cohorts!Init
  PROVE  Cohorts!Alone(c)
BY DEF Cohorts!Init, Cohorts!Alone, Cohorts!Busy

LEMMA TeamEditsAlone ==
  ASSUME Cohorts!IInv, NEW c \in Cohorts!Clients, NEW rowsets \in SUBSET (SUBSET TeamRows), Cohorts!Edits(c, rowsets), Cohorts!Alone(c)
  PROVE  Cohorts!Alone(c)'
<1>1. Cohorts!Write(c)
  BY DEF Cohorts!Edits, Cohorts!Edit, Cohorts!CreateDataset, Cohorts!SaveAsSeed, Cohorts!DeleteDataset, Cohorts!DeleteServer
<1>2. QED
  BY <1>1 DEF Cohorts!Write, Cohorts!Goto, Cohorts!Alone, Cohorts!Busy, Cohorts!IInv, Cohorts!Shaped

LEMMA ResetsAlone ==
  ASSUME Cohorts!CohortAssumption, Cohorts!IInv, NEW c \in Cohorts!Clients, Cohorts!Resets(c), Cohorts!Alone(c)
  PROVE  Cohorts!Alone(c)'
<1>1. ASSUME NEW p \in Matching, Cohorts!BeginReset(c, p)
      PROVE  Cohorts!Alone(c)'
  BY <1>1 DEF Cohorts!BeginReset, Cohorts!Goto, Cohorts!Alone, Cohorts!Busy, Cohorts!IInv, Cohorts!TypeOK, Cohorts!Shaped, Cohorts!ServersForReset, Cohorts!tables, Cohorts!CohortAssumption
<1>2. CASE Cohorts!ListDatasets(c)
  <2>1. Cohorts!Min(todo[c]) \in todo[c]
    BY <1>2, TeamMinIsIn, TeamIdsAreNumbers DEF Cohorts!ListDatasets, Cohorts!IInv, Cohorts!Shaped
  <2>2. QED
    BY <1>2, <2>1 DEF Cohorts!ListDatasets, Cohorts!Alone, Cohorts!Busy, Cohorts!IInv, Cohorts!Shaped, Cohorts!Of, Cohorts!tables
<1>3. CASE Cohorts!ResetOne(c)
  BY <1>3 DEF Cohorts!ResetOne, Cohorts!Alone, Cohorts!Busy, Cohorts!IInv, Cohorts!Shaped, Cohorts!tables
<1>4. CASE Cohorts!Fail(c) \/ Cohorts!Commit(c)
  BY <1>4 DEF Cohorts!Fail, Cohorts!Commit, Cohorts!End, Cohorts!Goto, Cohorts!Alone, Cohorts!Busy, Cohorts!IInv, Cohorts!Shaped
<1>5. QED
  BY <1>1, <1>2, <1>3, <1>4 DEF Cohorts!Resets

LEMMA TeamStutterAlone ==
  ASSUME NEW c \in Cohorts!Clients, Cohorts!Alone(c), UNCHANGED Cohorts!vars
  PROVE  Cohorts!Alone(c)'
BY DEF Cohorts!Alone, Cohorts!Busy, Cohorts!vars

LEMMA ResetsComplete ==
  ASSUME Cohorts!CohortAssumption, Cohorts!IInv, NEW c \in Cohorts!Clients, Cohorts!Resets(c), Cohorts!Alone(c)
  PROVE  Cohorts!ResetComplete
<1> SUFFICES ASSUME NEW d \in Resetters, Cohorts!Busy(d), reset_step'[d] = "reset"
             PROVE  /\ \A s \in asked[d] : Cohorts!Restored(s)'
                    /\ \A e \in TeamIds : home[e] \notin asked[d] => live'[e] = live[e]
  BY DEF Cohorts!ResetComplete
<1>1. d = c /\ Cohorts!Busy(c) /\ reset_step[c] = "resetting"
  BY DEF Cohorts!Alone, Cohorts!Clients, Cohorts!Busy
<1>2. Cohorts!Commit(c)
  BY <1>1 DEF Cohorts!Resets, Cohorts!BeginReset, Cohorts!ListDatasets, Cohorts!ResetOne, Cohorts!Fail, Cohorts!End, Cohorts!Goto, Cohorts!IInv, Cohorts!Shaped, Cohorts!Busy
<1>3. listed[c] \subseteq TeamIds /\ listed[c] = (IF owner = c THEN done ELSE {})
  BY <1>2 DEF Cohorts!Commit, Cohorts!IInv, Cohorts!Shaped, Cohorts!Ledger
<1>4. UNCHANGED <<seed, home>> /\ live' = [e \in TeamIds |-> IF e \in listed[c] THEN seed[e] ELSE live[e]]
  BY <1>2, <1>3 DEF Cohorts!Commit, Cohorts!Reset, Cohorts!End
<1>5. \A e \in TeamIds : home[e] \in asked[c] <=> e \in listed[c]
  BY <1>1, <1>2 DEF Cohorts!Alone, Cohorts!Commit
<1>6. QED
  BY <1>1, <1>4, <1>5 DEF Cohorts!Restored, Cohorts!Of

LEMMA StutterWhole ==
  ASSUME Cohorts!IInv, UNCHANGED Cohorts!vars
  PROVE  Cohorts!ResetWhole /\ Cohorts!ResetComplete
BY DEF Cohorts!ResetWhole, Cohorts!ResetComplete, Cohorts!IInv, Cohorts!Shaped, Cohorts!Busy, Cohorts!vars

-------------------------------------------------------------------------------
(* Recipes.                                                                 *)

(* Recipes counts with its own copy of FiniteSets.                          *)
LEMMA LibraryCounts ==
  \A S : Library!IsFiniteSet(S) = IsFiniteSet(S) /\ Library!Cardinality(S) = Cardinality(S)
BY Zenon DEF Library!IsFiniteSet, IsFiniteSet, Library!Cardinality, Cardinality

(* What is written in place of one client's entry.                          *)
LEMMA OneEntry ==
  ASSUME NEW S, NEW f, f = [x \in S |-> f[x]], NEW c \in S, NEW v,
         NEW g, g = [f EXCEPT ![c] = v]
  PROVE  /\ g = [x \in S |-> g[x]] /\ g[c] = v
         /\ \A d \in S \ {c} : g[d] = f[d]
<1>1. g = [x \in S |-> IF x = c THEN v ELSE f[x]]
  OBVIOUS
<1>2. QED
  BY <1>1

-------------------------------------------------------------------------------
(* Lists of tools.                                                          *)

LEMMA Left ==
  ASSUME NEW ts, NEW gone
  PROVE  /\ DOMAIN Library!Without(ts, gone) = {k \in DOMAIN ts : ts[k][1] \notin gone}
         /\ \A k \in DOMAIN Library!Without(ts, gone) : Library!Without(ts, gone)[k] = ts[k]
         /\ Library!Range(Library!Without(ts, gone)) = {r \in Library!Range(ts) : r[1] \notin gone}
BY DEF Library!Without, Library!Restrict, Library!Range

LEMMA WithoutTwice ==
  ASSUME NEW ts, NEW gone, NEW more
  PROVE  Library!Without(Library!Without(ts, gone), more) = Library!Without(ts, gone \cup more)
<1> DEFINE D == {k \in DOMAIN ts : ts[k][1] \notin gone \cup more}
           E == {k \in DOMAIN Library!Without(ts, gone) : Library!Without(ts, gone)[k][1] \notin more}
<1>1. E = D
  BY DEF Library!Without, Library!Restrict
<1>2. Library!Without(Library!Without(ts, gone), more) = [k \in E |-> Library!Without(ts, gone)[k]]
  BY Zenon DEF Library!Without, Library!Restrict
<1>3. Library!Without(ts, gone \cup more) = [k \in D |-> ts[k]]
  BY Zenon DEF Library!Without, Library!Restrict
<1>4. ASSUME NEW k \in D
      PROVE  Library!Without(ts, gone)[k] = ts[k]
  <2> DEFINE F == {i \in DOMAIN ts : ts[i][1] \notin gone}
  <2>1. Library!Without(ts, gone) = [i \in F |-> ts[i]]
    BY Zenon DEF Library!Without, Library!Restrict
  <2>2. k \in F
    BY <1>4, Zenon
  <2> HIDE DEF F
  <2>3. QED
    BY <2>1, <2>2, Zenon
<1> HIDE DEF D, E
<1>5. [k \in E |-> Library!Without(ts, gone)[k]] = [k \in D |-> Library!Without(ts, gone)[k]]
  BY <1>1, Zenon
<1>6. [k \in D |-> Library!Without(ts, gone)[k]] = [k \in D |-> ts[k]]
  BY <1>4, Zenon
<1>7. QED
  BY <1>2, <1>3, <1>5, <1>6, Zenon

LEMMA WithoutNone ==
  ASSUME NEW ts \in Seq(Library!Refs)
  PROVE  Library!Without(ts, {}) = ts
<1>1. ts = [k \in DOMAIN ts |-> ts[k]]
  OBVIOUS
<1>2. {k \in DOMAIN ts : ts[k][1] \notin {}} = DOMAIN ts
  OBVIOUS
<1>3. QED
  BY <1>1, <1>2 DEF Library!Without, Library!Restrict

LEMMA Given ==
  ASSUME Library!RecipesAssumption, NEW b \in RecipeBodies
  PROVE  /\ Library!Or(b.tools, <<>>) \in Seq(Library!Refs) /\ Library!Or(b.tools, <<>>) \in Library!ToolLists
         /\ b.tools = Absent \/ b.tools = Library!Or(b.tools, <<>>)
         /\ b.slug \in RecipeSlugs \cup {Absent} /\ b.published \in BOOLEAN \cup {Absent}
         /\ b.tools \in Library!ToolLists \cup {Absent} /\ b \in Library!Body
<1>1. Library!Or(b.tools, <<>>) \in Seq(Library!Refs)
  BY DEF Library!RecipesAssumption, Library!Or
<1>2. Library!Or(b.tools, <<>>) = Library!Without(Library!Or(b.tools, <<>>), {})
  BY <1>1, WithoutNone
<1>3. Library!Or(b.tools, <<>>) \in Library!ToolLists
  BY <1>2 DEF Library!ToolLists
<1>4. b \in Library!Body
  BY DEF Library!RecipesAssumption
<1>5. QED
  BY <1>1, <1>3, <1>4 DEF Library!Or, Library!Body

LEMMA ListsOfTools ==
  ASSUME Library!RecipesAssumption, NEW ts \in Library!ToolLists
  PROVE  /\ Library!Range(ts) \subseteq Library!Refs /\ ts # Absent
         /\ \A gone \in SUBSET Servers : Library!Without(ts, gone) \in Library!ToolLists
<1>1. PICK b \in RecipeBodies, gone \in SUBSET Servers : ts = Library!Without(Library!Or(b.tools, <<>>), gone)
  BY DEF Library!ToolLists
<1>2. Library!Or(b.tools, <<>>) \in Seq(Library!Refs)
  BY Given
<1>3. Library!Range(Library!Or(b.tools, <<>>)) \subseteq Library!Refs
  BY <1>2 DEF Library!Range
<1>4. Library!Range(ts) \subseteq Library!Refs
  <2> DEFINE sent == Library!Or(b.tools, <<>>)
  <2>1. Library!Range(Library!Without(sent, gone)) = {r \in Library!Range(sent) : r[1] \notin gone}
    <3> HIDE DEF sent
    <3>1. QED
      BY Left
  <2>2. QED
    BY <1>1, <1>3, <2>1
<1>5. ASSUME NEW more \in SUBSET Servers
      PROVE  Library!Without(ts, more) \in Library!ToolLists
  <2>1. Library!Without(ts, more) = Library!Without(Library!Or(b.tools, <<>>), gone \cup more)
    BY <1>1, WithoutTwice
  <2>2. gone \cup more \in SUBSET Servers
    OBVIOUS
  <2>3. QED
    BY <2>1, <2>2 DEF Library!ToolLists
<1>6. ts # Absent
  BY DEF Library!RecipesAssumption
<1>7. QED
  BY <1>4, <1>5, <1>6

LEMMA NoTools == Library!Range(<<>>) = {}
BY DEF Library!Range

-------------------------------------------------------------------------------
(* Room for every creation.                                                 *)

LEMMA MinIsIn ==
  ASSUME NEW S \in SUBSET Nat, S # {}
  PROVE  Library!Min(S) \in S
<1>1. PICK m \in S : \A n \in S : <<n, m>> \notin OpToRel(<, Nat)
  BY NatLessThanWellFounded, WFMin
<1>2. \A n \in S : ~(n < m)
  BY <1>1 DEF OpToRel
<1>3. \A n \in S : m <= n
  BY <1>2
<1>4. QED
  BY <1>3, Zenon DEF Library!Min

LEMMA RoomsAreFinite ==
  ASSUME Library!RecipesAssumption
  PROVE  /\ IsFiniteSet(Library!Creating) /\ Cardinality(Library!Creating) \in Nat
         /\ IsFiniteSet(Library!Free) /\ Cardinality(Library!Free) \in Nat
<1>1. IsFiniteSet(Trainers) /\ IsFiniteSet(RecipeIds)
  BY LibraryCounts DEF Library!RecipesAssumption
<1>2. IsFiniteSet(Library!Creating) /\ IsFiniteSet(Library!Free)
  BY <1>1, FS_Subset DEF Library!Creating, Library!Free
<1>3. QED
  BY <1>2, FS_CardinalityType

LEMMA RoomsAreFiniteNext ==
  ASSUME Library!RecipesAssumption
  PROVE  /\ IsFiniteSet(Library!Creating') /\ Cardinality(Library!Creating') \in Nat
         /\ IsFiniteSet(Library!Free') /\ Cardinality(Library!Free') \in Nat
<1>1. IsFiniteSet(Trainers) /\ IsFiniteSet(RecipeIds)
  BY LibraryCounts DEF Library!RecipesAssumption
<1>2. IsFiniteSet(Library!Creating') /\ IsFiniteSet(Library!Free')
  BY <1>1, FS_Subset DEF Library!Creating, Library!Free
<1>3. QED
  BY <1>2, FS_CardinalityType

LEMMA RoomStays ==
  ASSUME Library!RecipesAssumption, Library!Room, Library!Creating' \subseteq Library!Creating, Library!Free \subseteq Library!Free'
  PROVE  Library!Room'
<1>1. Cardinality(Library!Creating') <= Cardinality(Library!Creating)
  BY RoomsAreFinite, FS_Subset
<1>2. Cardinality(Library!Free) <= Cardinality(Library!Free')
  BY RoomsAreFiniteNext, FS_Subset
<1>3. Library!Room' <=> Cardinality(Library!Creating') <= Cardinality(Library!Free')
  BY LibraryCounts DEF Library!Room
<1>4. QED
  BY <1>1, <1>2, <1>3, RoomsAreFinite, RoomsAreFiniteNext, LibraryCounts DEF Library!Room

LEMMA RoomTaken ==
  ASSUME Library!RecipesAssumption, Library!Room, NEW c \in Library!Creating, NEW i \in Library!Free,
         Library!Creating' \subseteq Library!Creating \ {c}, Library!Free \ {i} \subseteq Library!Free'
  PROVE  Library!Room'
<1>1. Cardinality(Library!Creating \ {c}) = Cardinality(Library!Creating) - 1 /\ IsFiniteSet(Library!Creating \ {c})
  BY RoomsAreFinite, FS_RemoveElement
<1>2. Cardinality(Library!Free \ {i}) = Cardinality(Library!Free) - 1
  BY RoomsAreFinite, FS_RemoveElement
<1>3. Cardinality(Library!Creating') <= Cardinality(Library!Creating \ {c})
  BY <1>1, FS_Subset
<1>4. Cardinality(Library!Free \ {i}) <= Cardinality(Library!Free')
  BY RoomsAreFiniteNext, FS_Subset
<1>5. Cardinality(Library!Creating') <= Cardinality(Library!Free')
  BY <1>1, <1>2, <1>3, <1>4, RoomsAreFinite, RoomsAreFiniteNext, LibraryCounts DEF Library!Room
<1>6. QED
  BY <1>5, LibraryCounts DEF Library!Room

LEMMA RoomLeft ==
  ASSUME Library!RecipesAssumption, Cardinality(Library!Creating) < Cardinality(Library!Free), NEW c,
         Library!Creating' \subseteq Library!Creating \cup {c}, Library!Free \subseteq Library!Free'
  PROVE  Library!Room'
<1>1. CASE c \in Library!Creating
  BY <1>1, RoomStays, RoomsAreFinite, LibraryCounts DEF Library!Room
<1>2. CASE c \notin Library!Creating
  <2>1. Cardinality(Library!Creating \cup {c}) = Cardinality(Library!Creating) + 1 /\ IsFiniteSet(Library!Creating \cup {c})
    BY <1>2, RoomsAreFinite, FS_AddElement
  <2>2. Cardinality(Library!Creating') <= Cardinality(Library!Creating \cup {c})
    BY <2>1, FS_Subset
  <2>3. Cardinality(Library!Free) <= Cardinality(Library!Free')
    BY RoomsAreFiniteNext, FS_Subset
  <2>4. Cardinality(Library!Creating') <= Cardinality(Library!Free')
    BY <2>1, <2>2, <2>3, RoomsAreFinite, RoomsAreFiniteNext
  <2>5. QED
    BY <2>4, LibraryCounts DEF Library!Room
<1>3. QED
  BY <1>1, <1>2

LEMMA SomeIdIsFree ==
  ASSUME Library!RecipesAssumption, Library!Room, NEW c \in Library!Creating
  PROVE  Library!Min(Library!Free) \in Library!Free
<1>1. Library!Free # {}
  <2> SUFFICES ASSUME Library!Free = {} PROVE FALSE
    OBVIOUS
  <2>1. Cardinality(Library!Free) = 0
    BY FS_EmptySet
  <2>2. Cardinality(Library!Creating) = 0
    BY <2>1, RoomsAreFinite, LibraryCounts DEF Library!Room
  <2>3. QED
    BY <2>2, RoomsAreFinite, FS_EmptySet
<1>2. Library!Free \in SUBSET Nat
  <2>1. IsFiniteSet(RecipeIds) /\ RecipeIds = 1 .. Cardinality(RecipeIds)
    BY LibraryCounts DEF Library!RecipesAssumption
  <2>2. Cardinality(RecipeIds) \in Nat
    BY <2>1, FS_CardinalityType
  <2>3. \A n \in Nat : 1 .. n \subseteq Nat
    OBVIOUS
  <2>4. RecipeIds \subseteq Nat
    BY <2>1, <2>2, <2>3
  <2>5. QED
    BY <2>4 DEF Library!Free
<1>3. QED
  BY <1>1, <1>2, MinIsIn

-------------------------------------------------------------------------------
(* The steps.                                                               *)

(* TypeOK and Shaped, of the tables.                                        *)
TablesOK ==
  /\ recipes \in [RecipeIds -> Library!Recipe \cup {Unused, Deleted}]
  /\ servers \subseteq Servers /\ endpoints \subseteq servers \X Tools
  /\ \A i \in Library!Stored :
       /\ Library!Range(recipes[i].tools) \subseteq servers \X Tools
       /\ \A j \in Library!Stored : recipes[i].slug = recipes[j].slug => i = j

(* And of the requests: their domains, and what is known of each.           *)
Domains ==
  /\ recipe_step = [c \in Library!Clients |-> recipe_step[c]] /\ target = [c \in Library!Clients |-> target[c]]
  /\ body \in [Library!Clients -> Library!Body \cup {Nothing}]
  /\ pending \in [Readers -> SUBSET (RecipeIds \X Servers \X Tools)]
  /\ issues = [c \in Readers |-> issues[c]] /\ dangles = [c \in Readers |-> dangles[c]]
  /\ public = [c \in Readers |-> public[c]]

RequestOK(c) ==
  /\ c \in Trainers =>
       /\ (body[c] # Nothing) = (recipe_step[c] \in {"create", "update"})
       /\ recipe_step[c] = "create" => body[c] \in Library!Recipe
  /\ c \notin Trainers => recipe_step[c] \notin {"create", "update"}
  /\ c \notin Readers => recipe_step[c] \notin {"page", "refs", "endpoints"}

LEMMA Parts ==
  /\ Library!IInv <=> TablesOK /\ Domains /\ (\A c \in Library!Clients : RequestOK(c)) /\ Library!Room /\ (\A c \in Readers : Library!Reporting(c))
  /\ Library!IInv' <=> TablesOK' /\ Domains' /\ (\A c \in Library!Clients : RequestOK(c)') /\ Library!Room'
               /\ (\A c \in Readers : Library!Reporting(c)')
<1>1. Library!IInv <=> TablesOK /\ Domains /\ (\A c \in Library!Clients : RequestOK(c)) /\ Library!Room
               /\ (\A c \in Readers : Library!Reporting(c))
  BY DEF Library!IInv, Library!TypeOK, Library!Shaped, TablesOK, Domains, RequestOK, Library!Clients
<1>2. Library!IInv' <=> TablesOK' /\ Domains' /\ (\A c \in Library!Clients : RequestOK(c)') /\ Library!Room'
                /\ (\A c \in Readers : Library!Reporting(c)')
  BY DEF Library!IInv, Library!TypeOK, Library!Shaped, TablesOK, Domains, RequestOK, Library!Clients
<1>3. QED
  BY <1>1, <1>2

LEMMA LibraryInitHolds ==
  ASSUME Library!RecipesAssumption, Library!Init
  PROVE  Library!IInv
<1>1. Library!Stored = {}
  BY DEF Library!Init, Library!Stored
<1>2. TablesOK
  BY <1>1 DEF Library!Init, TablesOK, Library!Refs
<1>3. Domains /\ \A c \in Library!Clients : RequestOK(c)
  BY DEF Library!Init, Domains, RequestOK, Library!Clients
<1>4. Library!Creating = {}
  BY DEF Library!Init, Library!Creating, Library!Clients
<1>5. Library!Room
  BY <1>4, RoomsAreFinite, FS_EmptySet, LibraryCounts DEF Library!Room
<1>6. \A c \in Readers : Library!Reporting(c)
  BY DEF Library!Init, Library!Reporting, Library!Clients
<1>7. QED
  BY <1>2, <1>3, <1>5, <1>6, Parts

(* The step of a client replaces what is known of its request; what the     *)
(* validations of others rely on can only become less.                      *)
OnlyOne(c) ==
  /\ \A d \in Library!Clients \ {c} : recipe_step'[d] = recipe_step[d] /\ target'[d] = target[d] /\ body'[d] = body[d]
  /\ \A d \in Readers \ {c} :
       /\ pending'[d] = pending[d] /\ issues'[d] = issues[d]
       /\ dangles'[d] \subseteq dangles[d]
       /\ recipe_step[d] \in {"refs", "endpoints"} => dangles'[d] \subseteq Library!Dangling'

LEMMA OneKeeps ==
  ASSUME Library!RecipesAssumption, Library!IInv, NEW c \in Library!Clients, OnlyOne(c),
         TablesOK', Domains', RequestOK(c)', Library!Room', c \in Readers => Library!Reporting(c)'
  PROVE  Library!IInv'
<1>1. ASSUME NEW d \in Library!Clients \ {c}
      PROVE  RequestOK(d)'
  <2>1. RequestOK(d)
    BY Parts
  <2>2. recipe_step'[d] = recipe_step[d] /\ body'[d] = body[d]
    BY DEF OnlyOne
  <2>3. QED
    BY <2>1, <2>2 DEF RequestOK
<1>2. ASSUME NEW d \in Readers \ {c}
      PROVE  Library!Reporting(d)'
  <2>1. Library!Reporting(d)
    BY Parts
  <2>2. recipe_step'[d] = recipe_step[d] /\ target'[d] = target[d]
    BY DEF OnlyOne, Library!Clients
  <2>3. /\ pending'[d] = pending[d] /\ issues'[d] = issues[d]
        /\ dangles'[d] \subseteq dangles[d]
        /\ recipe_step[d] \in {"refs", "endpoints"} => dangles'[d] \subseteq Library!Dangling'
    BY DEF OnlyOne
  <2>4. QED
    BY <2>1, <2>2, <2>3 DEF Library!Reporting
<1>3. QED
  BY <1>1, <1>2, Parts

LEMMA WorldKept ==
  ASSUME Library!RecipesAssumption, Library!IInv, UNCHANGED Library!world
  PROVE  /\ TablesOK' /\ Library!Stored' = Library!Stored /\ Library!Free' = Library!Free /\ Library!Dangling' = Library!Dangling

BY Parts DEF Library!world, TablesOK, Library!Stored, Library!Free, Library!Dangling, Library!Links

(* A trainer's step, which leaves the validations in progress alone.        *)
LEMMA TrainerKeeps ==
  ASSUME Library!RecipesAssumption, Library!IInv, NEW c \in Trainers, NEW s, NEW t, NEW b \in Library!Body \cup {Nothing},
         recipe_step' = [recipe_step EXCEPT ![c] = s], target' = [target EXCEPT ![c] = t],
         body' = [body EXCEPT ![c] = b], UNCHANGED <<pending, issues>>,
         s \notin {"page", "refs", "endpoints"},
         (b # Nothing) = (s \in {"create", "update"}),
         s = "create" => b \in Library!Recipe,
         TablesOK', Library!Room', UNCHANGED <<Library!world, Library!histories>> \/ Library!Witness
  PROVE  Library!IInv'
<1>1. Domains /\ c \in Library!Clients
  BY Parts DEF Library!Clients
<1>2. /\ recipe_step' = [x \in Library!Clients |-> recipe_step'[x]] /\ recipe_step'[c] = s
      /\ \A d \in Library!Clients \ {c} : recipe_step'[d] = recipe_step[d]
  BY <1>1, OneEntry DEF Domains
<1>3. /\ target' = [x \in Library!Clients |-> target'[x]] /\ target'[c] = t
      /\ \A d \in Library!Clients \ {c} : target'[d] = target[d]
  BY <1>1, OneEntry DEF Domains
<1>4. /\ body' \in [Library!Clients -> Library!Body \cup {Nothing}] /\ body'[c] = b
      /\ \A d \in Library!Clients \ {c} : body'[d] = body[d]
  BY <1>1 DEF Domains
<1>5. /\ dangles' = [d \in Readers |-> dangles'[d]] /\ public' = [d \in Readers |-> public'[d]]
      /\ \A d \in Readers \ {c} :
           /\ dangles'[d] \subseteq dangles[d]
           /\ recipe_step[d] \in {"refs", "endpoints"} => dangles'[d] \subseteq Library!Dangling'
  <2>1. CASE UNCHANGED <<Library!world, Library!histories>>
    <3>1. Library!Dangling' = Library!Dangling /\ \A d \in Readers : Library!Reporting(d)
      BY <2>1, WorldKept, Parts
    <3>2. QED
      BY <1>1, <2>1, <3>1 DEF Domains, Library!histories, Library!Reporting
  <2>2. CASE Library!Witness
    BY <2>2 DEF Library!Witness
  <2>3. QED
    BY <2>1, <2>2
<1>6. Domains'
  BY <1>1, <1>2, <1>3, <1>4, <1>5 DEF Domains
<1>7. OnlyOne(c)
  BY <1>2, <1>3, <1>4, <1>5 DEF OnlyOne
<1>8. RequestOK(c)'
  BY <1>2, <1>4 DEF RequestOK
<1>9. Library!Reporting(c)'
  BY <1>2 DEF Library!Reporting
<1>10. QED
  BY <1>1, <1>6, <1>7, <1>8, <1>9, OneKeeps

(* A change that is made at once.                                           *)
LEMMA ChangeKeeps ==
  ASSUME Library!RecipesAssumption, Library!IInv, NEW c \in Trainers, Library!Idle(c), Library!Goto(c, "done"), Library!Private, Library!Witness,
         TablesOK', Library!Free \subseteq Library!Free'
  PROVE  Library!IInv'
<1>1. Domains /\ c \in Library!Clients /\ RequestOK(c) /\ Library!Room
  BY Parts DEF Library!Clients
<1>2. body[c] = Nothing
  BY <1>1 DEF RequestOK, Library!Idle
<1>3. /\ recipe_step' = [recipe_step EXCEPT ![c] = "done"] /\ target' = [target EXCEPT ![c] = target[c]]
      /\ body' = [body EXCEPT ![c] = Nothing] /\ UNCHANGED <<pending, issues>>
  BY <1>1, <1>2 DEF Library!Goto, Library!Private, Domains
<1>4. Library!Creating' \subseteq Library!Creating
  BY <1>1, <1>3 DEF Library!Creating, Domains, Library!Clients
<1>5. Library!Room'
  BY <1>1, <1>4, RoomStays
<1>6. /\ "done" \notin {"page", "refs", "endpoints"} /\ "done" # "create"
      /\ (Nothing # Nothing) = ("done" \in {"create", "update"})
      /\ Nothing \in Library!Body \cup {Nothing}
  OBVIOUS
<1>7. UNCHANGED <<Library!world, Library!histories>> \/ Library!Witness
  OBVIOUS
<1> HIDE DEF Library!Private, Library!Goto, Library!Witness, Library!Idle
<1>8. QED
  BY <1>3, <1>5, <1>6, <1>7, TrainerKeeps

LEMMA ChangeEndpointsKeeps ==
  ASSUME Library!RecipesAssumption, Library!IInv, NEW c, NEW old, NEW new \in SUBSET Library!Refs, Library!ChangeEndpoints(c, old, new)
  PROVE  Library!IInv'
<1>1. TablesOK
  BY Parts
<1>2. /\ c \in Trainers /\ Library!Idle(c) /\ \A r \in new : r[1] \in servers
      /\ endpoints' = (endpoints \ old) \cup new /\ servers' = servers /\ recipes' = recipes
      /\ Library!Goto(c, "done") /\ Library!Private /\ Library!Witness
  BY DEF Library!ChangeEndpoints
<1>3. new \subseteq servers \X Tools
  BY <1>2 DEF Library!Refs
<1>4. TablesOK' /\ Library!Free' = Library!Free
  BY <1>1, <1>2, <1>3 DEF TablesOK, Library!Stored, Library!Free
<1>5. QED
  BY <1>2, <1>4, ChangeKeeps

(* A stored recipe.                                                         *)
LEMMA StoredRecipe ==
  ASSUME Library!RecipesAssumption, TablesOK
  PROVE  \A i \in RecipeIds : i \in Library!Stored <=> recipes[i] \in Library!Recipe
BY DEF TablesOK, Library!RecipesAssumption, Library!Stored

LEMMA StoredRecipeNext ==
  ASSUME Library!RecipesAssumption, recipes' \in [RecipeIds -> Library!Recipe \cup {Unused, Deleted}]
  PROVE  \A i \in RecipeIds : i \in Library!Stored' <=> recipes'[i] \in Library!Recipe
BY DEF Library!RecipesAssumption, Library!Stored

LEMMA Shortened ==
  ASSUME Library!RecipesAssumption, NEW x \in Library!Recipe, NEW gone \in SUBSET Servers
  PROVE  /\ [x EXCEPT !.tools = Library!Without(@, gone)] =
              [slug |-> x.slug, published |-> x.published, tools |-> Library!Without(x.tools, gone)]
         /\ [x EXCEPT !.tools = Library!Without(@, gone)] \in Library!Recipe
<1>1. [x EXCEPT !.tools = Library!Without(x.tools, gone)] =
        [slug |-> x.slug, published |-> x.published, tools |-> Library!Without(x.tools, gone)]
  BY DEF Library!Recipe
<1>2. Library!Without(x.tools, gone) \in Library!ToolLists
  BY ListsOfTools DEF Library!Recipe
<1>3. QED
  BY <1>1, <1>2 DEF Library!Recipe

LEMMA ServerGone ==
  ASSUME Library!RecipesAssumption, Library!IInv, NEW c, NEW s, Library!DeleteServer(c, s)
  PROVE  /\ recipes' \in [RecipeIds -> Library!Recipe \cup {Unused, Deleted}] /\ Library!Stored' = Library!Stored /\ Library!Free' = Library!Free
         /\ \A i \in RecipeIds \ Library!Stored : recipes'[i] = recipes[i]
         /\ \A i \in Library!Stored :
              /\ recipes'[i].slug = recipes[i].slug
              /\ recipes'[i].tools = Library!Without(recipes[i].tools, {s})
<1> DEFINE new(i) == IF i \notin Library!Stored THEN recipes[i] ELSE [recipes[i] EXCEPT !.tools = Library!Without(@, {s})]
<1>1. TablesOK /\ recipes' = [i \in RecipeIds |-> new(i)] /\ {s} \in SUBSET Servers
  BY Parts DEF Library!DeleteServer, TablesOK
<1>2. ASSUME NEW i \in Library!Stored
      PROVE  /\ recipes'[i] = [slug |-> recipes[i].slug, published |-> recipes[i].published,
                               tools |-> Library!Without(recipes[i].tools, {s})]
             /\ recipes'[i] \in Library!Recipe
  <2>1. i \in RecipeIds /\ recipes[i] \in Library!Recipe
    BY <1>1, StoredRecipe DEF Library!Stored
  <2>2. recipes'[i] = [recipes[i] EXCEPT !.tools = Library!Without(@, {s})]
    BY <1>1, <2>1
  <2>3. QED
    BY <1>1, <2>1, <2>2, Shortened
<1>3. \A i \in RecipeIds \ Library!Stored : recipes'[i] = recipes[i]
  BY <1>1
<1>4. recipes' \in [RecipeIds -> Library!Recipe \cup {Unused, Deleted}]
  <2>1. \A i \in RecipeIds : recipes'[i] \in Library!Recipe \cup {Unused, Deleted}
    BY <1>1, <1>2, <1>3 DEF TablesOK
  <2>2. recipes' = [i \in RecipeIds |-> recipes'[i]]
    BY <1>1
  <2>3. QED
    BY <2>1, <2>2
<1>5. Library!Stored' = Library!Stored
  <2>1. \A i \in RecipeIds : i \in Library!Stored' <=> recipes'[i] \in Library!Recipe
    BY <1>4, StoredRecipeNext
  <2>2. \A i \in RecipeIds : i \in Library!Stored <=> recipes[i] \in Library!Recipe
    BY <1>1, StoredRecipe
  <2>3. Library!Stored \subseteq RecipeIds /\ Library!Stored' \subseteq RecipeIds
    BY DEF Library!Stored
  <2>4. QED
    BY <1>2, <1>3, <2>1, <2>2, <2>3
<1>6. Library!Free' = Library!Free
  <2>1. \A i \in RecipeIds : recipes'[i] = Unused <=> recipes[i] = Unused
    <3>1. Unused \notin Library!Recipe
      BY DEF Library!RecipesAssumption
    <3>2. \A i \in Library!Stored : recipes[i] # Unused
      BY DEF Library!Stored
    <3>3. QED
      BY <1>2, <1>3, <3>1, <3>2
  <2>2. QED
    BY <2>1 DEF Library!Free
<1> HIDE DEF new
<1>7. ASSUME NEW i \in Library!Stored
      PROVE  recipes'[i].slug = recipes[i].slug /\ recipes'[i].tools = Library!Without(recipes[i].tools, {s})
  <2>1. recipes'[i] = [slug |-> recipes[i].slug, published |-> recipes[i].published,
                       tools |-> Library!Without(recipes[i].tools, {s})]
    BY <1>2
  <2>2. QED
    BY <2>1
<1>8. QED
  BY <1>3, <1>4, <1>5, <1>6, <1>7

LEMMA LibraryDeleteServerKeeps ==
  ASSUME Library!RecipesAssumption, Library!IInv, NEW c, NEW s, Library!DeleteServer(c, s)
  PROVE  Library!IInv'
<1>1. TablesOK
  BY Parts
<1>2. /\ c \in Trainers /\ Library!Idle(c) /\ servers' = servers \ {s}
      /\ endpoints' = {e \in endpoints : e[1] # s} /\ Library!Goto(c, "done") /\ Library!Private /\ Library!Witness
  BY DEF Library!DeleteServer
<1>3. /\ recipes' \in [RecipeIds -> Library!Recipe \cup {Unused, Deleted}] /\ Library!Stored' = Library!Stored /\ Library!Free' = Library!Free
      /\ \A i \in Library!Stored :
           /\ recipes'[i].slug = recipes[i].slug
           /\ recipes'[i].tools = Library!Without(recipes[i].tools, {s})
  BY ServerGone
<1>4. endpoints' \subseteq servers' \X Tools
  BY <1>1, <1>2 DEF TablesOK
<1>5. ASSUME NEW i \in Library!Stored
      PROVE  Library!Range(recipes'[i].tools) \subseteq servers' \X Tools
  <2>1. Library!Range(recipes[i].tools) \subseteq servers \X Tools
    BY <1>1 DEF TablesOK
  <2>2. Library!Range(recipes'[i].tools) = {r \in Library!Range(recipes[i].tools) : r[1] \notin {s}}
    <3> DEFINE old == recipes[i].tools
    <3>1. Library!Range(Library!Without(old, {s})) = {r \in Library!Range(old) : r[1] \notin {s}}
      <4> HIDE DEF old
      <4>1. QED
        BY Left
    <3>2. QED
      BY <1>3, <3>1
  <2>3. QED
    BY <1>2, <2>1, <2>2
<1>6. \A i, j \in Library!Stored : recipes'[i].slug = recipes'[j].slug => i = j
  BY <1>1, <1>3 DEF TablesOK
<1>7. TablesOK'
  BY <1>1, <1>2, <1>3, <1>4, <1>5, <1>6 DEF TablesOK
<1>8. QED
  BY <1>2, <1>3, <1>7, ChangeKeeps

LEMMA DeleteKeeps ==
  ASSUME Library!RecipesAssumption, Library!IInv, NEW c, NEW i, Library!Delete(c, i)
  PROVE  Library!IInv'
<1>1. TablesOK
  BY Parts
<1>2. /\ c \in Trainers /\ Library!Idle(c) /\ i \in Library!Stored /\ recipes' = [recipes EXCEPT ![i] = Deleted]
      /\ Library!Goto(c, "done") /\ Library!Private /\ servers' = servers /\ endpoints' = endpoints /\ Library!Witness
  BY DEF Library!Delete
<1>3. /\ recipes' \in [RecipeIds -> Library!Recipe \cup {Unused, Deleted}] /\ recipes'[i] = Deleted
      /\ \A j \in RecipeIds \ {i} : recipes'[j] = recipes[j]
  BY <1>1, <1>2 DEF TablesOK, Library!Stored
<1>4. Library!Stored' = Library!Stored \ {i} /\ Library!Free' = Library!Free
  BY <1>2, <1>3 DEF Library!Stored, Library!Free, Library!RecipesAssumption
<1>5. \A j \in Library!Stored' : recipes'[j] = recipes[j] /\ j \in Library!Stored
  BY <1>3, <1>4 DEF Library!Stored
<1>6. TablesOK'
  BY <1>1, <1>2, <1>3, <1>5 DEF TablesOK
<1>7. QED
  BY <1>2, <1>4, <1>6, ChangeKeeps

-------------------------------------------------------------------------------
(* Requests that change recipes.                                            *)

LEMMA BeginKeeps ==
  ASSUME Library!RecipesAssumption, Library!IInv, NEW c \in Trainers, NEW i, NEW b \in Library!Body, NEW ok,
         NEW how \in {"create", "update"}, Library!Begin(c, i, b, how, ok),
         how = "create" => b \in Library!Recipe /\ Cardinality(Library!Creating) < Cardinality(Library!Free)
  PROVE  Library!IInv'
<1>1. Domains /\ c \in Library!Clients /\ RequestOK(c) /\ Library!Room
  BY Parts DEF Library!Clients
<1>2. /\ Library!Idle(c) /\ UNCHANGED <<pending, issues>> /\ UNCHANGED <<Library!world, Library!histories>>
  BY DEF Library!Begin
<1>3. body[c] = Nothing
  BY <1>1, <1>2 DEF RequestOK, Library!Idle
<1>4. TablesOK' /\ Library!Free' = Library!Free
  BY <1>2, WorldKept
<1>5. CASE ok
  <2>1. /\ recipe_step' = [recipe_step EXCEPT ![c] = how] /\ target' = [target EXCEPT ![c] = i]
        /\ body' = [body EXCEPT ![c] = b]
    BY <1>5 DEF Library!Begin, Library!Goto
  <2>2. b # Nothing
    BY DEF Library!RecipesAssumption
  <2>3. Library!Creating' \subseteq Library!Creating \cup {c} /\ (how = "update" => Library!Creating' \subseteq Library!Creating)
    BY <1>1, <2>1 DEF Library!Creating, Domains, Library!Clients
  <2>4. Library!Room'
    BY <1>1, <1>4, <2>3, RoomStays, RoomLeft
  <2>5. QED
    BY <1>2, <1>4, <2>1, <2>2, <2>4, TrainerKeeps
<1>6. CASE ~ok
  <2>1. /\ recipe_step' = [recipe_step EXCEPT ![c] = "refused"] /\ target' = [target EXCEPT ![c] = target[c]]
        /\ body' = [body EXCEPT ![c] = Nothing]
    BY <1>1, <1>3, <1>6 DEF Library!Begin, Library!Goto, Domains
  <2>2. Library!Creating' \subseteq Library!Creating
    BY <1>1, <2>1 DEF Library!Creating, Domains, Library!Clients
  <2>3. Library!Room'
    BY <1>1, <1>4, <2>2, RoomStays
  <2>4. /\ "refused" \notin {"page", "refs", "endpoints"} /\ "refused" # "create"
        /\ (Nothing # Nothing) = ("refused" \in {"create", "update"})
        /\ Nothing \in Library!Body \cup {Nothing}
    OBVIOUS
  <2>5. QED
    BY <1>2, <1>4, <2>1, <2>3, <2>4, TrainerKeeps
<1>7. QED
  BY <1>5, <1>6

LEMMA LibraryBeginCreateKeeps ==
  ASSUME Library!RecipesAssumption, Library!IInv, NEW c \in Trainers, NEW b \in RecipeBodies, Library!BeginCreate(c, b)
  PROVE  Library!IInv'
<1> DEFINE new == [slug |-> b.slug, published |-> Library!Or(b.published, FALSE), tools |-> Library!Or(b.tools, <<>>)]
<1>1. /\ b.slug # Absent /\ Cardinality(Library!Creating) < Cardinality(Library!Free)
      /\ Library!Begin(c, Nothing, new, "create", ~Library!SlugTaken(b.slug, Nothing) /\ Library!ToolsValid(b.tools))
  BY LibraryCounts DEF Library!BeginCreate
<1>2. Library!Or(b.published, FALSE) \in BOOLEAN /\ Library!Or(b.tools, <<>>) \in Library!ToolLists /\ b.slug \in RecipeSlugs
  BY <1>1, Given DEF Library!Or
<1>3. new \in Library!Recipe /\ new \in Library!Body
  BY <1>2 DEF Library!Recipe, Library!Body
<1> HIDE DEF new
<1>4. QED
  BY <1>1, <1>3, BeginKeeps

LEMMA LibraryBeginUpdateKeeps ==
  ASSUME Library!RecipesAssumption, Library!IInv, NEW c \in Trainers, NEW i, NEW b \in RecipeBodies, Library!BeginUpdate(c, i, b)
  PROVE  Library!IInv'
BY BeginKeeps, Given DEF Library!BeginUpdate

LEMMA BeginSetToolsKeeps ==
  ASSUME Library!RecipesAssumption, Library!IInv, NEW c \in Trainers, NEW i, NEW b \in RecipeBodies, Library!BeginSetTools(c, i, b)
  PROVE  Library!IInv'
<1> DEFINE new == [slug |-> Absent, published |-> Absent, tools |-> b.tools]
<1>1. Library!Begin(c, i, new, "update", Library!ToolsValid(b.tools))
  BY DEF Library!BeginSetTools
<1>2. new \in Library!Body
  BY Given DEF Library!Body
<1> HIDE DEF new
<1>3. QED
  BY <1>1, <1>2, BeginKeeps

(* A request that ends: what it changed is checked by the tables.           *)
LEMMA LibraryEndKeeps ==
  ASSUME Library!RecipesAssumption, Library!IInv, NEW c \in Trainers, NEW how \in {"refused", "error", "done"},
         Library!End(c, how), TablesOK', Library!Room', UNCHANGED <<Library!world, Library!histories>> \/ Library!Witness
  PROVE  Library!IInv'
<1>1. /\ recipe_step' = [recipe_step EXCEPT ![c] = how] /\ target' = [target EXCEPT ![c] = Nothing]
      /\ body' = [body EXCEPT ![c] = Nothing] /\ UNCHANGED <<pending, issues>>
  BY DEF Library!End, Library!Goto
<1>2. /\ how \notin {"page", "refs", "endpoints"} /\ how # "create"
      /\ (Nothing # Nothing) = (how \in {"create", "update"})
      /\ Nothing \in Library!Body \cup {Nothing}
  OBVIOUS
<1>3. UNCHANGED <<Library!world, Library!histories>> \/ Library!Witness
  OBVIOUS
<1> HIDE DEF Library!End, Library!Witness
<1>4. QED
  BY <1>1, <1>2, <1>3, TrainerKeeps

LEMMA EndsFewer ==
  ASSUME Library!IInv, NEW c \in Library!Clients, NEW how, how # "create", Library!Goto(c, how)
  PROVE  Library!Creating' \subseteq Library!Creating \ {c}
<1>1. recipe_step = [d \in Library!Clients |-> recipe_step[d]]
  BY Parts DEF Domains
<1>2. QED
  BY <1>1 DEF Library!Goto, Library!Creating, Library!Clients

LEMMA RefusedKeeps ==
  ASSUME Library!RecipesAssumption, Library!IInv, NEW c \in Trainers, NEW how \in {"refused", "error"},
         Library!End(c, how), UNCHANGED <<Library!world, Library!histories>>
  PROVE  Library!IInv'
<1>1. TablesOK' /\ Library!Free' = Library!Free /\ Library!Room
  BY WorldKept, Parts
<1>2. Library!Creating' \subseteq Library!Creating
  BY EndsFewer DEF Library!End, Library!Clients
<1>3. Library!Room'
  BY <1>1, <1>2, RoomStays
<1>4. QED
  BY <1>1, <1>3, LibraryEndKeeps

(* A recipe that is written: in an id that is free, or over an older one.   *)
LEMMA Written ==
  ASSUME Library!RecipesAssumption, TablesOK, NEW i \in RecipeIds, NEW x \in Library!Recipe,
         recipes' = [recipes EXCEPT ![i] = x], UNCHANGED <<servers, endpoints>>,
         Library!Range(x.tools) \subseteq servers \X Tools, ~Library!SlugTaken(x.slug, i)
  PROVE  /\ TablesOK' /\ recipes'[i] = x /\ Library!Stored' = Library!Stored \cup {i} /\ Library!Free' = Library!Free \ {i}
         /\ \A j \in RecipeIds \ {i} : recipes'[j] = recipes[j]
<1>1. /\ recipes' \in [RecipeIds -> Library!Recipe \cup {Unused, Deleted}] /\ recipes'[i] = x
      /\ \A j \in RecipeIds \ {i} : recipes'[j] = recipes[j]
  BY DEF TablesOK
<1>2. x \notin {Unused, Deleted}
  BY DEF Library!RecipesAssumption
<1>3. Library!Stored' = Library!Stored \cup {i} /\ Library!Free' = Library!Free \ {i}
  BY <1>1, <1>2 DEF Library!Stored, Library!Free
<1>4. Library!Stored \subseteq RecipeIds
  BY DEF Library!Stored
<1>5. ASSUME NEW j \in Library!Stored'
      PROVE  /\ Library!Range(recipes'[j].tools) \subseteq servers \X Tools
             /\ \A k \in Library!Stored' : recipes'[j].slug = recipes'[k].slug => j = k
  <2>1. CASE j = i
    BY <1>1, <1>3, <1>4, <2>1 DEF Library!SlugTaken
  <2>2. CASE j # i
    <3>1. j \in Library!Stored /\ recipes'[j] = recipes[j]
      BY <1>1, <1>3, <1>4, <2>2
    <3>2. recipes[j].slug # x.slug
      BY <3>1, <2>2 DEF Library!SlugTaken
    <3>3. QED
      BY <1>1, <1>3, <1>4, <3>1, <3>2 DEF TablesOK
  <2>3. QED
    BY <2>1, <2>2
<1>6. TablesOK'
  BY <1>1, <1>5 DEF TablesOK
<1>7. QED
  BY <1>1, <1>3, <1>6

LEMMA OnServers ==
  ASSUME Library!RecipesAssumption, NEW ts \in Library!ToolLists, Library!ServersPresent(ts)
  PROVE  Library!Range(ts) \subseteq servers \X Tools
<1>1. Library!Range(ts) \subseteq Library!Refs /\ ts # Absent
  BY ListsOfTools
<1>2. QED
  BY <1>1 DEF Library!ServersPresent, Library!Range, Library!Refs

LEMMA CreateKeeps ==
  ASSUME Library!RecipesAssumption, Library!IInv, NEW c \in Trainers, Library!Create(c)
  PROVE  Library!IInv'
<1>1. CASE \E how \in {"refused", "error"} : Library!End(c, how) /\ UNCHANGED <<Library!world, Library!histories>>
  BY <1>1, RefusedKeeps
<1>2. CASE /\ ~Library!SlugTaken(body[c].slug, Nothing) /\ Library!ServersPresent(body[c].tools)
           /\ recipes' = [recipes EXCEPT ![Library!Min(Library!Free)] = body[c]]
           /\ Library!End(c, "done") /\ UNCHANGED <<servers, endpoints>> /\ Library!Witness
  <2>1. recipe_step[c] = "create" /\ c \in Library!Creating /\ Library!Room /\ TablesOK /\ body[c] \in Library!Recipe
    BY Parts DEF Library!Create, Library!Creating, RequestOK, Library!Clients
  <2>2. Library!Min(Library!Free) \in Library!Free
    BY <2>1, SomeIdIsFree
  <2>3. Library!Min(Library!Free) \in RecipeIds
    BY <2>2 DEF Library!Free
  <2>4. Library!Range(body[c].tools) \subseteq servers \X Tools
    BY <1>2, <2>1, OnServers DEF Library!Recipe
  <2>5. ~Library!SlugTaken(body[c].slug, Library!Min(Library!Free))
    BY <1>2 DEF Library!SlugTaken, Library!RecipesAssumption, Library!Stored
  <2>6. TablesOK' /\ Library!Free' = Library!Free \ {Library!Min(Library!Free)}
    BY <1>2, <2>1, <2>3, <2>4, <2>5, Written
  <2>7. Library!Creating' \subseteq Library!Creating \ {c}
    BY <1>2, EndsFewer DEF Library!End, Library!Clients
  <2>8. Library!Room'
    BY <2>1, <2>2, <2>6, <2>7, RoomTaken
  <2>9. QED
    BY <1>2, <2>6, <2>8, LibraryEndKeeps
<1>3. QED
  BY <1>1, <1>2 DEF Library!Create

(* What an update writes.                                                   *)
Overwritten(c) ==
  LET old == recipes[target[c]] IN
  [slug |-> Library!Or(body[c].slug, old.slug), published |-> Library!Or(body[c].published, old.published),
   tools |-> Library!Or(body[c].tools, old.tools)]

LEMMA Overwrites ==
  ASSUME Library!RecipesAssumption, Library!IInv, NEW c \in Trainers, Library!Update(c)
  PROVE  /\ target[c] \in Library!Stored /\ recipes[target[c]] \in Library!Recipe /\ body[c] \in Library!Body
         /\ Overwritten(c) \in Library!Recipe /\ recipes' = [recipes EXCEPT ![target[c]] = Overwritten(c)]
         /\ Library!Range(Overwritten(c).tools) \subseteq servers \X Tools
         /\ ~Library!SlugTaken(Overwritten(c).slug, target[c])
         /\ Overwritten(c).tools = Library!Or(body[c].tools, recipes[target[c]].tools)
<1>1. /\ TablesOK /\ body[c] \in Library!Body
  BY Parts DEF Library!Update, RequestOK, Library!Clients, Domains
<1>2. /\ target[c] \in Library!Stored /\ target[c] \in RecipeIds /\ ~Library!SlugTaken(body[c].slug, target[c])
      /\ Library!ServersPresent(body[c].tools) /\ recipes' = [recipes EXCEPT ![target[c]] = Overwritten(c)]
  BY DEF Library!Update, Overwritten, Library!Stored
<1>3. recipes[target[c]] \in Library!Recipe
  BY <1>1, <1>2, StoredRecipe
<1>4. /\ body[c].slug \in RecipeSlugs \cup {Absent} /\ body[c].published \in BOOLEAN \cup {Absent}
      /\ body[c].tools \in Library!ToolLists \cup {Absent}
  BY <1>1 DEF Library!Body
<1>5. /\ recipes[target[c]].slug \in RecipeSlugs /\ recipes[target[c]].published \in BOOLEAN
      /\ recipes[target[c]].tools \in Library!ToolLists
  BY <1>3 DEF Library!Recipe
<1>6. /\ Overwritten(c).slug = Library!Or(body[c].slug, recipes[target[c]].slug)
      /\ Overwritten(c).tools = Library!Or(body[c].tools, recipes[target[c]].tools)
  BY DEF Overwritten
<1>7. Overwritten(c) \in Library!Recipe
  BY <1>4, <1>5 DEF Overwritten, Library!Recipe, Library!Or
<1>8. Library!Range(Overwritten(c).tools) \subseteq servers \X Tools
  <2>1. CASE body[c].tools = Absent
    BY <1>1, <1>2, <1>6, <2>1 DEF Library!Or, TablesOK
  <2>2. CASE body[c].tools # Absent
    BY <1>2, <1>4, <1>6, <2>2, OnServers DEF Library!Or
  <2>3. QED
    BY <2>1, <2>2
<1>9. ~Library!SlugTaken(Overwritten(c).slug, target[c])
  <2>1. CASE body[c].slug = Absent
    BY <1>1, <1>2, <1>6, <2>1 DEF Library!Or, TablesOK, Library!SlugTaken
  <2>2. CASE body[c].slug # Absent
    BY <1>2, <1>6, <2>2 DEF Library!Or
  <2>3. QED
    BY <2>1, <2>2
<1>10. QED
  BY <1>1, <1>2, <1>3, <1>6, <1>7, <1>8, <1>9

LEMMA UpdateKeeps ==
  ASSUME Library!RecipesAssumption, Library!IInv, NEW c \in Trainers, Library!Update(c)
  PROVE  Library!IInv'
<1>1. /\ target[c] \in Library!Stored /\ Overwritten(c) \in Library!Recipe
      /\ recipes' = [recipes EXCEPT ![target[c]] = Overwritten(c)]
      /\ Library!Range(Overwritten(c).tools) \subseteq servers \X Tools
      /\ ~Library!SlugTaken(Overwritten(c).slug, target[c])
  BY Overwrites
<1>2. Library!End(c, "done") /\ UNCHANGED <<servers, endpoints>> /\ Library!Witness
  BY DEF Library!Update
<1>3. TablesOK /\ Library!Room /\ target[c] \in RecipeIds /\ target[c] \notin Library!Free
  BY <1>1, Parts DEF Library!Stored, Library!Free
<1>4. TablesOK' /\ Library!Free' = Library!Free
  <2>1. Library!Free' = Library!Free \ {target[c]} /\ TablesOK'
    <3> DEFINE i == target[c]
               x == Overwritten(c)
    <3>1. /\ i \in RecipeIds /\ x \in Library!Recipe /\ recipes' = [recipes EXCEPT ![i] = x]
          /\ Library!Range(x.tools) \subseteq servers \X Tools /\ ~Library!SlugTaken(x.slug, i)
      BY <1>1, <1>3
    <3> HIDE DEF i, x
    <3>2. Library!Free' = Library!Free \ {i} /\ TablesOK'
      BY <1>2, <1>3, <3>1, Written
    <3>3. QED
      BY <3>2 DEF i
  <2>2. QED
    BY <1>3, <2>1
<1>5. Library!Creating' \subseteq Library!Creating
  BY <1>2, EndsFewer DEF Library!End, Library!Clients
<1>6. Library!Room'
  BY <1>3, <1>4, <1>5, RoomStays
<1>7. QED
  BY <1>2, <1>4, <1>6, LibraryEndKeeps

LEMMA UpdateFailsKeeps ==
  ASSUME Library!RecipesAssumption, Library!IInv, NEW c \in Trainers, Library!UpdateFails(c)
  PROVE  Library!IInv'
<1>1. UNCHANGED <<Library!world, Library!histories>> /\ \E how \in {"refused", "error"} : Library!End(c, how)
  BY DEF Library!UpdateFails
<1>2. QED
  BY <1>1, RefusedKeeps

LEMMA TrainsKeep ==
  ASSUME Library!RecipesAssumption, Library!IInv, NEW c \in Trainers, NEW bodies \in SUBSET RecipeBodies, Library!Trains(c, bodies)
  PROVE  Library!IInv'
<1>2. CASE \E r \in Library!Refs : \/ Library!ChangeEndpoints(c, {r}, {}) \/ Library!ChangeEndpoints(c, {}, {r})
                           \/ \E t \in Tools : Library!ChangeEndpoints(c, {r}, {<<r[1], t>>})
  <2>1. \A r \in Library!Refs, t \in Tools : {<<r[1], t>>} \in SUBSET Library!Refs /\ {r} \in SUBSET Library!Refs
    BY DEF Library!Refs
  <2>2. {} \in SUBSET Library!Refs
    OBVIOUS
  <2>3. QED
    BY <1>2, <2>1, <2>2, ChangeEndpointsKeeps
<1>3. CASE \E s \in Servers : Library!DeleteServer(c, s)
  BY <1>3, LibraryDeleteServerKeeps
<1>4. CASE \E b \in bodies : Library!BeginCreate(c, b) \/ \E i \in RecipeIds : Library!BeginUpdate(c, i, b) \/ Library!BeginSetTools(c, i, b)
  BY <1>4, LibraryBeginCreateKeeps, LibraryBeginUpdateKeeps, BeginSetToolsKeeps
<1>5. CASE Library!Create(c) \/ Library!Update(c) \/ Library!UpdateFails(c)
  BY <1>5, CreateKeeps, UpdateKeeps, UpdateFailsKeeps
<1>6. CASE \E i \in RecipeIds : Library!Delete(c, i)
  BY <1>6, DeleteKeeps
<1>7. QED
  BY <1>2, <1>3, <1>4, <1>5, <1>6 DEF Library!Trains

-------------------------------------------------------------------------------
(* Requests that read.                                                      *)

(* A reader's step: the tables stay, and so do the requests of others.      *)
LEMMA ReaderKeeps ==
  ASSUME Library!RecipesAssumption, Library!IInv, NEW c \in Readers, UNCHANGED Library!world, Domains', OnlyOne(c),
         recipe_step'[c] \notin {"create", "update"}, c \in Trainers => body'[c] = Nothing, Library!Reporting(c)'
  PROVE  Library!IInv'
<1>1. c \in Library!Clients /\ Domains /\ Library!Room /\ \A d \in Trainers : d \in Library!Clients
  BY Parts DEF Library!Clients
<1>2. TablesOK' /\ Library!Free' = Library!Free
  BY WorldKept
<1>3. Library!Creating' \subseteq Library!Creating
  BY <1>1 DEF Library!Creating, OnlyOne
<1>4. Library!Room'
  BY <1>1, <1>2, <1>3, RoomStays
<1>5. RequestOK(c)'
  BY DEF RequestOK
<1>6. QED
  BY <1>1, <1>2, <1>4, <1>5, OneKeeps

(* A reader who is in a step of its own, or idle, changes nothing.          *)
LEMMA NoBody ==
  ASSUME Library!IInv, NEW c \in Readers, recipe_step[c] \notin {"create", "update"}
  PROVE  c \in Trainers => body[c] = Nothing
BY Parts DEF RequestOK, Library!Clients

LEMMA Validations ==
  ASSUME Library!RecipesAssumption, Library!IInv, UNCHANGED Library!world, NEW c \in Readers, NEW s,
         recipe_step' = [recipe_step EXCEPT ![c] = s],
         \A d \in Library!Clients \ {c} : target'[d] = target[d] /\ body'[d] = body[d],
         \A d \in Readers \ {c} :
           pending'[d] = pending[d] /\ issues'[d] = issues[d] /\ dangles'[d] = dangles[d]
  PROVE  /\ OnlyOne(c) /\ recipe_step'[c] = s /\ recipe_step' = [x \in Library!Clients |-> recipe_step'[x]]
         /\ Library!Dangling' = Library!Dangling
<1>1. Domains /\ c \in Library!Clients /\ \A d \in Readers : Library!Reporting(d)
  BY Parts DEF Library!Clients
<1>2. /\ recipe_step' = [x \in Library!Clients |-> recipe_step'[x]] /\ recipe_step'[c] = s
      /\ \A d \in Library!Clients \ {c} : recipe_step'[d] = recipe_step[d]
  BY <1>1, OneEntry DEF Domains
<1>3. Library!Dangling' = Library!Dangling
  BY WorldKept
<1>4. \A d \in Readers \ {c} : recipe_step[d] \in {"refs", "endpoints"} => dangles[d] \subseteq Library!Dangling
  BY <1>1 DEF Library!Reporting
<1>5. QED
  BY <1>2, <1>3, <1>4 DEF OnlyOne

LEMMA PageKeeps ==
  ASSUME Library!RecipesAssumption, Library!IInv, NEW c \in Readers, NEW slug, Library!Page(c, slug)
  PROVE  Library!IInv'
<1>1. Domains /\ c \in Library!Clients
  BY Parts DEF Library!Clients
<1>2. UNCHANGED <<Library!world, body, pending, issues, dangles>> /\ Library!Idle(c)
  BY DEF Library!Page
<1>3. \E s \in {"missing", "page"} : \E t, v :
        /\ recipe_step' = [recipe_step EXCEPT ![c] = s] /\ target' = [target EXCEPT ![c] = t]
        /\ public' = [public EXCEPT ![c] = v]
  <2>1. CASE Library!Goto(c, "missing") /\ UNCHANGED <<target, public>>
    <3>1. target' = [target EXCEPT ![c] = target[c]] /\ public' = [public EXCEPT ![c] = public[c]]
      BY <1>1, <2>1 DEF Domains
    <3>2. QED
      BY <2>1, <3>1 DEF Library!Goto
  <2>2. CASE \E i \in Library!Visible(slug) :
               /\ target' = [target EXCEPT ![c] = i]
               /\ public' = [public EXCEPT ![c] = IF recipes[i].published THEN {recipes[i].tools} ELSE {}]
               /\ Library!Goto(c, "page")
    BY <2>2 DEF Library!Goto
  <2>3. QED
    BY <2>1, <2>2 DEF Library!Page
<1>4. PICK s \in {"missing", "page"} : \E t, v :
        /\ recipe_step' = [recipe_step EXCEPT ![c] = s] /\ target' = [target EXCEPT ![c] = t]
        /\ public' = [public EXCEPT ![c] = v]
  BY <1>3
<1>5. /\ target' = [x \in Library!Clients |-> target'[x]]
      /\ \A d \in Library!Clients \ {c} : target'[d] = target[d]
  BY <1>1, <1>4, OneEntry DEF Domains
<1>6. public' = [x \in Readers |-> public'[x]]
  BY <1>1, <1>4, OneEntry DEF Domains
<1>7. OnlyOne(c) /\ recipe_step'[c] = s /\ recipe_step' = [x \in Library!Clients |-> recipe_step'[x]]
  BY <1>2, <1>4, <1>5, Validations
<1>8. Domains'
  BY <1>1, <1>2, <1>5, <1>6, <1>7 DEF Domains
<1>9. c \in Trainers => body'[c] = Nothing
  BY <1>2, NoBody DEF Library!Idle
<1>10. Library!Reporting(c)'
  BY <1>7 DEF Library!Reporting
<1>11. QED
  BY <1>2, <1>7, <1>8, <1>9, <1>10, ReaderKeeps

LEMMA PageToolsKeeps ==
  ASSUME Library!RecipesAssumption, Library!IInv, NEW c \in Readers, Library!PageTools(c)
  PROVE  Library!IInv'
<1>1. Domains /\ c \in Library!Clients
  BY Parts DEF Library!Clients
<1>2. /\ recipe_step' = [recipe_step EXCEPT ![c] = "shown"] /\ target' = [target EXCEPT ![c] = Nothing]
      /\ body' = [body EXCEPT ![c] = Nothing] /\ public' = [public EXCEPT ![c] = {}]
      /\ UNCHANGED <<Library!world, pending, issues, dangles>>
  BY DEF Library!PageTools, Library!End, Library!Goto
<1>3. /\ target' = [x \in Library!Clients |-> target'[x]]
      /\ \A d \in Library!Clients \ {c} : target'[d] = target[d]
  BY <1>1, <1>2, OneEntry DEF Domains
<1>4. public' = [x \in Readers |-> public'[x]]
  BY <1>1, <1>2, OneEntry DEF Domains
<1>5. /\ body' \in [Library!Clients -> Library!Body \cup {Nothing}] /\ body'[c] = Nothing
      /\ \A d \in Library!Clients \ {c} : body'[d] = body[d]
  BY <1>1, <1>2 DEF Domains
<1>6. OnlyOne(c) /\ recipe_step'[c] = "shown" /\ recipe_step' = [x \in Library!Clients |-> recipe_step'[x]]
  BY <1>2, <1>3, <1>5, Validations
<1>7. Domains'
  BY <1>1, <1>2, <1>3, <1>4, <1>5, <1>6 DEF Domains
<1>8. Library!Reporting(c)'
  BY <1>6 DEF Library!Reporting
<1>9. QED
  BY <1>2, <1>5, <1>6, <1>7, <1>8, ReaderKeeps

LEMMA BeginValidateKeeps ==
  ASSUME Library!RecipesAssumption, Library!IInv, NEW c \in Readers, Library!BeginValidate(c)
  PROVE  Library!IInv'
<1>1. Domains /\ c \in Library!Clients
  BY Parts DEF Library!Clients
<1>2. /\ recipe_step' = [recipe_step EXCEPT ![c] = "refs"] /\ target' = [target EXCEPT ![c] = Library!Stored]
      /\ issues' = [issues EXCEPT ![c] = {}] /\ dangles' = [dangles EXCEPT ![c] = Library!Dangling]
      /\ UNCHANGED <<Library!world, body, pending, public>> /\ Library!Idle(c)
  BY DEF Library!BeginValidate, Library!Goto
<1>3. /\ target' = [x \in Library!Clients |-> target'[x]] /\ target'[c] = Library!Stored
      /\ \A d \in Library!Clients \ {c} : target'[d] = target[d]
  BY <1>1, <1>2, OneEntry DEF Domains
<1>4. /\ issues' = [x \in Readers |-> issues'[x]]
      /\ \A d \in Readers \ {c} : issues'[d] = issues[d]
  BY <1>1, <1>2, OneEntry DEF Domains
<1>5. /\ dangles' = [x \in Readers |-> dangles'[x]] /\ dangles'[c] = Library!Dangling
      /\ \A d \in Readers \ {c} : dangles'[d] = dangles[d]
  BY <1>1, <1>2, OneEntry DEF Domains
<1>6. /\ OnlyOne(c) /\ recipe_step'[c] = "refs" /\ recipe_step' = [x \in Library!Clients |-> recipe_step'[x]]
      /\ Library!Dangling' = Library!Dangling
  BY <1>2, <1>3, <1>4, <1>5, Validations
<1>7. Domains'
  BY <1>1, <1>2, <1>3, <1>4, <1>5, <1>6 DEF Domains
<1>8. c \in Trainers => body'[c] = Nothing
  BY <1>2, NoBody DEF Library!Idle
<1>9. \A l \in Library!Dangling : l[1] \in Library!Stored
  BY DEF Library!Dangling, Library!Links
<1>10. Library!Reporting(c)'
  BY <1>3, <1>5, <1>6, <1>9 DEF Library!Reporting
<1>11. QED
  BY <1>2, <1>6, <1>7, <1>8, <1>10, ReaderKeeps

LEMMA LinksAreTriples == Library!Links \subseteq RecipeIds \X Servers \X Tools
BY DEF Library!Links, Library!Refs, Library!Stored

LEMMA ReadRefsKeeps ==
  ASSUME Library!RecipesAssumption, Library!IInv, NEW c \in Readers, Library!ReadRefs(c)
  PROVE  Library!IInv'
<1> DEFINE ls == {l \in Library!Links : l[1] \in target[c] /\ <<l[2], l[3]>> \in Library!Range(recipes[l[1]].tools)}
<1>1. Domains /\ c \in Library!Clients /\ Library!Reporting(c)
  BY Parts DEF Library!Clients
<1>2. /\ recipe_step' = [recipe_step EXCEPT ![c] = "endpoints"] /\ target' = [target EXCEPT ![c] = Nothing]
      /\ pending' = [pending EXCEPT ![c] = ls] /\ recipe_step[c] = "refs"
      /\ UNCHANGED <<Library!world, body, issues, dangles, public>>
  BY DEF Library!ReadRefs, Library!Goto, Library!histories
<1>3. /\ target' = [x \in Library!Clients |-> target'[x]]
      /\ \A d \in Library!Clients \ {c} : target'[d] = target[d]
  BY <1>1, <1>2, OneEntry DEF Domains
<1>4. ls \subseteq RecipeIds \X Servers \X Tools
  BY LinksAreTriples
<1>5. dangles[c] \subseteq ls
  BY <1>1, <1>2 DEF Library!Reporting, Library!Dangling
<1> HIDE DEF ls
<1>6. /\ pending' \in [Readers -> SUBSET (RecipeIds \X Servers \X Tools)] /\ pending'[c] = ls
      /\ \A d \in Readers \ {c} : pending'[d] = pending[d]
  BY <1>1, <1>2, <1>4 DEF Domains
<1>7. /\ OnlyOne(c) /\ recipe_step'[c] = "endpoints" /\ recipe_step' = [x \in Library!Clients |-> recipe_step'[x]]
      /\ Library!Dangling' = Library!Dangling
  BY <1>2, <1>3, <1>6, Validations
<1>8. Domains'
  BY <1>1, <1>2, <1>3, <1>6, <1>7 DEF Domains
<1>9. c \in Trainers => body'[c] = Nothing
  BY <1>2, NoBody
<1>10. Library!Reporting(c)'
  BY <1>1, <1>2, <1>5, <1>6, <1>7 DEF Library!Reporting
<1>11. QED
  BY <1>2, <1>7, <1>8, <1>9, <1>10, ReaderKeeps

LEMMA ValidateServerKeeps ==
  ASSUME Library!RecipesAssumption, Library!IInv, NEW c \in Readers, NEW s, Library!ValidateServer(c, s)
  PROVE  Library!IInv'
<1> DEFINE ls == {l \in pending[c] : l[2] = s}
<1>1. Domains /\ c \in Library!Clients /\ Library!Reporting(c)
  BY Parts DEF Library!Clients
<1>2. /\ recipe_step[c] = "endpoints" /\ recipe_step' = [recipe_step EXCEPT ![c] = "endpoints"]
      /\ issues' = [issues EXCEPT ![c] = issues[c] \cup Library!Missing(ls)]
      /\ pending' = [pending EXCEPT ![c] = pending[c] \ ls]
      /\ UNCHANGED <<Library!world, target, body, dangles, public>>
  BY <1>1 DEF Library!ValidateServer, Library!histories, Domains
<1>3. /\ issues' = [x \in Readers |-> issues'[x]] /\ issues'[c] = issues[c] \cup Library!Missing(ls)
      /\ \A d \in Readers \ {c} : issues'[d] = issues[d]
  BY <1>1, <1>2, OneEntry DEF Domains
<1>4. /\ pending' \in [Readers -> SUBSET (RecipeIds \X Servers \X Tools)] /\ pending'[c] = pending[c] \ ls
      /\ \A d \in Readers \ {c} : pending'[d] = pending[d]
  BY <1>1, <1>2 DEF Domains
<1>5. /\ OnlyOne(c) /\ recipe_step'[c] = "endpoints" /\ recipe_step' = [x \in Library!Clients |-> recipe_step'[x]]
      /\ Library!Dangling' = Library!Dangling
  BY <1>2, <1>3, <1>4, Validations
<1>6. Domains'
  BY <1>1, <1>2, <1>3, <1>4, <1>5 DEF Domains
<1>7. c \in Trainers => body'[c] = Nothing
  BY <1>2, NoBody
<1>8. dangles[c] \subseteq Library!Dangling /\ dangles[c] \subseteq issues[c] \cup pending[c]
  BY <1>1, <1>2 DEF Library!Reporting
<1>9. \A l \in Library!Dangling : <<l[2], l[3]>> \notin endpoints
  BY DEF Library!Dangling
<1>10. dangles[c] \subseteq issues'[c] \cup pending'[c]
  BY <1>3, <1>4, <1>8, <1>9 DEF Library!Missing
<1>11. Library!Reporting(c)'
  BY <1>2, <1>5, <1>8, <1>10 DEF Library!Reporting
<1>12. QED
  BY <1>2, <1>5, <1>6, <1>7, <1>11, ReaderKeeps

LEMMA ReportKeeps ==
  ASSUME Library!RecipesAssumption, Library!IInv, NEW c \in Readers, Library!Report(c)
  PROVE  Library!IInv'
<1>1. Domains /\ c \in Library!Clients
  BY Parts DEF Library!Clients
<1>2. /\ recipe_step[c] = "endpoints" /\ recipe_step' = [recipe_step EXCEPT ![c] = "reported"]
      /\ issues' = [issues EXCEPT ![c] = {}] /\ dangles' = [dangles EXCEPT ![c] = {}]
      /\ UNCHANGED <<Library!world, target, body, pending, public>>
  BY DEF Library!Report, Library!Goto
<1>3. /\ issues' = [x \in Readers |-> issues'[x]]
      /\ \A d \in Readers \ {c} : issues'[d] = issues[d]
  BY <1>1, <1>2, OneEntry DEF Domains
<1>4. /\ dangles' = [x \in Readers |-> dangles'[x]]
      /\ \A d \in Readers \ {c} : dangles'[d] = dangles[d]
  BY <1>1, <1>2, OneEntry DEF Domains
<1>5. OnlyOne(c) /\ recipe_step'[c] = "reported" /\ recipe_step' = [x \in Library!Clients |-> recipe_step'[x]]
  BY <1>2, <1>3, <1>4, Validations
<1>6. Domains'
  BY <1>1, <1>2, <1>3, <1>4, <1>5 DEF Domains
<1>7. c \in Trainers => body'[c] = Nothing
  BY <1>2, NoBody
<1>8. Library!Reporting(c)'
  BY <1>5 DEF Library!Reporting
<1>9. QED
  BY <1>2, <1>5, <1>6, <1>7, <1>8, ReaderKeeps

LEMMA ReadsKeep ==
  ASSUME Library!RecipesAssumption, Library!IInv, NEW c \in Readers, NEW few, Library!Reads(c, few)
  PROVE  Library!IInv'
<1>1. CASE \E slug \in few : Library!Page(c, slug)
  BY <1>1, PageKeeps
<1>2. CASE Library!PageTools(c)
  BY <1>2, PageToolsKeeps
<1>3. CASE Library!BeginValidate(c)
  BY <1>3, BeginValidateKeeps
<1>4. CASE Library!ReadRefs(c)
  BY <1>4, ReadRefsKeeps
<1>5. CASE \E s \in Servers : Library!ValidateServer(c, s)
  BY <1>5, ValidateServerKeeps
<1>6. CASE Library!Report(c)
  BY <1>6, ReportKeeps
<1>7. QED
  BY <1>1, <1>2, <1>3, <1>4, <1>5, <1>6 DEF Library!Reads

LEMMA LibraryStutterKeeps ==
  ASSUME Library!RecipesAssumption, Library!IInv, UNCHANGED Library!vars
  PROVE  Library!IInv'
<1>1. TablesOK' /\ Library!Free' = Library!Free /\ Library!Dangling' = Library!Dangling
  BY WorldKept DEF Library!vars, Library!world
<1>2. Domains'
  BY Parts DEF Domains, Library!vars, Library!histories
<1>3. \A c \in Library!Clients : RequestOK(c)'
  BY Parts DEF RequestOK, Library!vars
<1>4. \A c \in Readers : Library!Reporting(c)'
  BY <1>1, Parts DEF Library!Reporting, Library!vars, Library!histories
<1>5. Library!Creating' \subseteq Library!Creating
  BY DEF Library!Creating, Library!vars
<1>6. Library!Room'
  BY <1>1, <1>5, RoomStays, Parts
<1>7. QED
  BY <1>1, <1>2, <1>3, <1>4, <1>6, Parts

-------------------------------------------------------------------------------
(* The lists that are stored.                                               *)

(* AsSent, after the step.                                                  *)
StillSent(ts, bodies) ==
  \E b \in bodies, gone \in SUBSET Servers :
    gone \cap servers' = {} /\ ts = Library!Without(Library!Or(b.tools, <<>>), gone)

LEMMA FewerServers ==
  ASSUME NEW bodies, NEW ts, Library!AsSent(ts, bodies), servers' \subseteq servers
  PROVE  StillSent(ts, bodies)
<1>1. PICK b \in bodies, gone \in SUBSET Servers :
        gone \cap servers = {} /\ ts = Library!Without(Library!Or(b.tools, <<>>), gone)
  BY DEF Library!AsSent
<1>2. QED
  BY <1>1 DEF StillSent

LEMMA OneServerFewer ==
  ASSUME NEW bodies, NEW ts, Library!AsSent(ts, bodies), NEW s \in Servers, servers' = servers \ {s}
  PROVE  StillSent(Library!Without(ts, {s}), bodies)
<1>1. PICK b \in bodies, gone \in SUBSET Servers :
        gone \cap servers = {} /\ ts = Library!Without(Library!Or(b.tools, <<>>), gone)
  BY DEF Library!AsSent
<1>2. Library!Without(ts, {s}) = Library!Without(Library!Or(b.tools, <<>>), gone \cup {s})
  BY <1>1, WithoutTwice
<1>3. gone \cup {s} \in SUBSET Servers /\ (gone \cup {s}) \cap servers' = {}
  BY <1>1
<1>4. QED
  BY <1>2, <1>3 DEF StillSent

LEMMA JustSent ==
  ASSUME Library!RecipesAssumption, NEW bodies \in SUBSET RecipeBodies, NEW b \in bodies
  PROVE  StillSent(Library!Or(b.tools, <<>>), bodies)
<1>1. Library!Or(b.tools, <<>>) = Library!Without(Library!Or(b.tools, <<>>), {})
  BY Given, WithoutNone
<1>2. QED
  BY <1>1 DEF StillSent

LEMMA ListsInit ==
  ASSUME Library!Init, NEW bodies
  PROVE  Library!Lists(bodies)
BY DEF Library!Init, Library!Lists, Library!Stored, Library!Clients

(* What a request in progress writes is a list of bodies.                   *)
Sends(c, bodies) == body[c].tools = Absent \/ \E b \in bodies : body[c].tools = Library!Or(b.tools, <<>>)

LEMMA ListsNext ==
  ASSUME NEW bodies, Library!Lists(bodies), NEW c, servers' \subseteq servers,
         \A i \in Library!Stored' :
           (i \in Library!Stored /\ recipes'[i].tools = recipes[i].tools) \/ StillSent(recipes'[i].tools, bodies),
         \A d \in Trainers \ {c} : recipe_step'[d] = recipe_step[d] /\ body'[d] = body[d],
         c \in Trainers /\ recipe_step'[c] \in {"create", "update"} => Sends(c, bodies)'
  PROVE  Library!Lists(bodies)'
<1>1. ASSUME NEW i \in Library!Stored'
      PROVE  StillSent(recipes'[i].tools, bodies)
  <2>1. CASE i \in Library!Stored /\ recipes'[i].tools = recipes[i].tools
    <3>1. Library!AsSent(recipes[i].tools, bodies)
      BY <2>1 DEF Library!Lists
    <3>2. StillSent(recipes[i].tools, bodies)
      BY <3>1, FewerServers
    <3>3. QED
      BY <2>1, <3>2
  <2>2. QED
    BY <1>1, <2>1
<1>2. ASSUME NEW d \in Trainers, recipe_step'[d] \in {"create", "update"}
      PROVE  Sends(d, bodies)'
  <2>1. CASE d = c
    BY <1>2, <2>1
  <2>2. CASE d # c
    BY <1>2, <2>2 DEF Library!Lists, Sends
  <2>3. QED
    BY <2>1, <2>2
<1>3. QED
  BY <1>1, <1>2 DEF Library!Lists, StillSent, Library!AsSent, Sends

LEMMA Others ==
  ASSUME Library!IInv, NEW c \in Library!Clients, NEW s, recipe_step' = [recipe_step EXCEPT ![c] = s]
  PROVE  recipe_step'[c] = s /\ \A d \in Library!Clients \ {c} : recipe_step'[d] = recipe_step[d]
BY Parts DEF Domains

LEMMA OtherBodies ==
  ASSUME Library!IInv, NEW c \in Library!Clients, NEW b, body' = [body EXCEPT ![c] = b]
  PROVE  body'[c] = b /\ \A d \in Library!Clients \ {c} : body'[d] = body[d]
BY Parts DEF Domains

(* A request that ends without a change of the tables.                      *)
LEMMA UnchangedLists ==
  ASSUME NEW c, NEW bodies, Library!RecipesAssumption, Library!IInv, Library!Lists(bodies), UNCHANGED Library!world,
         \A d \in Trainers \ {c} : recipe_step'[d] = recipe_step[d] /\ body'[d] = body[d],
         c \in Trainers /\ recipe_step'[c] \in {"create", "update"} => Sends(c, bodies)'
  PROVE  Library!Lists(bodies)'
<1>1. servers' \subseteq servers /\ \A i \in Library!Stored' : i \in Library!Stored /\ recipes'[i].tools = recipes[i].tools
  BY DEF Library!world, Library!Stored
<1>2. QED
  BY <1>1, ListsNext

LEMMA EndLists ==
  ASSUME Library!IInv, NEW c \in Trainers, NEW how \in {"refused", "error", "done"}, Library!End(c, how)
  PROVE  /\ \A d \in Trainers \ {c} : recipe_step'[d] = recipe_step[d] /\ body'[d] = body[d]
         /\ recipe_step'[c] = how
BY Others, OtherBodies DEF Library!End, Library!Goto, Library!Clients

LEMMA DoneLists ==
  ASSUME Library!IInv, NEW c \in Trainers, Library!Goto(c, "done"), Library!Private
  PROVE  /\ \A d \in Trainers \ {c} : recipe_step'[d] = recipe_step[d] /\ body'[d] = body[d]
         /\ recipe_step'[c] = "done"
BY Others DEF Library!Goto, Library!Private, Library!Clients

LEMMA BeginLists ==
  ASSUME Library!RecipesAssumption, Library!IInv, NEW bodies \in SUBSET RecipeBodies, Library!Lists(bodies), NEW c \in Trainers, NEW i,
         NEW b, NEW how \in {"create", "update"}, NEW ok, Library!Begin(c, i, b, how, ok),
         b.tools = Absent \/ \E x \in bodies : b.tools = Library!Or(x.tools, <<>>)
  PROVE  Library!Lists(bodies)'
<1>1. UNCHANGED Library!world /\ c \in Library!Clients /\ \A d \in Trainers : d \in Library!Clients
  BY DEF Library!Begin, Library!Clients
<1>2. CASE ok
  <2>1. /\ recipe_step'[c] = how /\ \A d \in Library!Clients \ {c} : recipe_step'[d] = recipe_step[d]
    BY <1>1, <1>2, Others DEF Library!Begin, Library!Goto
  <2>2. /\ body'[c] = b /\ \A d \in Library!Clients \ {c} : body'[d] = body[d]
    BY <1>1, <1>2, OtherBodies DEF Library!Begin
  <2>3. Sends(c, bodies)'
    BY <2>2 DEF Sends
  <2>4. QED
    BY <1>1, <2>1, <2>2, <2>3, UnchangedLists
<1>3. CASE ~ok
  <2>1. /\ recipe_step'[c] = "refused" /\ \A d \in Library!Clients \ {c} : recipe_step'[d] = recipe_step[d]
    BY <1>1, <1>3, Others DEF Library!Begin, Library!Goto
  <2>2. body' = body
    BY <1>3 DEF Library!Begin
  <2>3. QED
    BY <1>1, <2>1, <2>2, UnchangedLists
<1>4. QED
  BY <1>2, <1>3

LEMMA TrainsLists ==
  ASSUME Library!RecipesAssumption, Library!IInv, NEW bodies \in SUBSET RecipeBodies, Library!Lists(bodies), NEW c \in Trainers,
         Library!Trains(c, bodies)
  PROVE  Library!Lists(bodies)'
<1>1. ASSUME NEW old, NEW new, Library!ChangeEndpoints(c, old, new)
      PROVE  Library!Lists(bodies)'
  <2>1. servers' = servers /\ recipes' = recipes /\ Library!Goto(c, "done") /\ Library!Private
    BY <1>1 DEF Library!ChangeEndpoints
  <2>2. \A i \in Library!Stored' : i \in Library!Stored /\ recipes'[i].tools = recipes[i].tools
    BY <2>1 DEF Library!Stored
  <2>3. QED
    BY <2>1, <2>2, DoneLists, ListsNext
<1>2. ASSUME NEW s, Library!DeleteServer(c, s)
      PROVE  Library!Lists(bodies)'
  <2>1. /\ servers' = servers \ {s} /\ Library!Goto(c, "done") /\ Library!Private /\ s \in Servers
    BY <1>2, Parts DEF Library!DeleteServer, TablesOK
  <2>2. Library!Stored' = Library!Stored /\ \A i \in Library!Stored : recipes'[i].tools = Library!Without(recipes[i].tools, {s})
    BY <1>2, ServerGone
  <2>3. ASSUME NEW i \in Library!Stored
        PROVE  StillSent(recipes'[i].tools, bodies)
    <3>1. Library!AsSent(recipes[i].tools, bodies)
      BY DEF Library!Lists
    <3>2. StillSent(Library!Without(recipes[i].tools, {s}), bodies)
      BY <2>1, <3>1, OneServerFewer
    <3>3. QED
      BY <2>2, <3>2
  <2>4. servers' \subseteq servers
    BY <2>1
  <2>5. QED
    BY <2>1, <2>2, <2>3, <2>4, DoneLists, ListsNext
<1>3. ASSUME NEW b \in bodies, Library!BeginCreate(c, b)
      PROVE  Library!Lists(bodies)'
  <2> DEFINE new == [slug |-> b.slug, published |-> Library!Or(b.published, FALSE), tools |-> Library!Or(b.tools, <<>>)]
  <2>1. Library!Begin(c, Nothing, new, "create", ~Library!SlugTaken(b.slug, Nothing) /\ Library!ToolsValid(b.tools))
    BY <1>3 DEF Library!BeginCreate
  <2>2. new.tools = Library!Or(b.tools, <<>>)
    OBVIOUS
  <2> HIDE DEF new
  <2>3. QED
    BY <2>1, <2>2, BeginLists
<1>4. ASSUME NEW b \in bodies, NEW i, Library!BeginUpdate(c, i, b)
      PROVE  Library!Lists(bodies)'
  <2>1. Library!Begin(c, i, b, "update", ~Library!SlugTaken(Library!Or(b.slug, recipes[i].slug), i) /\ Library!ToolsValid(b.tools))
    BY <1>4 DEF Library!BeginUpdate
  <2>2. b.tools = Absent \/ b.tools = Library!Or(b.tools, <<>>)
    BY Given
  <2>3. QED
    BY <2>1, <2>2, BeginLists
<1>5. ASSUME NEW b \in bodies, NEW i, Library!BeginSetTools(c, i, b)
      PROVE  Library!Lists(bodies)'
  <2> DEFINE new == [slug |-> Absent, published |-> Absent, tools |-> b.tools]
  <2>1. Library!Begin(c, i, new, "update", Library!ToolsValid(b.tools))
    BY <1>5 DEF Library!BeginSetTools
  <2>2. new.tools = Absent \/ new.tools = Library!Or(b.tools, <<>>)
    BY Given
  <2> HIDE DEF new
  <2>3. QED
    BY <2>1, <2>2, BeginLists
<1>6. ASSUME NEW how \in {"refused", "error"}, Library!End(c, how), UNCHANGED Library!world
      PROVE  Library!Lists(bodies)'
  BY <1>6, EndLists, UnchangedLists
<1>7. CASE Library!Create(c)
  <2>1. CASE \E how \in {"refused", "error"} : Library!End(c, how) /\ UNCHANGED Library!world
    BY <2>1, <1>6
  <2>2. CASE /\ recipes' = [recipes EXCEPT ![Library!Min(Library!Free)] = body[c]]
             /\ Library!End(c, "done") /\ UNCHANGED <<servers, endpoints>>
    <3>1. recipe_step[c] = "create" /\ c \in Library!Creating /\ Library!Room /\ TablesOK /\ body[c] \in Library!Recipe
      BY <1>7, Parts DEF Library!Create, Library!Creating, RequestOK, Library!Clients
    <3>2. body[c].tools # Absent
      BY <3>1 DEF Library!Recipe, Library!RecipesAssumption
    <3>3. PICK b \in bodies : body[c].tools = Library!Or(b.tools, <<>>)
      BY <3>1, <3>2 DEF Library!Lists
    <3>4. StillSent(body[c].tools, bodies)
      BY <3>3, JustSent
    <3>5. Library!Min(Library!Free) \in RecipeIds
      BY <3>1, SomeIdIsFree DEF Library!Free
    <3> DEFINE i == Library!Min(Library!Free)
    <3>6. i \in RecipeIds /\ recipes' = [recipes EXCEPT ![i] = body[c]]
      BY <2>2, <3>5
    <3> HIDE DEF i
    <3>7. recipes'[i] = body[c] /\ \A j \in RecipeIds \ {i} : recipes'[j] = recipes[j]
      BY <3>1, <3>6 DEF TablesOK
    <3>8. \A j \in Library!Stored' :
            (j \in Library!Stored /\ recipes'[j].tools = recipes[j].tools) \/ StillSent(recipes'[j].tools, bodies)
      BY <3>4, <3>7 DEF Library!Stored
    <3>9. QED
      BY <2>2, <3>8, EndLists, ListsNext
  <2>3. QED
    BY <1>7, <2>1, <2>2 DEF Library!Create
<1>8. CASE Library!Update(c)
  <2>1. /\ target[c] \in Library!Stored /\ recipes' = [recipes EXCEPT ![target[c]] = Overwritten(c)]
        /\ Overwritten(c).tools = Library!Or(body[c].tools, recipes[target[c]].tools)
    BY <1>8, Overwrites
  <2>2. Library!End(c, "done") /\ UNCHANGED <<servers, endpoints>> /\ recipe_step[c] = "update" /\ TablesOK
    BY <1>8, Parts DEF Library!Update
  <2> DEFINE i == target[c]
             x == Overwritten(c)
  <2>3. i \in RecipeIds /\ i \in Library!Stored /\ recipes' = [recipes EXCEPT ![i] = x]
    BY <2>1 DEF Library!Stored
  <2>4. x.tools = recipes[i].tools \/ StillSent(x.tools, bodies)
    <3>1. CASE body[c].tools = Absent
      BY <2>1, <3>1 DEF Library!Or
    <3>2. CASE body[c].tools # Absent
      <4>1. PICK b \in bodies : body[c].tools = Library!Or(b.tools, <<>>)
        BY <2>2, <3>2 DEF Library!Lists
      <4>2. StillSent(body[c].tools, bodies)
        BY <4>1, JustSent
      <4>3. QED
        BY <2>1, <3>2, <4>2 DEF Library!Or
    <3>3. QED
      BY <3>1, <3>2
  <2> HIDE DEF i, x
  <2>5. recipes'[i] = x /\ \A j \in RecipeIds \ {i} : recipes'[j] = recipes[j]
    BY <2>2, <2>3 DEF TablesOK
  <2>6. \A j \in Library!Stored' :
          (j \in Library!Stored /\ recipes'[j].tools = recipes[j].tools) \/ StillSent(recipes'[j].tools, bodies)
    BY <2>3, <2>4, <2>5 DEF Library!Stored
  <2>7. QED
    BY <2>2, <2>6, EndLists, ListsNext
<1>9. CASE Library!UpdateFails(c)
  BY <1>9, <1>6 DEF Library!UpdateFails
<1>10. ASSUME NEW i, Library!Delete(c, i)
       PROVE  Library!Lists(bodies)'
  <2>1. /\ i \in Library!Stored /\ recipes' = [recipes EXCEPT ![i] = Deleted]
        /\ servers' = servers /\ Library!Goto(c, "done") /\ Library!Private /\ TablesOK
    BY <1>10, Parts DEF Library!Delete
  <2>2. recipes'[i] = Deleted /\ \A j \in RecipeIds \ {i} : recipes'[j] = recipes[j]
    BY <2>1 DEF TablesOK, Library!Stored
  <2>3. \A j \in Library!Stored' : j \in Library!Stored /\ recipes'[j].tools = recipes[j].tools
    BY <2>2 DEF Library!Stored
  <2>4. QED
    BY <2>1, <2>3, DoneLists, ListsNext
<1>11. QED
  BY <1>1, <1>2, <1>3, <1>4, <1>5, <1>7, <1>8, <1>9, <1>10 DEF Library!Trains

LEMMA ReadsGo ==
  ASSUME Library!IInv, NEW c \in Readers, NEW few, Library!Reads(c, few)
  PROVE  /\ \E s \in {"missing", "page", "shown", "refs", "endpoints", "reported"} :
              recipe_step'[c] = s
         /\ \A d \in Library!Clients \ {c} : recipe_step'[d] = recipe_step[d] /\ body'[d] = body[d]
         /\ UNCHANGED Library!world
<1>1. c \in Library!Clients
  BY DEF Library!Clients
<1>2. ASSUME NEW s \in {"missing", "page", "shown", "refs", "endpoints", "reported"}, Library!Goto(c, s),
             body' = body \/ body' = [body EXCEPT ![c] = Nothing]
      PROVE  /\ recipe_step'[c] = s
             /\ \A d \in Library!Clients \ {c} : recipe_step'[d] = recipe_step[d] /\ body'[d] = body[d]
  BY <1>1, <1>2, Others, OtherBodies DEF Library!Goto
<1>3. CASE \E slug \in few : Library!Page(c, slug)
  BY <1>3, <1>2 DEF Library!Page, Library!Visible
<1>4. CASE Library!PageTools(c)
  BY <1>4, <1>2 DEF Library!PageTools, Library!End
<1>5. CASE Library!BeginValidate(c)
  BY <1>5, <1>2 DEF Library!BeginValidate
<1>6. CASE Library!ReadRefs(c)
  BY <1>6, <1>2 DEF Library!ReadRefs
<1>7. CASE \E s \in Servers : Library!ValidateServer(c, s)
  BY <1>7 DEF Library!ValidateServer
<1>8. CASE Library!Report(c)
  BY <1>8, <1>2 DEF Library!Report
<1>9. QED
  BY <1>3, <1>4, <1>5, <1>6, <1>7, <1>8 DEF Library!Reads

LEMMA ReadsLists ==
  ASSUME Library!RecipesAssumption, Library!IInv, NEW bodies, Library!Lists(bodies), NEW c \in Readers, NEW few,
         Library!Reads(c, few)
  PROVE  Library!Lists(bodies)'
<1>1. recipe_step'[c] \notin {"create", "update"} /\ UNCHANGED Library!world
  BY ReadsGo
<1>2. \A d \in Trainers \ {c} : recipe_step'[d] = recipe_step[d] /\ body'[d] = body[d]
  BY ReadsGo DEF Library!Clients
<1>3. QED
  BY <1>1, <1>2, UnchangedLists

LEMMA StutterLists ==
  ASSUME NEW bodies, Library!Lists(bodies), UNCHANGED Library!vars
  PROVE  Library!Lists(bodies)'
BY DEF Library!vars, Library!Lists, Library!AsSent, Library!Stored

-------------------------------------------------------------------------------
(* What reports and pages show.                                             *)

LEMMA TrainsGo ==
  ASSUME Library!IInv, NEW c \in Trainers, NEW bodies, Library!Trains(c, bodies)
  PROVE  /\ recipe_step[c] \notin {"page", "refs", "endpoints"}
         /\ \A d \in Library!Clients \ {c} : recipe_step'[d] = recipe_step[d]
<1>1. ASSUME NEW s, Library!Goto(c, s) PROVE \A d \in Library!Clients \ {c} : recipe_step'[d] = recipe_step[d]
  BY <1>1, Others DEF Library!Goto, Library!Clients
<1>2. ASSUME NEW old, NEW new, Library!ChangeEndpoints(c, old, new)
      PROVE  Library!Idle(c) /\ \A d \in Library!Clients \ {c} : recipe_step'[d] = recipe_step[d]
  BY <1>1, <1>2 DEF Library!ChangeEndpoints
<1>3. ASSUME NEW s, Library!DeleteServer(c, s)
      PROVE  Library!Idle(c) /\ \A d \in Library!Clients \ {c} : recipe_step'[d] = recipe_step[d]
  BY <1>1, <1>3 DEF Library!DeleteServer
<1>4. ASSUME NEW i, NEW b, NEW how, NEW ok, Library!Begin(c, i, b, how, ok)
      PROVE  Library!Idle(c) /\ \A d \in Library!Clients \ {c} : recipe_step'[d] = recipe_step[d]
  BY <1>1, <1>4 DEF Library!Begin
<1>5. CASE \E b \in bodies : Library!BeginCreate(c, b) \/ \E i \in RecipeIds : Library!BeginUpdate(c, i, b) \/ Library!BeginSetTools(c, i, b)
  BY <1>4, <1>5 DEF Library!BeginCreate, Library!BeginUpdate, Library!BeginSetTools, Library!Idle
<1>6. CASE Library!Create(c) \/ Library!Update(c) \/ Library!UpdateFails(c)
  BY <1>1, <1>6 DEF Library!Create, Library!Update, Library!UpdateFails, Library!End
<1>7. ASSUME NEW i, Library!Delete(c, i)
      PROVE  Library!Idle(c) /\ \A d \in Library!Clients \ {c} : recipe_step'[d] = recipe_step[d]
  BY <1>1, <1>7 DEF Library!Delete
<1>8. QED
  BY <1>2, <1>3, <1>5, <1>6, <1>7 DEF Library!Trains, Library!Idle

LEMMA ReportsLast ==
  ASSUME NEW c, NEW few, Library!Reads(c, few), recipe_step[c] = "endpoints", recipe_step'[c] = "reported"
  PROVE  pending[c] = {} /\ UNCHANGED Library!world
BY DEF Library!Reads, Library!Page, Library!PageTools, Library!BeginValidate, Library!ReadRefs, Library!ValidateServer, Library!Report, Library!Idle

LEMMA TrainsFaithful ==
  ASSUME Library!IInv, NEW c \in Trainers, NEW bodies, Library!Trains(c, bodies)
  PROVE  Library!ReportComplete
BY TrainsGo DEF Library!ReportComplete, Library!Clients

LEMMA ReadsFaithful ==
  ASSUME Library!IInv, NEW c \in Readers, NEW few, Library!Reads(c, few)
  PROVE  Library!ReportComplete
<1>1. ASSUME recipe_step[c] = "endpoints", recipe_step'[c] = "reported"
      PROVE  dangles[c] \subseteq issues[c]
  <2>1. pending[c] = {}
    BY <1>1, ReportsLast
  <2>2. dangles[c] \subseteq issues[c] \cup pending[c]
    BY <1>1, Parts DEF Library!Reporting
  <2>3. QED
    BY <2>1, <2>2
<1>2. \A d \in Readers \ {c} : recipe_step'[d] = recipe_step[d]
  BY ReadsGo DEF Library!Clients
<1>3. QED
  BY <1>1, <1>2 DEF Library!ReportComplete

LEMMA ListsAreShown ==
  ASSUME NEW bodies, Library!Lists(bodies)
  PROVE  Library!PageWhole(bodies)
BY DEF Library!Lists, Library!PageWhole, Library!Shown

LEMMA LibraryStutterFaithful ==
  ASSUME UNCHANGED Library!vars
  PROVE  Library!ReportComplete /\ Library!NewRefsExist /\ Library!ReportExact
BY DEF Library!vars, Library!ReportComplete, Library!NewRefsExist, Library!ReportExact

-------------------------------------------------------------------------------
(* A client who is alone.                                                   *)

LEMMA PublishedShown ==
  ASSUME NEW c, Library!Alone(c)
  PROVE  Library!OnlyPublishedShown
<1>1. \A d \in Readers \ {c} : recipe_step[d] = "idle"
  BY DEF Library!Alone, Library!Clients
<1>2. QED
  BY <1>1 DEF Library!Alone, Library!OnlyPublishedShown

LEMMA LibraryNoErrorAlone ==
  ASSUME NEW c, Library!Alone(c)
  PROVE  Library!NoServerError
BY DEF Library!Alone, Library!NoServerError, Library!Clients

LEMMA LibraryInitAlone ==
  ASSUME Library!Init, NEW c \in Library!Clients
  PROVE  Library!Alone(c)
BY DEF Library!Init, Library!Alone

LEMMA LibraryStutterAlone ==
  ASSUME UNCHANGED Library!vars, NEW c, Library!Alone(c)
  PROVE  Library!Alone(c)'
BY DEF Library!vars, Library!histories, Library!Alone, Library!SlugTaken, Library!ToolsExist, Library!Stored, Library!Shown, Library!Missing, Library!Dangling, Library!Links

(* It ends a request, or begins one that was found to be in order.          *)
LEMMA EndsAlone ==
  ASSUME NEW c, Library!Alone(c), NEW s, recipe_step'[c] = s, \A d \in Library!Clients \ {c} : recipe_step'[d] = recipe_step[d],
         s \notin {"error", "create", "update", "page", "refs", "endpoints"}
  PROVE  Library!Alone(c)'
BY DEF Library!Alone

LEMMA SlugsNow ==
  ASSUME UNCHANGED Library!world
  PROVE  /\ \A slug, i : Library!SlugTaken(slug, i)' = Library!SlugTaken(slug, i)
         /\ \A ts : Library!ToolsExist(ts)' = Library!ToolsExist(ts)
         /\ \A ls : Library!Missing(ls)' = Library!Missing(ls)
         /\ Library!Stored' = Library!Stored /\ Library!Dangling' = Library!Dangling
BY DEF Library!world, Library!SlugTaken, Library!ToolsExist, Library!Missing, Library!Stored, Library!Dangling, Library!Links

LEMMA ValidTools ==
  ASSUME NEW ts, Library!ToolsValid(ts)
  PROVE  Library!ToolsExist(ts)
BY DEF Library!ToolsValid, Library!ToolsExist, Library!Range

LEMMA BeginAlone ==
  ASSUME Library!RecipesAssumption, Library!IInv, NEW c \in Trainers, Library!Alone(c), NEW i, NEW b \in Library!Body,
         NEW how \in {"create", "update"}, NEW ok, Library!Begin(c, i, b, how, ok),
         ok => Library!ToolsExist(b.tools),
         ok /\ how = "create" => ~Library!SlugTaken(b.slug, Nothing),
         ok /\ how = "update" => i \in Library!Stored /\ ~Library!SlugTaken(b.slug, i)
  PROVE  Library!Alone(c)'
<1>1. UNCHANGED Library!world /\ c \in Library!Clients
  BY DEF Library!Begin, Library!Clients
<1>2. CASE ok
  <2>1. /\ recipe_step'[c] = how /\ \A d \in Library!Clients \ {c} : recipe_step'[d] = recipe_step[d]
    BY <1>1, <1>2, Others DEF Library!Begin, Library!Goto
  <2>2. body'[c] = b
    BY <1>1, <1>2, OtherBodies DEF Library!Begin
  <2>3. target'[c] = i
    BY <1>1, <1>2, Parts DEF Library!Begin, Domains
  <2>4. \A d \in Library!Clients \ {c} : recipe_step'[d] = "idle"
    BY <2>1 DEF Library!Alone
  <2>5. Library!ToolsExist(b.tools)'
    BY <1>1, <1>2 DEF Library!ToolsExist, Library!world
  <2>6. (how = "create" => ~Library!SlugTaken(b.slug, Nothing)') /\ (how = "update" => i \in Library!Stored' /\ ~Library!SlugTaken(b.slug, i)')
    BY <1>1, <1>2 DEF Library!SlugTaken, Library!world, Library!Stored
  <2>7. QED
    BY <2>1, <2>2, <2>3, <2>4, <2>5, <2>6 DEF Library!Alone, Library!SlugTaken, Library!ToolsExist
<1>3. CASE ~ok
  <2>1. /\ recipe_step'[c] = "refused" /\ \A d \in Library!Clients \ {c} : recipe_step'[d] = recipe_step[d]
    BY <1>1, <1>3, Others DEF Library!Begin, Library!Goto
  <2>2. QED
    BY <2>1, EndsAlone
<1>4. QED
  BY <1>2, <1>3

LEMMA NoSlug ==
  ASSUME Library!RecipesAssumption, Library!IInv, NEW i
  PROVE  ~Library!SlugTaken(Absent, i)
<1>1. \A j \in Library!Stored : recipes[j].slug \in RecipeSlugs
  BY Parts, StoredRecipe DEF Library!Stored, Library!Recipe
<1>2. QED
  BY <1>1 DEF Library!SlugTaken, Library!RecipesAssumption

LEMMA TrainsAlone ==
  ASSUME Library!RecipesAssumption, Library!IInv, NEW bodies \in SUBSET RecipeBodies, NEW c \in Trainers, Library!Alone(c),
         Library!Trains(c, bodies)
  PROVE  Library!Alone(c)' /\ Library!NewRefsExist
<1>0. TablesOK /\ c \in Library!Clients /\ RequestOK(c) /\ Library!Room
  BY Parts DEF Library!Clients
<1>1. ASSUME NEW s \in {"done", "refused"}, Library!Goto(c, s)
      PROVE  Library!Alone(c)'
  <2>1. /\ recipe_step'[c] = s /\ \A d \in Library!Clients \ {c} : recipe_step'[d] = recipe_step[d]
    BY <1>0, <1>1, Others DEF Library!Goto
  <2>2. QED
    BY <2>1, EndsAlone
<1>2. ASSUME NEW old, NEW new, Library!ChangeEndpoints(c, old, new)
      PROVE  Library!Alone(c)' /\ Library!NewRefsExist
  BY <1>1, <1>2 DEF Library!ChangeEndpoints, Library!NewRefsExist
<1>3. ASSUME NEW s, Library!DeleteServer(c, s)
      PROVE  Library!Alone(c)' /\ Library!NewRefsExist
  <2>1. Library!Goto(c, "done")
    BY <1>3 DEF Library!DeleteServer
  <2>2. /\ \A i \in RecipeIds \ Library!Stored : recipes'[i] = recipes[i]
        /\ \A i \in Library!Stored : recipes'[i].tools = Library!Without(recipes[i].tools, {s})
    BY <1>3, ServerGone
  <2>3. ASSUME NEW i \in Library!Stored
        PROVE  Library!Range(recipes'[i].tools) \subseteq Library!Range(recipes[i].tools)
    <3> DEFINE was == recipes[i].tools
    <3>1. Library!Range(Library!Without(was, {s})) = {r \in Library!Range(was) : r[1] \notin {s}}
      <4> HIDE DEF was
      <4>1. QED
        BY Left
    <3>2. QED
      BY <2>2, <3>1
  <2>4. Library!NewRefsExist
    BY <2>2, <2>3 DEF Library!NewRefsExist
  <2>5. QED
    BY <1>1, <2>1, <2>4
<1>4. ASSUME UNCHANGED recipes
      PROVE  Library!NewRefsExist
  BY <1>4 DEF Library!NewRefsExist
<1>5. ASSUME NEW b \in bodies, Library!BeginCreate(c, b)
      PROVE  Library!Alone(c)' /\ Library!NewRefsExist
  <2> DEFINE new == [slug |-> b.slug, published |-> Library!Or(b.published, FALSE), tools |-> Library!Or(b.tools, <<>>)]
             ok == ~Library!SlugTaken(b.slug, Nothing) /\ Library!ToolsValid(b.tools)
  <2>1. Library!Begin(c, Nothing, new, "create", ok) /\ b.slug # Absent
    BY <1>5 DEF Library!BeginCreate
  <2>2. new.tools = Library!Or(b.tools, <<>>) /\ new.slug = b.slug
    OBVIOUS
  <2>3. new \in Library!Body
    BY <2>1, Given DEF Library!Or, Library!Body
  <2>4. ok => Library!ToolsExist(new.tools)
    BY <2>2, ValidTools, NoTools DEF Library!Or, Library!ToolsExist
  <2>5. ok => ~Library!SlugTaken(new.slug, Nothing)
    BY <2>2
  <2>6. UNCHANGED recipes
    BY <2>1 DEF Library!Begin, Library!world
  <2> HIDE DEF new, ok
  <2>7. QED
    BY <1>4, <2>1, <2>3, <2>4, <2>5, <2>6, BeginAlone
<1>6. ASSUME NEW b \in bodies, NEW i, Library!BeginUpdate(c, i, b)
      PROVE  Library!Alone(c)' /\ Library!NewRefsExist
  <2> DEFINE ok == ~Library!SlugTaken(Library!Or(b.slug, recipes[i].slug), i) /\ Library!ToolsValid(b.tools)
  <2>1. Library!Begin(c, i, b, "update", ok) /\ i \in Library!Stored /\ b \in Library!Body
    BY <1>6, Given DEF Library!BeginUpdate
  <2>2. ok => Library!ToolsExist(b.tools)
    BY ValidTools
  <2>3. ok => ~Library!SlugTaken(b.slug, i)
    <3>1. CASE b.slug = Absent
      BY <3>1, NoSlug
    <3>2. CASE b.slug # Absent
      BY <3>2 DEF Library!Or
    <3>3. QED
      BY <3>1, <3>2
  <2>4. UNCHANGED recipes
    BY <2>1 DEF Library!Begin, Library!world
  <2> HIDE DEF ok
  <2>5. QED
    BY <1>4, <2>1, <2>2, <2>3, <2>4, BeginAlone
<1>7. ASSUME NEW b \in bodies, NEW i, Library!BeginSetTools(c, i, b)
      PROVE  Library!Alone(c)' /\ Library!NewRefsExist
  <2> DEFINE new == [slug |-> Absent, published |-> Absent, tools |-> b.tools]
  <2>1. Library!Begin(c, i, new, "update", Library!ToolsValid(b.tools)) /\ i \in Library!Stored
    BY <1>7 DEF Library!BeginSetTools
  <2>2. new \in Library!Body
    BY Given DEF Library!Body
  <2>3. Library!ToolsValid(b.tools) => Library!ToolsExist(new.tools)
    BY ValidTools
  <2>4. ~Library!SlugTaken(new.slug, i)
    BY NoSlug
  <2>5. UNCHANGED recipes
    BY <2>1 DEF Library!Begin, Library!world
  <2> HIDE DEF new
  <2>6. QED
    BY <1>4, <2>1, <2>2, <2>3, <2>4, <2>5, BeginAlone
<1>8. ASSUME NEW ts, Library!ToolsExist(ts)
      PROVE  Library!ServersPresent(ts)
  BY <1>0, <1>8 DEF Library!ToolsExist, Library!ServersPresent, Library!Range, TablesOK
<1>9. CASE Library!Create(c)
  <2>1. /\ recipe_step[c] = "create" /\ ~Library!SlugTaken(body[c].slug, Nothing) /\ Library!ToolsExist(body[c].tools)
        /\ c \in Library!Creating /\ body[c] \in Library!Recipe
    BY <1>0, <1>9 DEF Library!Create, Library!Alone, Library!Creating, RequestOK
  <2>2. Library!ServersPresent(body[c].tools)
    BY <2>1, <1>8
  <2>3. /\ recipes' = [recipes EXCEPT ![Library!Min(Library!Free)] = body[c]] /\ endpoints' = endpoints /\ Library!Goto(c, "done")
    BY <1>9, <2>1, <2>2 DEF Library!Create, Library!End
  <2>4. Library!Range(body[c].tools) \subseteq endpoints
    BY <2>1 DEF Library!ToolsExist, Library!Recipe, Library!RecipesAssumption
  <2>5. Library!Min(Library!Free) \in RecipeIds
    BY <1>0, <2>1, SomeIdIsFree DEF Library!Free
  <2> DEFINE i == Library!Min(Library!Free)
  <2>6. i \in RecipeIds /\ recipes' = [recipes EXCEPT ![i] = body[c]]
    BY <2>3, <2>5
  <2> HIDE DEF i
  <2>7. recipes'[i] = body[c] /\ \A j \in RecipeIds \ {i} : recipes'[j] = recipes[j]
    BY <1>0, <2>6 DEF TablesOK
  <2>8. Library!NewRefsExist
    BY <2>3, <2>4, <2>7 DEF Library!NewRefsExist
  <2>9. QED
    BY <1>1, <2>3, <2>8
<1>10. CASE Library!Update(c)
  <2>1. /\ target[c] \in Library!Stored /\ recipes' = [recipes EXCEPT ![target[c]] = Overwritten(c)]
        /\ Overwritten(c).tools = Library!Or(body[c].tools, recipes[target[c]].tools)
    BY <1>10, Overwrites
  <2>2. recipe_step[c] = "update" /\ Library!Goto(c, "done") /\ endpoints' = endpoints /\ Library!ToolsExist(body[c].tools)
    BY <1>10 DEF Library!Update, Library!End, Library!Alone
  <2> DEFINE i == target[c]
             x == Overwritten(c)
  <2>3. i \in RecipeIds /\ i \in Library!Stored /\ recipes' = [recipes EXCEPT ![i] = x]
    BY <2>1 DEF Library!Stored
  <2>4. x.tools = recipes[i].tools \/ Library!Range(x.tools) \subseteq endpoints
    BY <2>1, <2>2 DEF Library!Or, Library!ToolsExist
  <2> HIDE DEF i, x
  <2>5. recipes'[i] = x /\ \A j \in RecipeIds \ {i} : recipes'[j] = recipes[j]
    BY <1>0, <2>3 DEF TablesOK
  <2>6. Library!NewRefsExist
    BY <2>2, <2>3, <2>4, <2>5 DEF Library!NewRefsExist
  <2>7. QED
    BY <1>1, <2>2, <2>6
<1>11. CASE Library!UpdateFails(c)
  <2>1. /\ recipe_step[c] = "update" /\ target[c] \in Library!Stored /\ ~Library!SlugTaken(body[c].slug, target[c])
        /\ Library!ToolsExist(body[c].tools)
    BY <1>11 DEF Library!UpdateFails, Library!Alone
  <2>2. Library!ServersPresent(body[c].tools)
    BY <2>1, <1>8
  <2>3. QED
    BY <1>11, <2>1, <2>2 DEF Library!UpdateFails
<1>12. ASSUME NEW i, Library!Delete(c, i)
       PROVE  Library!Alone(c)' /\ Library!NewRefsExist
  <2>1. /\ i \in Library!Stored /\ recipes' = [recipes EXCEPT ![i] = Deleted] /\ Library!Goto(c, "done")
    BY <1>12 DEF Library!Delete
  <2>2. recipes'[i] = Deleted /\ \A j \in RecipeIds \ {i} : recipes'[j] = recipes[j]
    BY <1>0, <2>1 DEF TablesOK, Library!Stored
  <2>3. Library!NewRefsExist
    BY <2>2 DEF Library!NewRefsExist
  <2>4. QED
    BY <1>1, <2>1, <2>3
<1>13. QED
  BY <1>2, <1>3, <1>5, <1>6, <1>7, <1>9, <1>10, <1>11, <1>12 DEF Library!Trains

(* A trainer's step is the last one of no report.                           *)
LEMMA TrainsExact ==
  ASSUME Library!IInv, NEW c \in Trainers, NEW bodies, Library!Trains(c, bodies)
  PROVE  Library!ReportExact
BY TrainsGo DEF Library!ReportExact, Library!Clients

LEMMA ReadsAlone ==
  ASSUME Library!RecipesAssumption, Library!IInv, NEW c \in Readers, Library!Alone(c), NEW few, Library!Reads(c, few)
  PROVE  Library!Alone(c)' /\ Library!NewRefsExist /\ Library!ReportExact
<1>0. /\ c \in Library!Clients /\ Domains /\ \A d \in Library!Clients \ {c} : recipe_step'[d] = "idle"
      /\ UNCHANGED Library!world /\ \A d \in Readers \ {c} : recipe_step[d] = "idle"
  BY ReadsGo, Parts DEF Library!Alone, Library!Clients
<1>1. Library!NewRefsExist
  BY <1>0 DEF Library!NewRefsExist, Library!world
<1>2. Library!ReportExact
  <2>1. ASSUME recipe_step[c] = "endpoints", recipe_step'[c] = "reported"
        PROVE  issues[c] = Library!Dangling
    <3>1. pending[c] = {}
      BY <2>1, ReportsLast
    <3>2. issues[c] \cup Library!Missing(pending[c]) = Library!Dangling
      BY <2>1 DEF Library!Alone
    <3>3. QED
      BY <3>1, <3>2 DEF Library!Missing
  <2>2. QED
    BY <1>0, <2>1 DEF Library!ReportExact
<1>3. ASSUME recipe_step'[c] \in {"missing", "shown", "reported"}
      PROVE  Library!Alone(c)'
  BY <1>0, <1>3 DEF Library!Alone
<1>4. Library!Stored' = Library!Stored /\ Library!Dangling' = Library!Dangling
  BY <1>0, WorldKept
<1>5. ASSUME NEW slug, Library!Page(c, slug)
      PROVE  Library!Alone(c)'
  <2>1. CASE Library!Goto(c, "missing")
    BY <1>0, <1>3, <2>1, Others DEF Library!Goto
  <2>2. CASE \E i \in Library!Visible(slug) :
               /\ target' = [target EXCEPT ![c] = i]
               /\ public' = [public EXCEPT ![c] = IF recipes[i].published THEN {recipes[i].tools} ELSE {}]
               /\ Library!Goto(c, "page")
    <3>1. PICK i \in Library!Visible(slug) :
            /\ target' = [target EXCEPT ![c] = i]
            /\ public' = [public EXCEPT ![c] = IF recipes[i].published THEN {recipes[i].tools} ELSE {}]
            /\ Library!Goto(c, "page")
      BY <2>2
    <3>2. i \in Library!Stored /\ recipes[i].published
      BY DEF Library!Visible
    <3>3. target'[c] = i /\ public'[c] = {recipes[i].tools}
      BY <1>0, <3>1, <3>2 DEF Domains
    <3>4. recipe_step'[c] = "page"
      BY <1>0, <3>1, Others DEF Library!Goto
    <3>5. target'[c] \in Library!Stored' /\ Library!Shown(c)' \in public'[c]
      BY <1>0, <1>4, <3>2, <3>3 DEF Library!Shown, Library!world
    <3>6. QED
      BY <1>0, <3>4, <3>5 DEF Library!Alone
  <2>3. QED
    BY <1>5, <2>1, <2>2 DEF Library!Page
<1>6. CASE Library!PageTools(c)
  <2>1. recipe_step'[c] = "shown"
    BY <1>0, <1>6, Others DEF Library!PageTools, Library!End, Library!Goto
  <2>2. QED
    BY <1>1, <1>2, <1>3, <2>1
<1>7. CASE Library!BeginValidate(c)
  <2>1. recipe_step'[c] = "refs"
    BY <1>0, <1>7, Others DEF Library!BeginValidate, Library!Goto
  <2>2. target'[c] = Library!Stored /\ issues'[c] = {}
    BY <1>0, <1>7 DEF Library!BeginValidate, Domains
  <2>3. QED
    <3>1. target'[c] = Library!Stored' /\ issues'[c] = {} /\ recipe_step'[c] = "refs"
      BY <1>4, <2>1, <2>2
    <3>2. \A d \in Library!Clients \ {c} : recipe_step'[d] = "idle"
      BY <1>0
    <3>3. QED
      BY <1>1, <1>2, <3>1, <3>2 DEF Library!Alone
<1>8. CASE Library!ReadRefs(c)
  <2> DEFINE ls == {l \in Library!Links : l[1] \in Library!Stored /\ <<l[2], l[3]>> \in Library!Range(recipes[l[1]].tools)}
  <2>1. recipe_step'[c] = "endpoints"
    BY <1>0, <1>8, Others DEF Library!ReadRefs, Library!Goto
  <2>2. issues[c] = {} /\ target[c] = Library!Stored
    BY <1>8 DEF Library!ReadRefs, Library!Alone
  <2>3. issues'[c] = {} /\ pending'[c] = ls
    BY <1>0, <1>8, <2>2 DEF Library!ReadRefs, Domains
  <2>4. {l \in ls : <<l[2], l[3]>> \notin endpoints} = Library!Dangling
    BY DEF Library!Dangling, Library!Links
  <2> HIDE DEF ls
  <2>5. Library!Missing(pending[c])' = Library!Dangling
    BY <1>0, <2>3, <2>4 DEF Library!Missing, Library!world
  <2>6. QED
    <3>1. issues'[c] \cup Library!Missing(pending[c])' = Library!Dangling' /\ recipe_step'[c] = "endpoints"
      BY <1>4, <2>1, <2>3, <2>5
    <3>2. \A d \in Library!Clients \ {c} : recipe_step'[d] = "idle"
      BY <1>0
    <3>3. QED
      BY <1>1, <1>2, <3>1, <3>2 DEF Library!Alone
<1>9. ASSUME NEW s, Library!ValidateServer(c, s)
      PROVE  Library!Alone(c)'
  <2> DEFINE ls == {l \in pending[c] : l[2] = s}
  <2>1. recipe_step[c] = "endpoints" /\ recipe_step'[c] = "endpoints"
    BY <1>9 DEF Library!ValidateServer
  <2>2. issues'[c] = issues[c] \cup Library!Missing(ls) /\ pending'[c] = pending[c] \ ls
    BY <1>0, <1>9 DEF Library!ValidateServer, Domains
  <2>3. issues[c] \cup Library!Missing(pending[c]) = Library!Dangling
    BY <2>1 DEF Library!Alone
  <2>4. Library!Missing(pending[c])' = {l \in pending[c] \ ls : <<l[2], l[3]>> \notin endpoints}
    BY <1>0, <2>2 DEF Library!Missing, Library!world
  <2>5. issues'[c] \cup Library!Missing(pending[c])' = Library!Dangling
    BY <2>2, <2>3, <2>4 DEF Library!Missing
  <2>6. QED
    BY <1>0, <1>4, <2>1, <2>5 DEF Library!Alone
<1>10. CASE Library!Report(c)
  <2>1. recipe_step'[c] = "reported"
    BY <1>0, <1>10, Others DEF Library!Report, Library!Goto
  <2>2. QED
    BY <1>1, <1>2, <1>3, <2>1
<1>11. QED
  BY <1>1, <1>2, <1>5, <1>6, <1>7, <1>8, <1>9, <1>10 DEF Library!Reads

-------------------------------------------------------------------------------
(* LlmEndpoint.                                                             *)

LEMMA Numbers ==
  ASSUME Llm!LlmAssumption
  PROVE  /\ MaxId \in Nat /\ MaxId >= 1
         /\ Llm!TypeOK => nextId \in Nat /\ nextId >= 1 /\ nextId <= MaxId + 1
<1>1. MaxId \in Nat /\ MaxId # 0
  BY DEF Llm!LlmAssumption
<1>2. Llm!TypeOK => nextId \in 1 .. MaxId + 1
  BY DEF Llm!TypeOK
<1>3. QED
  BY <1>1, <1>2

LEMMA LlmInitHolds == ASSUME Llm!LlmAssumption, Llm!Init PROVE Llm!IInv
<1>1. Llm!TypeOK
  BY Numbers DEF Llm!Init, Llm!TypeOK, Llm!Clients
<1>2. Llm!LoggedOnce
  BY DEF Llm!Init, Llm!LoggedOnce, Llm!Clients, Llm!Statuses
<1>3. (\A c \in Writers : Llm!WriterOK(c)) /\ (\A c \in Callers : Llm!CallerOK(c))
  BY DEF Llm!Init, Llm!WriterOK, Llm!CallerOK, Llm!Clients
<1>4. Llm!Shaped
  BY <1>3, Numbers DEF Llm!Init, Llm!Shaped
<1>5. QED
  BY <1>1, <1>2, <1>4 DEF Llm!IInv

(* The row, its rules and the callers in progress, when the tables stay.    *)
LlmTablesKept == UNCHANGED <<llm, rules, nextId>>

CallersKept ==
  /\ \A d \in Callers :
       llm_step'[d] = llm_step[d] /\ llm_body'[d] = llm_body[d] /\ read'[d] = read[d]
  /\ UNCHANGED <<answer, logged>>

(* A change of the tables that keeps what callers rely on.                  *)
Changed(row, rs) ==
  /\ Llm!Witness(row, rs)
  /\ row \in Llm!Row \cup {Absent} /\ rs \in (RuleSets \ Malformed) \cup {<<>>}
  /\ nextId' \in nextId .. MaxId + 1
  /\ row = Absent => rs = <<>> /\ nextId' <= MaxId
  /\ row # Absent =>
       /\ row.id \in 1 .. MaxId /\ row.id < nextId'
       /\ IF llm = Absent THEN row.id = nextId ELSE row.id = llm.id

LEMMA CallersSee ==
  ASSUME Llm!LlmAssumption, Llm!IInv, NEW row, NEW rs, Changed(row, rs), CallersKept
  PROVE  /\ \A d \in Callers : Llm!CallerOK(d)'
         /\ seen' = [d \in Callers |-> seen'[d]]
<1> DEFINE saw(d) == CASE Llm!Idle(d) \/ llm_step[d] \in {"upstream", "log"} -> {}
                       [] ~Llm!Idle(d) /\ read[d].mode = "mock" -> seen[d] \cup {rs}
                       [] OTHER -> seen[d] \cup {row}
<1>1. seen' = [d \in Callers |-> saw(d)] /\ llm' = row /\ rules' = rs
  BY DEF Changed, Llm!Witness
<1>2. seen' = [d \in Callers |-> seen'[d]]
  BY <1>1
<1>3. ASSUME NEW d \in Callers
      PROVE  Llm!CallerOK(d)'
  <2>1. Llm!CallerOK(d)
    BY DEF Llm!IInv, Llm!Shaped
  <2>2. /\ llm_step'[d] = llm_step[d] /\ read'[d] = read[d] /\ seen'[d] = saw(d)
        /\ llm_body'[d] = llm_body[d] /\ answer'[d] = answer[d]
    BY <1>1 DEF CallersKept
  <2>3. CASE llm_step[d] \in {"authorize", "mock", "rules", "send"}
    <3>1. /\ read[d] \in Llm!Row /\ read[d].id < nextId
          /\ IF read[d].mode = "mock"
               THEN seen[d] \subseteq RuleSets \cup {<<>>} /\ (IF Llm!Exists(read[d].id) THEN rules ELSE <<>>) \in seen[d]
               ELSE read[d] \in seen[d]
      BY <2>1, <2>3 DEF Llm!CallerOK
    <3>2. ~Llm!Idle(d) /\ llm_step[d] \notin {"upstream", "log"}
      BY <2>3 DEF Llm!Idle, Llm!Busy
    <3>3. nextId \in Nat /\ nextId' \in Nat /\ nextId <= nextId' /\ read[d].id \in Nat
      BY <3>1, Numbers DEF Changed, Llm!IInv, Llm!Row
    <3>4. read'[d].id < nextId'
      BY <2>2, <3>1, <3>3
    <3>5. CASE read[d].mode = "mock"
      <4>1. seen'[d] = seen[d] \cup {rs}
        BY <2>2, <3>2, <3>5
      <4>2. seen'[d] \subseteq RuleSets \cup {<<>>}
        BY <3>1, <3>5, <4>1 DEF Changed
      <4>3. (IF Llm!Exists(read[d].id)' THEN rules' ELSE <<>>) \in seen'[d]
        <5>1. CASE row # Absent /\ row.id = read[d].id
          <6>1. rules' = rs /\ rs \in seen'[d]
            BY <1>1, <4>1
          <6>2. Llm!Exists(read[d].id)'
            BY <1>1, <2>2, <5>1 DEF Llm!Exists
          <6>3. QED
            BY <6>1, <6>2
        <5>2. CASE row = Absent
          BY <1>1, <5>2, <4>1 DEF Llm!Exists, Changed
        <5>3. CASE row # Absent /\ row.id # read[d].id
          <6>1. ~Llm!Exists(read[d].id)
            BY <5>3, <3>1, <3>3 DEF Llm!Exists, Changed
          <6>2. <<>> \in seen[d]
            BY <6>1, <3>1, <3>5
          <6>3. ~Llm!Exists(read[d].id)'
            BY <1>1, <2>2, <5>3 DEF Llm!Exists
          <6>4. QED
            BY <6>2, <6>3, <4>1
        <5>4. QED
          BY <5>1, <5>2, <5>3
      <4>4. Llm!Exists(read[d].id)' = (llm' # Absent /\ llm'.id = read'[d].id)
        BY DEF Llm!Exists
      <4>5. QED
        BY <2>1, <2>2, <2>3, <3>1, <3>4, <3>5, <4>2, <4>3, <4>4 DEF Llm!CallerOK, Llm!Exists
    <3>6. CASE read[d].mode # "mock"
      <4>1. seen'[d] = seen[d] \cup {row}
        BY <2>2, <3>2, <3>6
      <4>2. QED
        BY <2>1, <2>2, <2>3, <3>1, <3>4, <3>6, <4>1 DEF Llm!CallerOK
    <3>7. QED
      BY <3>5, <3>6
  <2>4. CASE llm_step[d] \notin {"authorize", "mock", "rules", "send"}
    BY <2>1, <2>2, <2>4 DEF Llm!CallerOK
  <2>5. QED
    BY <2>3, <2>4
<1>4. QED
  BY <1>2, <1>3

LEMMA CallersStay ==
  ASSUME Llm!LlmAssumption, Llm!IInv, CallersKept, LlmTablesKept, seen' = seen
  PROVE  /\ \A d \in Callers : Llm!CallerOK(d)'
         /\ seen' = [d \in Callers |-> seen'[d]]
<1>1. (\A d \in Callers : Llm!CallerOK(d)) /\ seen = [d \in Callers |-> seen[d]]
  BY DEF Llm!IInv, Llm!Shaped
<1>2. ASSUME NEW d \in Callers
      PROVE  Llm!CallerOK(d)'
  <2>1. /\ llm_step'[d] = llm_step[d] /\ read'[d] = read[d] /\ seen'[d] = seen[d]
        /\ llm_body'[d] = llm_body[d] /\ answer'[d] = answer[d]
        /\ nextId' = nextId /\ rules' = rules
    BY <1>2 DEF CallersKept, LlmTablesKept
  <2>2. Llm!Exists(read[d].id)' = Llm!Exists(read[d].id)
    BY <2>1 DEF Llm!Exists, LlmTablesKept
  <2>3. Llm!CallerOK(d)
    BY <1>1
  <2>4. QED
    BY <2>1, <2>2, <2>3 DEF Llm!CallerOK
<1>3. QED
  BY <1>1, <1>2

(* Every step of an administrator replaces what is known of one request.    *)
LEMMA WriterKeeps ==
  ASSUME Llm!LlmAssumption, Llm!IInv, NEW c \in Writers, NEW s, NEW b, NEW r,
         llm_step' = [llm_step EXCEPT ![c] = s], llm_body' = [llm_body EXCEPT ![c] = b],
         read' = [read EXCEPT ![c] = r], UNCHANGED <<answer, logged>>,
         s \notin {"authorize", "mock", "rules", "send", "upstream", "log"},
         s \in {"insert", "update"} => b \in LlmBodies,
         s = "responses" => b \in RuleSets \ Malformed,
         s \in {"update", "responses"} => r \in Llm!Row,
         (LlmTablesKept /\ seen' = seen) \/ (\E row, rs : Changed(row, rs))
  PROVE  Llm!IInv'
<1>1. c \in Llm!Clients /\ (\A d \in Callers : d \in Llm!Clients /\ d # c)
  BY DEF Llm!Clients, Llm!LlmAssumption
<1>2. /\ llm_step = [x \in Llm!Clients |-> llm_step[x]] /\ llm_body = [x \in Llm!Clients |-> llm_body[x]]
      /\ read = [x \in Llm!Clients |-> read[x]]
  BY DEF Llm!IInv, Llm!Shaped
<1>3. /\ llm_step' = [x \in Llm!Clients |-> llm_step'[x]] /\ llm_step'[c] = s
      /\ \A d \in Llm!Clients \ {c} : llm_step'[d] = llm_step[d]
  BY <1>1, <1>2, OneEntry
<1>4. /\ llm_body' = [x \in Llm!Clients |-> llm_body'[x]] /\ llm_body'[c] = b
      /\ \A d \in Llm!Clients \ {c} : llm_body'[d] = llm_body[d]
  BY <1>1, <1>2, OneEntry
<1>5. /\ read' = [x \in Llm!Clients |-> read'[x]] /\ read'[c] = r
      /\ \A d \in Llm!Clients \ {c} : read'[d] = read[d]
  BY <1>1, <1>2, OneEntry
<1>6. CallersKept
  BY <1>1, <1>3, <1>4, <1>5 DEF CallersKept
<1>7. (\A d \in Callers : Llm!CallerOK(d)') /\ seen' = [d \in Callers |-> seen'[d]]
  BY <1>6, CallersSee, CallersStay
<1>8. \A d \in Writers : Llm!WriterOK(d)'
  BY <1>3, <1>4, <1>5 DEF Llm!IInv, Llm!Shaped, Llm!WriterOK, Llm!Clients
<1>9. Llm!LoggedOnce'
  BY <1>6 DEF Llm!IInv, Llm!LoggedOnce, CallersKept, Llm!Idle
<1>10. /\ llm' \in Llm!Row \cup {Absent} /\ (llm' = Absent => nextId' <= MaxId /\ rules' = <<>>)
       /\ llm' # Absent => llm'.id < nextId' /\ llm'.id \in 1 .. MaxId
       /\ nextId' \in 1 .. MaxId + 1 /\ rules' \in (RuleSets \ Malformed) \cup {<<>>}
  <2>1. CASE LlmTablesKept
    BY <2>1 DEF LlmTablesKept, Llm!IInv, Llm!TypeOK, Llm!Shaped
  <2>2. CASE \E row, rs : Changed(row, rs)
    <3>1. PICK row, rs : Changed(row, rs)
      BY <2>2
    <3>2. nextId \in Nat /\ nextId >= 1 /\ MaxId \in Nat
      BY Numbers DEF Llm!IInv
    <3>3. /\ llm' = row /\ rules' = rs /\ row \in Llm!Row \cup {Absent}
          /\ rs \in (RuleSets \ Malformed) \cup {<<>>} /\ nextId' \in nextId .. MaxId + 1
          /\ row = Absent => rs = <<>> /\ nextId' <= MaxId
          /\ row # Absent => row.id \in 1 .. MaxId /\ row.id < nextId'
      BY <3>1 DEF Changed, Llm!Witness
    <3>4. nextId' \in 1 .. MaxId + 1
      BY <3>2, <3>3
    <3>5. QED
      BY <3>3, <3>4
  <2>3. QED
    BY <2>1, <2>2
<1>11. Llm!TypeOK'
  BY <1>6, <1>10 DEF Llm!TypeOK, Llm!IInv, Llm!Row, CallersKept
<1>12. answer' = [x \in Llm!Clients |-> answer'[x]] /\ logged' = [x \in Callers |-> logged'[x]]
  BY DEF Llm!IInv, Llm!Shaped
<1>13. Llm!Shaped'
  BY <1>3, <1>4, <1>5, <1>7, <1>8, <1>10, <1>12 DEF Llm!Shaped
<1>14. QED
  BY <1>9, <1>11, <1>13 DEF Llm!IInv

LEMMA OrIs ==
  /\ \A given, stored : given = Absent => Llm!Or(given, stored) = stored
  /\ \A given, stored : given # Absent => Llm!Or(given, stored) = given
BY DEF Llm!Or

LEMMA FreshRow ==
  ASSUME Llm!LlmAssumption, NEW b \in LlmBodies, nextId \in Nat
  PROVE  Llm!Fresh(b) \in Llm!Row /\ Llm!Fresh(b).id = nextId /\ Llm!Fresh(b) # Absent
<1>1. /\ b.mode \in {"mock", "proxy", Absent} /\ b.url \in Urls \cup {Absent} /\ b.key \in UpstreamKeys \cup {Absent}
  BY DEF Llm!LlmAssumption, Llm!Settings
<1>2. Llm!Or(b.mode, "mock") \in {"mock", "proxy"}
  BY <1>1 DEF Llm!Or
<1>3. Llm!Or(b.url, "") \in Urls /\ Llm!Or(b.key, "") \in UpstreamKeys
  BY <1>1 DEF Llm!Or, Llm!LlmAssumption
<1>4. QED
  <2>1. Llm!Fresh(b) \in Llm!Row /\ Llm!Fresh(b).id = nextId
    BY <1>2, <1>3 DEF Llm!Fresh, Llm!Row
  <2>2. QED
    BY <2>1 DEF Llm!LlmAssumption

(* What an update leaves.                                                   *)
Updated(b) ==
  [id |-> llm.id, mode |-> Llm!Or(b.mode, llm.mode), url |-> Llm!Or(b.url, llm.url),
   key |-> Llm!NewKey(b, llm.key)]

LEMMA UpdatedRow ==
  ASSUME Llm!LlmAssumption, NEW b \in LlmBodies, llm \in Llm!Row
  PROVE  Updated(b) \in Llm!Row /\ Updated(b).id = llm.id /\ Updated(b) # Absent
<1>1. /\ b.mode \in {"mock", "proxy", Absent} /\ b.url \in Urls \cup {Absent} /\ b.key \in UpstreamKeys \cup {Absent}
      /\ b.clear \in BOOLEAN
  BY DEF Llm!LlmAssumption, Llm!Settings
<1>2. llm.id \in Nat /\ llm.mode \in {"mock", "proxy"} /\ llm.url \in Urls /\ llm.key \in UpstreamKeys
  BY DEF Llm!Row
<1>3. Llm!Or(b.mode, llm.mode) \in {"mock", "proxy"} /\ Llm!Or(b.url, llm.url) \in Urls
  BY <1>1, <1>2 DEF Llm!Or
<1>4. Llm!NewKey(b, llm.key) \in UpstreamKeys
  <2>1. CASE b.clear
    BY <2>1 DEF Llm!NewKey, Llm!LlmAssumption
  <2>2. CASE ~b.clear /\ b.key = ""
    BY <2>2, <1>2 DEF Llm!NewKey
  <2>3. CASE ~b.clear /\ b.key # ""
    <3>1. Llm!NewKey(b, llm.key) = Llm!Or(b.key, llm.key)
      BY <2>3 DEF Llm!NewKey
    <3>2. QED
      BY <3>1, <1>1, <1>2 DEF Llm!Or
  <2>4. QED
    BY <1>1, <2>1, <2>2, <2>3
<1>5. QED
  <2>1. Updated(b) \in Llm!Row /\ Updated(b).id = llm.id
    BY <1>2, <1>3, <1>4 DEF Updated, Llm!Row
  <2>2. QED
    BY <2>1 DEF Llm!LlmAssumption

LEMMA LlmBeginCreateKeeps ==
  ASSUME Llm!LlmAssumption, Llm!IInv, NEW c, NEW b \in LlmBodies, Llm!BeginCreate(c, b)
  PROVE  Llm!IInv'
<1>1. c \in Writers /\ LlmTablesKept /\ seen' = seen
  BY DEF Llm!BeginCreate, Llm!BeginWriter, Llm!Unwitnessed, LlmTablesKept
<1>2. \E s \in {"refused", "insert"} :
        /\ llm_step' = [llm_step EXCEPT ![c] = s] /\ llm_body' = [llm_body EXCEPT ![c] = b]
        /\ read' = [read EXCEPT ![c] = Nothing] /\ UNCHANGED <<answer, logged>>
  BY DEF Llm!BeginCreate, Llm!BeginWriter, Llm!Goto
<1>3. QED
  BY <1>1, <1>2, WriterKeeps

LEMMA LlmBeginUpdateKeeps ==
  ASSUME Llm!LlmAssumption, Llm!IInv, NEW c, NEW b \in LlmBodies, Llm!BeginUpdate(c, b)
  PROVE  Llm!IInv'
<1>1. c \in Writers /\ LlmTablesKept /\ seen' = seen /\ llm \in Llm!Row
  BY DEF Llm!BeginUpdate, Llm!BeginWriter, Llm!Unwitnessed, LlmTablesKept, Llm!IInv, Llm!Shaped
<1>2. \E s \in {"refused", "update"} :
        /\ llm_step' = [llm_step EXCEPT ![c] = s] /\ llm_body' = [llm_body EXCEPT ![c] = b]
        /\ read' = [read EXCEPT ![c] = llm] /\ UNCHANGED <<answer, logged>>
  BY DEF Llm!BeginUpdate, Llm!BeginWriter, Llm!Goto
<1>3. QED
  BY <1>1, <1>2, WriterKeeps

LEMMA BeginResponsesKeeps ==
  ASSUME Llm!LlmAssumption, Llm!IInv, NEW c, NEW rs \in RuleSets, Llm!BeginResponses(c, rs)
  PROVE  Llm!IInv'
<1>1. c \in Writers /\ LlmTablesKept /\ seen' = seen /\ llm \in Llm!Row
  BY DEF Llm!BeginResponses, Llm!BeginWriter, Llm!Unwitnessed, LlmTablesKept, Llm!IInv, Llm!Shaped
<1>2. \E s \in {"refused", "responses"} :
        /\ llm_step' = [llm_step EXCEPT ![c] = s] /\ llm_body' = [llm_body EXCEPT ![c] = rs]
        /\ read' = [read EXCEPT ![c] = llm] /\ UNCHANGED <<answer, logged>>
        /\ s = "responses" => rs \notin Malformed
  BY DEF Llm!BeginResponses, Llm!BeginWriter, Llm!Goto
<1>3. QED
  BY <1>1, <1>2, WriterKeeps

(* A request of an administrator that ends.                                 *)
LEMMA EndWriterKeeps ==
  ASSUME Llm!LlmAssumption, Llm!IInv, NEW c \in Writers, NEW how \in {"refused", "error", "done"},
         Llm!EndWriter(c, how),
         (LlmTablesKept /\ seen' = seen) \/ (\E row, rs : Changed(row, rs))
  PROVE  Llm!IInv'
<1>1. /\ llm_step' = [llm_step EXCEPT ![c] = how] /\ llm_body' = [llm_body EXCEPT ![c] = Nothing]
      /\ read' = [read EXCEPT ![c] = Nothing] /\ UNCHANGED <<answer, logged>>
  BY DEF Llm!EndWriter, Llm!Goto
<1>2. QED
  BY <1>1, WriterKeeps

LEMMA IdsNow ==
  ASSUME Llm!LlmAssumption, Llm!IInv
  PROVE  /\ nextId \in Nat /\ nextId \in nextId .. MaxId + 1
         /\ llm # Absent => llm \in Llm!Row /\ llm.id \in 1 .. MaxId /\ llm.id < nextId
         /\ rules \in (RuleSets \ Malformed) \cup {<<>>}
<1>1. nextId \in Nat /\ nextId \in nextId .. MaxId + 1
  BY Numbers DEF Llm!IInv
<1>2. QED
  BY <1>1 DEF Llm!IInv, Llm!Shaped, Llm!TypeOK

LEMMA InsertChanges ==
  ASSUME Llm!LlmAssumption, Llm!IInv, NEW c \in Writers, llm_step[c] = "insert", llm = Absent,
         Llm!Witness(Llm!Fresh(llm_body[c]), <<>>), nextId' = nextId + 1
  PROVE  Changed(Llm!Fresh(llm_body[c]), <<>>)
<1>1. llm_body[c] \in LlmBodies /\ nextId \in Nat /\ nextId \in 1 .. MaxId
  <2>1. nextId \in Nat /\ nextId >= 1 /\ nextId <= MaxId
    BY Numbers DEF Llm!IInv, Llm!Shaped
  <2>2. llm_body[c] \in LlmBodies
    BY DEF Llm!IInv, Llm!Shaped, Llm!WriterOK
  <2>3. QED
    BY <2>1, <2>2, Numbers
<1>2. /\ Llm!Fresh(llm_body[c]) \in Llm!Row /\ Llm!Fresh(llm_body[c]).id = nextId /\ Llm!Fresh(llm_body[c]) # Absent
  BY <1>1, FreshRow
<1>3. nextId' \in nextId .. MaxId + 1 /\ nextId < nextId'
  BY <1>1, Numbers
<1>4. QED
  BY <1>1, <1>2, <1>3 DEF Changed

LEMMA UpdateChanges ==
  ASSUME Llm!LlmAssumption, Llm!IInv, NEW c \in Writers, llm_step[c] = "update", llm # Absent,
         Llm!Witness(Updated(llm_body[c]), rules), nextId' = nextId
  PROVE  Changed(Updated(llm_body[c]), rules)
<1>1. /\ llm_body[c] \in LlmBodies /\ nextId \in nextId .. MaxId + 1 /\ llm \in Llm!Row
      /\ llm.id \in 1 .. MaxId /\ llm.id < nextId /\ rules \in (RuleSets \ Malformed) \cup {<<>>}
  BY IdsNow DEF Llm!IInv, Llm!Shaped, Llm!WriterOK
<1>2. /\ Updated(llm_body[c]) \in Llm!Row /\ Updated(llm_body[c]).id = llm.id /\ Updated(llm_body[c]) # Absent
  BY <1>1, UpdatedRow
<1>3. QED
  BY <1>1, <1>2 DEF Changed

LEMMA ResponsesChange ==
  ASSUME Llm!LlmAssumption, Llm!IInv, NEW c \in Writers, llm_step[c] = "responses", llm # Absent,
         Llm!Witness(llm, llm_body[c]), nextId' = nextId
  PROVE  Changed(llm, llm_body[c])
<1>1. /\ llm_body[c] \in RuleSets \ Malformed /\ nextId \in nextId .. MaxId + 1 /\ llm \in Llm!Row
      /\ llm.id \in 1 .. MaxId /\ llm.id < nextId
  BY IdsNow DEF Llm!IInv, Llm!Shaped, Llm!WriterOK
<1>2. QED
  BY <1>1 DEF Changed

LEMMA DeleteChanges ==
  ASSUME Llm!LlmAssumption, Llm!IInv, nextId <= MaxId, Llm!Witness(Absent, <<>>), nextId' = nextId
  PROVE  Changed(Absent, <<>>)
BY IdsNow DEF Changed, Llm!IInv

LEMMA AdministersKeep ==
  ASSUME Llm!LlmAssumption, Llm!IInv, NEW bodies \in SUBSET LlmBodies, NEW rulesets \in SUBSET RuleSets,
         NEW c \in Writers, Llm!Administers(c, bodies, rulesets)
  PROVE  Llm!IInv'
<1>1. CASE \E b \in bodies : Llm!BeginCreate(c, b) \/ Llm!BeginUpdate(c, b)
  BY <1>1, LlmBeginCreateKeeps, LlmBeginUpdateKeeps
<1>2. CASE \E rs \in rulesets : Llm!BeginResponses(c, rs)
  BY <1>2, BeginResponsesKeeps
<1>3. CASE Llm!Insert(c)
  <2>1. CASE llm # Absent /\ Llm!EndWriter(c, "error") /\ Llm!Unwitnessed /\ UNCHANGED nextId
    BY <2>1, EndWriterKeeps DEF Llm!Unwitnessed, LlmTablesKept
  <2>2. CASE llm = Absent /\ Llm!Witness(Llm!Fresh(llm_body[c]), <<>>) /\ nextId' = nextId + 1 /\ Llm!EndWriter(c, "done")
    BY <1>3, <2>2, InsertChanges, EndWriterKeeps DEF Llm!Insert
  <2>3. QED
    BY <1>3, <2>1, <2>2 DEF Llm!Insert
<1>4. CASE Llm!Update(c)
  <2>1. CASE Llm!EndWriter(c, "refused") /\ Llm!Unwitnessed
    BY <1>4, <2>1, EndWriterKeeps DEF Llm!Unwitnessed, LlmTablesKept, Llm!Update
  <2>2. CASE Llm!Exists(read[c].id) /\ Llm!Witness(Updated(llm_body[c]), rules) /\ Llm!EndWriter(c, "done")
    BY <1>4, <2>2, UpdateChanges, EndWriterKeeps DEF Llm!Update, Llm!Exists
  <2>3. QED
    BY <1>4, <2>1, <2>2 DEF Llm!Update, Updated
<1>5. CASE Llm!Delete(c)
  BY <1>5, DeleteChanges, EndWriterKeeps DEF Llm!Delete
<1>6. CASE Llm!SetResponses(c)
  <2>1. CASE Llm!EndWriter(c, IF llm_body[c] = <<>> THEN "refused" ELSE "error") /\ Llm!Unwitnessed
    BY <1>6, <2>1, EndWriterKeeps DEF Llm!Unwitnessed, LlmTablesKept, Llm!SetResponses
  <2>2. CASE Llm!Exists(read[c].id) /\ Llm!Witness(llm, llm_body[c]) /\ Llm!EndWriter(c, "done")
    BY <1>6, <2>2, ResponsesChange, EndWriterKeeps DEF Llm!SetResponses, Llm!Exists
  <2>3. QED
    BY <1>6, <2>1, <2>2 DEF Llm!SetResponses
<1>7. QED
  BY <1>1, <1>2, <1>3, <1>4, <1>5, <1>6 DEF Llm!Administers

(* The step of a caller replaces what is known of its request.              *)
OneCaller(c) ==
  /\ LlmTablesKept
  /\ llm_step' = [x \in Llm!Clients |-> llm_step'[x]] /\ llm_body' = [x \in Llm!Clients |-> llm_body'[x]]
  /\ read' = [x \in Llm!Clients |-> read'[x]] /\ answer' = [x \in Llm!Clients |-> answer'[x]]
  /\ logged' = [x \in Callers |-> logged'[x]] /\ seen' = [x \in Callers |-> seen'[x]]
  /\ \A d \in Llm!Clients \ {c} :
       llm_step'[d] = llm_step[d] /\ llm_body'[d] = llm_body[d] /\ read'[d] = read[d] /\ answer'[d] = answer[d]
  /\ \A d \in Callers \ {c} : logged'[d] = logged[d] /\ seen'[d] = seen[d]

LEMMA OneOfThem ==
  ASSUME Llm!LlmAssumption, NEW c \in Callers
  PROVE  /\ c \in Llm!Clients /\ Writers \subseteq Llm!Clients \ {c}
         /\ Callers \ {c} \subseteq Llm!Clients \ {c}
BY DEF Llm!LlmAssumption, Llm!Clients

LEMMA CallerKeeps ==
  ASSUME Llm!LlmAssumption, Llm!IInv, NEW c \in Callers, OneCaller(c), Llm!CallerOK(c)',
         logged'[c] = IF llm_step'[c] \in Llm!Statuses THEN <<llm_step'[c]>> ELSE <<>>,
         answer'[c] # Nothing => llm_step'[c] \in {"ok", "upstream", "log"}
  PROVE  Llm!IInv'
<1>1. ASSUME NEW d \in Callers \ {c}
      PROVE  Llm!CallerOK(d)'
  <2>1. Llm!CallerOK(d) /\ d \in Llm!Clients \ {c}
    BY OneOfThem DEF Llm!IInv, Llm!Shaped
  <2>2. /\ llm_step'[d] = llm_step[d] /\ read'[d] = read[d] /\ seen'[d] = seen[d]
        /\ llm_body'[d] = llm_body[d] /\ answer'[d] = answer[d]
        /\ llm' = llm /\ rules' = rules /\ nextId' = nextId
    BY <2>1 DEF OneCaller, LlmTablesKept
  <2>3. QED
    BY <2>1, <2>2 DEF Llm!CallerOK, Llm!Exists
<1>2. \A d \in Writers : Llm!WriterOK(d)'
  BY OneOfThem DEF Llm!IInv, Llm!Shaped, Llm!WriterOK, OneCaller
<1>3. Llm!LoggedOnce'
  BY OneOfThem DEF Llm!IInv, Llm!LoggedOnce, OneCaller
<1>4. Llm!TypeOK'
  BY OneOfThem DEF Llm!IInv, Llm!TypeOK, OneCaller, LlmTablesKept
<1>5. Llm!Shaped'
  BY <1>1, <1>2 DEF Llm!IInv, Llm!Shaped, OneCaller, LlmTablesKept
<1>6. QED
  BY <1>3, <1>4, <1>5 DEF Llm!IInv

(* What is settled, or ends, without a row in the log.                      *)
LEMMA SettledKeeps ==
  ASSUME Llm!LlmAssumption, Llm!IInv, NEW c \in Callers, ~Llm!Idle(c),
         NEW s \in {"log", "gone", "error"}, NEW b, NEW what,
         s = "log" => b \in Llm!Statuses, what # Nothing => s = "log" /\ b = "ok",
         llm_step' = [llm_step EXCEPT ![c] = s], llm_body' = [llm_body EXCEPT ![c] = b],
         answer' = [answer EXCEPT ![c] = what], read' = [read EXCEPT ![c] = Nothing],
         seen' = [seen EXCEPT ![c] = {}], UNCHANGED <<llm, rules, nextId, logged>>
  PROVE  Llm!IInv'
<1>1. /\ llm_step = [x \in Llm!Clients |-> llm_step[x]] /\ llm_body = [x \in Llm!Clients |-> llm_body[x]]
      /\ read = [x \in Llm!Clients |-> read[x]] /\ answer = [x \in Llm!Clients |-> answer[x]]
      /\ logged = [x \in Callers |-> logged[x]] /\ seen = [x \in Callers |-> seen[x]]
      /\ c \in Llm!Clients
  BY OneOfThem DEF Llm!IInv, Llm!Shaped
<1>2. /\ llm_step' = [x \in Llm!Clients |-> llm_step'[x]] /\ llm_step'[c] = s
      /\ \A d \in Llm!Clients \ {c} : llm_step'[d] = llm_step[d]
  BY <1>1, OneEntry
<1>3. /\ answer' = [x \in Llm!Clients |-> answer'[x]] /\ answer'[c] = what
      /\ \A d \in Llm!Clients \ {c} : answer'[d] = answer[d]
  BY <1>1, OneEntry
<1>4. /\ llm_body' = [x \in Llm!Clients |-> llm_body'[x]] /\ llm_body'[c] = b
      /\ \A d \in Llm!Clients \ {c} : llm_body'[d] = llm_body[d]
  BY <1>1, OneEntry
<1>5. /\ read' = [x \in Llm!Clients |-> read'[x]] /\ \A d \in Llm!Clients \ {c} : read'[d] = read[d]
  BY <1>1, OneEntry
<1>6. /\ seen' = [x \in Callers |-> seen'[x]] /\ \A d \in Callers \ {c} : seen'[d] = seen[d]
  BY <1>1, OneEntry
<1>7. OneCaller(c)
  BY <1>1, <1>2, <1>3, <1>4, <1>5, <1>6 DEF OneCaller, LlmTablesKept
<1>8. Llm!CallerOK(c)'
  BY <1>2, <1>3, <1>4 DEF Llm!CallerOK
<1>9. logged'[c] = <<>> /\ s \notin Llm!Statuses
  BY DEF Llm!IInv, Llm!LoggedOnce, Llm!Idle, Llm!Busy, Llm!Statuses
<1>10. QED
  BY <1>2, <1>3, <1>7, <1>8, <1>9, CallerKeeps

LEMMA SettleKeeps ==
  ASSUME Llm!LlmAssumption, Llm!IInv, NEW c \in Callers, ~Llm!Idle(c), NEW status \in Llm!Statuses,
         NEW what, what # Nothing => status = "ok", Llm!Settle(c, status, what)
  PROVE  Llm!IInv'
BY SettledKeeps DEF Llm!Settle, Llm!Goto

LEMMA UnloggedKeeps ==
  ASSUME Llm!LlmAssumption, Llm!IInv, NEW c \in Callers, ~Llm!Idle(c), NEW how \in {"gone", "error"},
         Llm!EndUnlogged(c, how)
  PROVE  Llm!IInv'
BY SettledKeeps DEF Llm!EndUnlogged, Llm!Goto

LEMMA LogKeeps ==
  ASSUME Llm!LlmAssumption, Llm!IInv, NEW c \in Callers, Llm!Log(c)
  PROVE  Llm!IInv'
<1>1. /\ llm_step = [x \in Llm!Clients |-> llm_step[x]] /\ llm_body = [x \in Llm!Clients |-> llm_body[x]]
      /\ answer = [x \in Llm!Clients |-> answer[x]] /\ logged = [x \in Callers |-> logged[x]]
      /\ c \in Llm!Clients /\ Llm!CallerOK(c)
  BY OneOfThem DEF Llm!IInv, Llm!Shaped
<1>2. /\ llm_step[c] = "log" /\ llm_body[c] \in Llm!Statuses /\ (answer[c] # Nothing => llm_body[c] = "ok")
      /\ logged[c] = <<>>
  BY <1>1 DEF Llm!Log, Llm!CallerOK, Llm!IInv, Llm!LoggedOnce, Llm!Statuses
<1>3. /\ llm_step' = [llm_step EXCEPT ![c] = llm_body[c]] /\ llm_body' = [llm_body EXCEPT ![c] = Nothing]
      /\ logged' = [logged EXCEPT ![c] = Append(logged[c], llm_body[c])]
      /\ UNCHANGED <<llm, rules, nextId, read, answer, seen>>
  BY DEF Llm!Log, Llm!Goto
<1>4. /\ llm_step' = [x \in Llm!Clients |-> llm_step'[x]] /\ llm_step'[c] = llm_body[c]
      /\ \A d \in Llm!Clients \ {c} : llm_step'[d] = llm_step[d]
  BY <1>1, <1>3, OneEntry
<1>5. /\ llm_body' = [x \in Llm!Clients |-> llm_body'[x]]
      /\ \A d \in Llm!Clients \ {c} : llm_body'[d] = llm_body[d]
  BY <1>1, <1>3, OneEntry
<1>6. /\ logged' = [x \in Callers |-> logged'[x]] /\ logged'[c] = Append(logged[c], llm_body[c])
      /\ \A d \in Callers \ {c} : logged'[d] = logged[d]
  BY <1>1, <1>3, OneEntry
<1>7. OneCaller(c)
  BY <1>1, <1>3, <1>4, <1>5, <1>6 DEF OneCaller, LlmTablesKept, Llm!IInv, Llm!Shaped
<1>8. Llm!CallerOK(c)'
  BY <1>2, <1>4 DEF Llm!CallerOK, Llm!Statuses
<1>9. logged'[c] = <<llm_step'[c]>> /\ (answer'[c] # Nothing => llm_step'[c] = "ok")
  BY <1>2, <1>3, <1>4, <1>6
<1>10. QED
  BY <1>2, <1>4, <1>7, <1>8, <1>9, CallerKeeps

(* A step of a request that reads, but keeps what it has read.              *)
LEMMA MovesOn ==
  ASSUME Llm!LlmAssumption, Llm!IInv, NEW c \in Callers, NEW s \in {"mock", "rules", "send"},
         llm_step[c] \in {"authorize", "mock"},
         s = IF read[c].mode = "mock" THEN s ELSE "send",
         s = "send" => read[c].mode # "mock",
         llm_step' = [llm_step EXCEPT ![c] = s],
         UNCHANGED <<llm, nextId, rules, llm_body, read, answer, logged, seen>>
  PROVE  Llm!IInv'
<1>1. llm_step = [x \in Llm!Clients |-> llm_step[x]] /\ c \in Llm!Clients /\ Llm!CallerOK(c)
  BY OneOfThem DEF Llm!IInv, Llm!Shaped
<1>2. /\ llm_step' = [x \in Llm!Clients |-> llm_step'[x]] /\ llm_step'[c] = s
      /\ \A d \in Llm!Clients \ {c} : llm_step'[d] = llm_step[d]
  BY <1>1, OneEntry
<1>3. OneCaller(c)
  BY <1>2 DEF OneCaller, LlmTablesKept, Llm!IInv, Llm!Shaped
<1>4. read[c].mode \in {"mock", "proxy"}
  BY <1>1 DEF Llm!CallerOK, Llm!Row
<1>5. Llm!CallerOK(c)'
  BY <1>1, <1>2, <1>4 DEF Llm!CallerOK, Llm!Exists
<1>6. answer[c] = Nothing
  BY <1>1 DEF Llm!IInv, Llm!TypeOK
<1>7. logged'[c] = <<>> /\ s \notin Llm!Statuses
  BY DEF Llm!IInv, Llm!LoggedOnce, Llm!Statuses
<1>8. QED
  BY <1>2, <1>3, <1>5, <1>6, <1>7, CallerKeeps

LEMMA LookupKeeps ==
  ASSUME Llm!LlmAssumption, Llm!IInv, NEW c, NEW p, Llm!Lookup(c, p)
  PROVE  Llm!IInv'
<1>1. /\ c \in Callers /\ LlmTablesKept /\ answer' = [answer EXCEPT ![c] = Nothing] /\ Llm!Idle(c)
  BY DEF Llm!Lookup, LlmTablesKept
<1>2. c \in Llm!Clients
  BY <1>1, OneOfThem
<1>3. /\ llm_step = [x \in Llm!Clients |-> llm_step[x]] /\ llm_body = [x \in Llm!Clients |-> llm_body[x]]
      /\ read = [x \in Llm!Clients |-> read[x]] /\ answer = [x \in Llm!Clients |-> answer[x]]
      /\ logged = [x \in Callers |-> logged[x]] /\ seen = [x \in Callers |-> seen[x]]
  BY DEF Llm!IInv, Llm!Shaped
<1>4. /\ answer' = [x \in Llm!Clients |-> answer'[x]] /\ answer'[c] = Nothing
      /\ \A d \in Llm!Clients \ {c} : answer'[d] = answer[d]
  BY <1>1, <1>2, <1>3, OneEntry
<1>5. /\ logged' = [x \in Callers |-> logged'[x]] /\ logged'[c] = <<>>
      /\ \A d \in Callers \ {c} : logged'[d] = logged[d]
  <2>1. logged' = [logged EXCEPT ![c] = <<>>]
    BY DEF Llm!Lookup
  <2>2. QED
    BY <1>1, <1>3, <2>1, OneEntry
<1>6. CASE llm = Absent
  <2>1. /\ llm_step' = [llm_step EXCEPT ![c] = "log"] /\ llm_body' = [llm_body EXCEPT ![c] = "not_found"]
        /\ UNCHANGED <<read, seen>>
    BY <1>6 DEF Llm!Lookup, Llm!Goto
  <2>2. /\ llm_step' = [x \in Llm!Clients |-> llm_step'[x]] /\ llm_step'[c] = "log"
        /\ \A d \in Llm!Clients \ {c} : llm_step'[d] = llm_step[d]
    BY <1>2, <1>3, <2>1, OneEntry
  <2>3. /\ llm_body' = [x \in Llm!Clients |-> llm_body'[x]] /\ llm_body'[c] = "not_found"
        /\ \A d \in Llm!Clients \ {c} : llm_body'[d] = llm_body[d]
    BY <1>2, <1>3, <2>1, OneEntry
  <2>4. OneCaller(c)
    BY <1>1, <1>3, <1>4, <1>5, <2>1, <2>2, <2>3 DEF OneCaller
  <2>5. Llm!CallerOK(c)'
    BY <1>4, <2>2, <2>3 DEF Llm!CallerOK, Llm!Statuses
  <2>6. QED
    BY <1>1, <1>4, <1>5, <2>2, <2>4, <2>5, CallerKeeps DEF Llm!Statuses
<1>7. CASE llm # Absent
  <2>0. DEFINE first == {IF llm.mode = "mock" THEN rules ELSE llm}
  <2>1. /\ llm_step' = [llm_step EXCEPT ![c] = "authorize"]
        /\ llm_body' = [llm_body EXCEPT ![c] = p] /\ read' = [read EXCEPT ![c] = llm]
        /\ seen' = [seen EXCEPT ![c] = first]
    BY <1>7 DEF Llm!Lookup, Llm!Goto
  <2>2. /\ llm_step' = [x \in Llm!Clients |-> llm_step'[x]] /\ llm_step'[c] = "authorize"
        /\ \A d \in Llm!Clients \ {c} : llm_step'[d] = llm_step[d]
    BY <1>2, <1>3, <2>1, OneEntry
  <2>3. /\ llm_body' = [x \in Llm!Clients |-> llm_body'[x]] /\ \A d \in Llm!Clients \ {c} : llm_body'[d] = llm_body[d]
    BY <1>2, <1>3, <2>1, OneEntry
  <2>4. /\ read' = [x \in Llm!Clients |-> read'[x]] /\ read'[c] = llm
        /\ \A d \in Llm!Clients \ {c} : read'[d] = read[d]
    BY <1>2, <1>3, <2>1, OneEntry
  <2>5. /\ seen' = [x \in Callers |-> seen'[x]] /\ seen'[c] = first
        /\ \A d \in Callers \ {c} : seen'[d] = seen[d]
    BY <1>1, <1>3, <2>1, OneEntry
  <2>6. OneCaller(c)
    BY <1>1, <1>4, <1>5, <2>2, <2>3, <2>4, <2>5 DEF OneCaller
  <2>7. llm \in Llm!Row /\ llm.id < nextId /\ rules \in RuleSets \cup {<<>>}
    BY <1>7, IdsNow
  <2>8. Llm!CallerOK(c)'
    BY <1>1, <1>7, <2>2, <2>4, <2>5, <2>7 DEF Llm!CallerOK, Llm!Exists, LlmTablesKept
  <2>9. QED
    BY <1>1, <1>4, <1>5, <2>2, <2>6, <2>8, CallerKeeps DEF Llm!Statuses
<1>8. QED
  BY <1>6, <1>7

LEMMA SendKeeps ==
  ASSUME Llm!LlmAssumption, Llm!IInv, NEW c \in Callers, llm_step[c] = "send",
         llm_step' = [llm_step EXCEPT ![c] = "upstream"], NEW what, answer' = [answer EXCEPT ![c] = what],
         seen' = [seen EXCEPT ![c] = {}], UNCHANGED <<llm, nextId, rules, llm_body, read, logged>>
  PROVE  Llm!IInv'
<1>1. /\ llm_step = [x \in Llm!Clients |-> llm_step[x]] /\ answer = [x \in Llm!Clients |-> answer[x]]
      /\ seen = [x \in Callers |-> seen[x]] /\ c \in Llm!Clients /\ Llm!CallerOK(c)
  BY OneOfThem DEF Llm!IInv, Llm!Shaped
<1>2. /\ llm_step' = [x \in Llm!Clients |-> llm_step'[x]] /\ llm_step'[c] = "upstream"
      /\ \A d \in Llm!Clients \ {c} : llm_step'[d] = llm_step[d]
  BY <1>1, OneEntry
<1>3. /\ answer' = [x \in Llm!Clients |-> answer'[x]]
      /\ \A d \in Llm!Clients \ {c} : answer'[d] = answer[d]
  BY <1>1, OneEntry
<1>4. /\ seen' = [x \in Callers |-> seen'[x]]
      /\ \A d \in Callers \ {c} : seen'[d] = seen[d]
  BY <1>1, OneEntry
<1>5. OneCaller(c)
  BY <1>2, <1>3, <1>4 DEF OneCaller, LlmTablesKept, Llm!IInv, Llm!Shaped
<1>6. Llm!CallerOK(c)'
  BY <1>1, <1>2 DEF Llm!CallerOK
<1>7. logged'[c] = <<>>
  BY DEF Llm!IInv, Llm!LoggedOnce, Llm!Statuses
<1>8. QED
  BY <1>2, <1>5, <1>6, <1>7, CallerKeeps DEF Llm!Statuses

LEMMA AsksKeep ==
  ASSUME Llm!LlmAssumption, Llm!IInv, NEW c \in Callers, Llm!Asks(c)
  PROVE  Llm!IInv'
<1>0. c \in Llm!Clients /\ Llm!CallerOK(c)
  BY DEF Llm!Clients, Llm!IInv, Llm!Shaped
<1>1. CASE \E p \in Probes : Llm!Lookup(c, p)
  BY <1>1, LookupKeeps
<1>2. CASE Llm!Authorize(c)
  <2>1. llm_step[c] = "authorize" /\ ~Llm!Idle(c)
    BY <1>2 DEF Llm!Authorize, Llm!Idle, Llm!Busy
  <2>2. CASE Llm!Settle(c, "unauthorized", Nothing)
    BY <2>1, <2>2, SettleKeeps DEF Llm!Statuses
  <2>3. CASE /\ Llm!Goto(c, IF read[c].mode = "mock" THEN "mock" ELSE "send")
             /\ UNCHANGED <<llm, nextId, rules, llm_body, read, answer, logged, seen>>
    BY <2>1, <2>3, MovesOn DEF Llm!Goto
  <2>4. QED
    BY <1>2, <2>2, <2>3 DEF Llm!Authorize
<1>3. CASE Llm!ReadAgain(c)
  <2>1. llm_step[c] = "mock" /\ ~Llm!Idle(c) /\ read[c].mode = "mock"
    BY <1>0, <1>3 DEF Llm!ReadAgain, Llm!CallerOK, Llm!Idle, Llm!Busy
  <2>2. CASE Llm!EndUnlogged(c, "gone")
    BY <2>1, <2>2, UnloggedKeeps
  <2>3. CASE Llm!Goto(c, "rules") /\ UNCHANGED <<llm, nextId, rules, llm_body, read, answer, logged, seen>>
    BY <2>1, <2>3, MovesOn DEF Llm!Goto
  <2>4. QED
    BY <1>3, <2>2, <2>3 DEF Llm!ReadAgain
<1>4. CASE Llm!AnswerFromRules(c)
  <2>1. ~Llm!Idle(c)
    BY <1>4 DEF Llm!AnswerFromRules, Llm!Idle, Llm!Busy
  <2>2. QED
    BY <1>4, <2>1, SettleKeeps DEF Llm!AnswerFromRules, Llm!Statuses
<1>5. CASE Llm!Send(c)
  <2>1. llm_step[c] = "send" /\ ~Llm!Idle(c)
    BY <1>5 DEF Llm!Send, Llm!Idle, Llm!Busy
  <2>2. CASE Llm!Settle(c, "400", Nothing)
    BY <2>1, <2>2, SettleKeeps DEF Llm!Statuses
  <2>3. CASE /\ Llm!Goto(c, "upstream") /\ answer' = [answer EXCEPT ![c] = Llm!ProxyTarget(c)]
             /\ seen' = [seen EXCEPT ![c] = {}]
             /\ UNCHANGED <<llm, nextId, rules, llm_body, read, logged>>
    BY <2>1, <2>3, SendKeeps DEF Llm!Goto
  <2>4. QED
    BY <1>5, <2>2, <2>3 DEF Llm!Send
<1>6. CASE Llm!Upstream(c)
  <2>1. ~Llm!Idle(c)
    BY <1>6 DEF Llm!Upstream, Llm!Idle, Llm!Busy
  <2>2. CASE \E status \in {"ok", "502", "429"} : Llm!Settle(c, status, Nothing)
    BY <2>1, <2>2, SettleKeeps DEF Llm!Statuses
  <2>3. QED
    BY <1>6, <2>1, <2>2, UnloggedKeeps DEF Llm!Upstream
<1>7. CASE Llm!Log(c)
  BY <1>7, LogKeeps
<1>8. CASE Llm!LogFails(c)
  <2>1. ~Llm!Idle(c)
    BY <1>8 DEF Llm!LogFails, Llm!Idle, Llm!Busy
  <2>2. QED
    BY <1>8, <2>1, UnloggedKeeps DEF Llm!LogFails
<1>9. QED
  BY <1>1, <1>2, <1>3, <1>4, <1>5, <1>6, <1>7, <1>8 DEF Llm!Asks

LEMMA LlmStutterKeeps ==
  ASSUME Llm!LlmAssumption, Llm!IInv, UNCHANGED Llm!vars
  PROVE  Llm!IInv'
BY DEF Llm!vars, Llm!IInv, Llm!TypeOK, Llm!LoggedOnce, Llm!Shaped, Llm!WriterOK, Llm!CallerOK, Llm!Idle, Llm!Exists

-------------------------------------------------------------------------------
(* What a step answers, and what it leaves of the key.                      *)

LEMMA LeastIsIn ==
  ASSUME NEW S \in SUBSET Nat, S # {}
  PROVE  \E m \in S : m = (CHOOSE i \in S : \A j \in S : i <= j) /\ \A j \in S : m <= j
<1>1. PICK m \in S : \A n \in S : <<n, m>> \notin OpToRel(<, Nat)
  BY NatLessThanWellFounded, WFMin
<1>2. \A n \in S : ~(n < m)
  BY <1>1 DEF OpToRel
<1>3. \A n \in S : m <= n
  BY <1>2
<1>4. QED
  BY <1>3, Zenon

LEMMA FirstIsFirst ==
  ASSUME NEW rs \in Seq(Llm!Rule), NEW p
  PROVE  \/ /\ Llm!FirstMatch(rs, p) = Fallback
            /\ \A i \in DOMAIN rs : p \notin rs[i].matches
         \/ \E i \in DOMAIN rs :
              /\ Llm!FirstMatch(rs, p) = rs[i].text /\ p \in rs[i].matches
              /\ \A j \in 1 .. i - 1 : p \notin rs[j].matches
<1> DEFINE matching == {i \in DOMAIN rs : p \in rs[i].matches}
<1>1. Len(rs) \in Nat /\ DOMAIN rs = 1 .. Len(rs)
  OBVIOUS
<1>2. CASE matching = {}
  BY <1>2 DEF Llm!FirstMatch
<1>3. CASE matching # {}
  <2>1. matching \in SUBSET Nat
    BY <1>1
  <2>2. PICK m \in matching : /\ m = (CHOOSE i \in matching : \A j \in matching : i <= j)
                              /\ \A j \in matching : m <= j
    <3> HIDE DEF matching
    <3>1. QED
      BY <1>3, <2>1, LeastIsIn
  <2>3. Llm!FirstMatch(rs, p) = rs[m].text
    BY <1>3, <2>2 DEF Llm!FirstMatch
  <2>4. m \in DOMAIN rs /\ p \in rs[m].matches
    BY <2>2
  <2>5. \A j \in 1 .. m - 1 : p \notin rs[j].matches
    <3>1. \A j \in 1 .. m - 1 : j \in DOMAIN rs /\ ~(m <= j)
      BY <1>1, <2>4
    <3>2. QED
      BY <3>1, <2>2
  <2>6. QED
    BY <2>3, <2>4, <2>5
<1>4. QED
  BY <1>2, <1>3

LEMMA OnlyItsStep ==
  ASSUME Llm!LlmAssumption, Llm!IInv, NEW c \in Llm!Clients, NEW s, llm_step' = [llm_step EXCEPT ![c] = s]
  PROVE  \A d \in Llm!Clients \ {c} : llm_step'[d] = llm_step[d]
BY DEF Llm!IInv, Llm!Shaped

LEMMA AdministersGo ==
  ASSUME Llm!LlmAssumption, Llm!IInv, NEW bodies, NEW rulesets, NEW c \in Writers,
         Llm!Administers(c, bodies, rulesets)
  PROVE  \A d \in Callers : llm_step'[d] = llm_step[d]
<1>1. \E s : Llm!Goto(c, s)
  <2>1. CASE \E b \in bodies : Llm!BeginCreate(c, b) \/ Llm!BeginUpdate(c, b)
    BY <2>1, Zenon DEF Llm!BeginCreate, Llm!BeginUpdate, Llm!BeginWriter
  <2>2. CASE Llm!Insert(c)
    BY <2>2, Zenon DEF Llm!Insert, Llm!EndWriter
  <2>3. CASE Llm!Update(c)
    BY <2>3, Zenon DEF Llm!Update, Llm!EndWriter
  <2>4. CASE Llm!Delete(c)
    BY <2>4, Zenon DEF Llm!Delete, Llm!EndWriter
  <2>5. CASE \E rs \in rulesets : Llm!BeginResponses(c, rs)
    BY <2>5, Zenon DEF Llm!BeginResponses, Llm!BeginWriter
  <2>6. CASE Llm!SetResponses(c)
    BY <2>6, Zenon DEF Llm!SetResponses, Llm!EndWriter
  <2>7. QED
    BY <2>1, <2>2, <2>3, <2>4, <2>5, <2>6 DEF Llm!Administers
<1>2. c \in Llm!Clients /\ (\A d \in Callers : d \in Llm!Clients \ {c})
  BY DEF Llm!Clients, Llm!LlmAssumption
<1>3. QED
  BY <1>1, <1>2, OnlyItsStep DEF Llm!Goto

LEMMA AsksGo ==
  ASSUME Llm!LlmAssumption, Llm!IInv, NEW c \in Callers, Llm!Asks(c)
  PROVE  \A d \in Callers \ {c} : llm_step'[d] = llm_step[d]
<1>1. \E s : Llm!Goto(c, s)
  <2>1. CASE \E p \in Probes : Llm!Lookup(c, p)
    BY <2>1, Zenon DEF Llm!Lookup
  <2>2. CASE Llm!Authorize(c)
    BY <2>2, Zenon DEF Llm!Authorize, Llm!Settle
  <2>3. CASE Llm!ReadAgain(c)
    BY <2>3, Zenon DEF Llm!ReadAgain, Llm!EndUnlogged
  <2>4. CASE Llm!AnswerFromRules(c)
    BY <2>4, Zenon DEF Llm!AnswerFromRules, Llm!Settle
  <2>5. CASE Llm!Send(c)
    BY <2>5, Zenon DEF Llm!Send, Llm!Settle
  <2>6. CASE Llm!Upstream(c)
    BY <2>6, Zenon DEF Llm!Upstream, Llm!Settle, Llm!EndUnlogged
  <2>7. CASE Llm!Log(c) \/ Llm!LogFails(c)
    BY <2>7, Zenon DEF Llm!Log, Llm!LogFails, Llm!EndUnlogged
  <2>8. QED
    BY <2>1, <2>2, <2>3, <2>4, <2>5, <2>6, <2>7 DEF Llm!Asks
<1>2. c \in Llm!Clients /\ (\A d \in Callers : d \in Llm!Clients)
  BY DEF Llm!Clients
<1>3. QED
  BY <1>1, <1>2, OnlyItsStep DEF Llm!Goto

LEMMA KeyAfter ==
  ASSUME Llm!LlmAssumption, NEW b \in LlmBodies, NEW stored, Llm!NewKey(b, stored) # stored
  PROVE  b.clear \/ b.key \in UpstreamKeys \ {""}
<1>1. b.key \in UpstreamKeys \cup {Absent} /\ b.clear \in BOOLEAN
  BY DEF Llm!LlmAssumption, Llm!Settings
<1>2. CASE ~b.clear /\ b.key # ""
  <2>1. Llm!NewKey(b, stored) = Llm!Or(b.key, stored)
    BY <1>2 DEF Llm!NewKey
  <2>2. QED
    BY <1>1, <1>2, <2>1 DEF Llm!Or
<1>3. CASE ~b.clear /\ b.key = ""
  BY <1>3 DEF Llm!NewKey
<1>4. QED
  BY <1>1, <1>2, <1>3

LEMMA AdministersFaithful ==
  ASSUME Llm!LlmAssumption, Llm!IInv, NEW bodies, NEW rulesets, NEW c \in Writers,
         Llm!Administers(c, bodies, rulesets)
  PROVE  Llm!OneRuleSet /\ Llm!OneConfiguration /\ Llm!KeyKept
<1>1. Llm!OneRuleSet /\ Llm!OneConfiguration
  BY AdministersGo DEF Llm!OneRuleSet, Llm!OneConfiguration
<1>2. ASSUME llm # Absent, llm' # Absent, llm'.key # llm.key
      PROVE  llm_step[c] = "update" /\ llm_step'[c] = "done" /\ (llm_body[c].clear \/ llm_body[c].key \in UpstreamKeys \ {""})
  <2>1. CASE Llm!Update(c)
    <3>1. Llm!Exists(read[c].id) /\ Llm!Witness(Updated(llm_body[c]), rules) /\ Llm!EndWriter(c, "done")
      BY <1>2, <2>1 DEF Llm!Update, Llm!Unwitnessed, Updated
    <3>2. llm'.key = Llm!NewKey(llm_body[c], llm.key)
      BY <3>1 DEF Llm!Witness, Updated
    <3>3. llm_body[c] \in LlmBodies /\ llm_step[c] = "update"
      BY <2>1 DEF Llm!Update, Llm!IInv, Llm!Shaped, Llm!WriterOK
    <3>4. llm_step'[c] = "done"
      BY <3>1 DEF Llm!EndWriter, Llm!Goto, Llm!IInv, Llm!Shaped, Llm!Clients
    <3>5. QED
      BY <1>2, <3>2, <3>3, <3>4, KeyAfter
  <2>2. CASE \E b \in bodies : Llm!BeginCreate(c, b) \/ Llm!BeginUpdate(c, b)
    BY <1>2, <2>2 DEF Llm!BeginCreate, Llm!BeginUpdate, Llm!BeginWriter, Llm!Unwitnessed
  <2>3. CASE Llm!Insert(c)
    BY <1>2, <2>3 DEF Llm!Insert, Llm!Unwitnessed
  <2>4. CASE Llm!Delete(c)
    BY <1>2, <2>4 DEF Llm!Delete, Llm!Witness
  <2>5. CASE \E rs \in rulesets : Llm!BeginResponses(c, rs)
    BY <1>2, <2>5 DEF Llm!BeginResponses, Llm!BeginWriter, Llm!Unwitnessed
  <2>6. CASE Llm!SetResponses(c)
    BY <1>2, <2>6 DEF Llm!SetResponses, Llm!Witness, Llm!Unwitnessed
  <2>7. QED
    BY <2>1, <2>2, <2>3, <2>4, <2>5, <2>6 DEF Llm!Administers
<1>3. QED
  BY <1>1, <1>2 DEF Llm!KeyKept

LEMMA AsksFaithful ==
  ASSUME Llm!LlmAssumption, Llm!IInv, NEW c \in Callers, Llm!Asks(c)
  PROVE  Llm!OneRuleSet /\ Llm!OneConfiguration /\ Llm!KeyKept
<1>0. /\ c \in Llm!Clients /\ Llm!CallerOK(c) /\ llm_step = [x \in Llm!Clients |-> llm_step[x]]
      /\ answer = [x \in Llm!Clients |-> answer[x]]
  BY DEF Llm!Clients, Llm!IInv, Llm!Shaped
<1>1. llm' = llm
  BY DEF Llm!Asks, Llm!Lookup, Llm!Authorize, Llm!ReadAgain, Llm!AnswerFromRules, Llm!Send, Llm!Upstream,
         Llm!Log, Llm!LogFails, Llm!Settle, Llm!EndUnlogged
<1>2. ASSUME llm_step[c] = "rules", llm_step'[c] = "log"
      PROVE  \E rs \in seen[c] :
               \/ answer'[c] = Fallback /\ \A i \in DOMAIN rs : llm_body[c] \notin rs[i].matches
               \/ \E i \in DOMAIN rs :
                    /\ answer'[c] = rs[i].text /\ llm_body[c] \in rs[i].matches
                    /\ \A j \in 1 .. i - 1 : llm_body[c] \notin rs[j].matches
  <2> DEFINE rs == IF Llm!Exists(read[c].id) THEN rules ELSE <<>>
  <2>1. Llm!AnswerFromRules(c)
    BY <1>2 DEF Llm!Asks, Llm!Lookup, Llm!Authorize, Llm!ReadAgain, Llm!Send, Llm!Upstream, Llm!Log, Llm!LogFails,
                Llm!Idle, Llm!Busy
  <2>2. answer'[c] = Llm!FirstMatch(rs, llm_body[c])
    BY <1>0, <2>1 DEF Llm!AnswerFromRules, Llm!Settle
  <2>3. rs \in seen[c] /\ rs \in Seq(Llm!Rule)
    <3>1. rs \in seen[c] /\ seen[c] \subseteq RuleSets \cup {<<>>}
      BY <1>0, <1>2 DEF Llm!CallerOK
    <3>2. <<>> \in Seq(Llm!Rule)
      OBVIOUS
    <3>3. QED
      BY <3>1, <3>2 DEF Llm!LlmAssumption
  <2> HIDE DEF rs
  <2>4. QED
    BY <2>2, <2>3, FirstIsFirst
<1>3. ASSUME llm_step[c] = "send", llm_step'[c] = "upstream"
      PROVE  \E row \in seen[c] \ {Absent} : row.url = answer'[c].url /\ row.key = answer'[c].key
  <2>1. Llm!Send(c)
    BY <1>3 DEF Llm!Asks, Llm!Lookup, Llm!Authorize, Llm!ReadAgain, Llm!AnswerFromRules, Llm!Upstream, Llm!Log,
                Llm!LogFails, Llm!Idle, Llm!Busy
  <2>2. answer'[c] = Llm!ProxyTarget(c)
    BY <1>0, <1>3, <2>1 DEF Llm!Send, Llm!Settle, Llm!Goto
  <2>3. read[c] \in seen[c] /\ read[c] # Absent
    BY <1>0, <1>3 DEF Llm!CallerOK, Llm!LlmAssumption
  <2>4. QED
    BY <2>2, <2>3 DEF Llm!ProxyTarget
<1>4. \A d \in Callers \ {c} : llm_step'[d] = llm_step[d]
  BY AsksGo
<1>5. Llm!OneRuleSet
  BY <1>2, <1>4 DEF Llm!OneRuleSet
<1>6. Llm!OneConfiguration
  BY <1>3, <1>4 DEF Llm!OneConfiguration
<1>7. QED
  BY <1>1, <1>5, <1>6 DEF Llm!KeyKept

LEMMA LlmStutterFaithful ==
  ASSUME UNCHANGED Llm!vars
  PROVE  Llm!OneRuleSet /\ Llm!OneConfiguration /\ Llm!KeyKept
BY DEF Llm!vars, Llm!OneRuleSet, Llm!OneConfiguration, Llm!KeyKept

-------------------------------------------------------------------------------
(* An administrator who is alone.                                           *)

LEMMA LlmInitAlone ==
  ASSUME Llm!LlmAssumption, Llm!Init, NEW c \in Llm!Clients
  PROVE  Llm!Alone(c)
BY DEF Llm!Init, Llm!Alone, Llm!ProxyHasUrl

LEMMA LlmStutterAlone ==
  ASSUME UNCHANGED Llm!vars, NEW c, Llm!Alone(c)
  PROVE  Llm!Alone(c)'
BY DEF Llm!vars, Llm!Alone, Llm!ProxyHasUrl, Llm!Valid, Llm!Fresh, Llm!Or

LEMMA AdministersAlone ==
  ASSUME Llm!LlmAssumption, Llm!IInv, NEW bodies \in SUBSET LlmBodies, NEW rulesets, NEW c \in Writers,
         Llm!Alone(c), Llm!Administers(c, bodies, rulesets)
  PROVE  Llm!Alone(c)'
<1>0. /\ c \in Llm!Clients /\ llm_step = [x \in Llm!Clients |-> llm_step[x]]
      /\ llm_body = [x \in Llm!Clients |-> llm_body[x]] /\ read = [x \in Llm!Clients |-> read[x]]
  BY DEF Llm!Clients, Llm!IInv, Llm!Shaped
<1>1. ASSUME NEW how \in {"refused", "done"}, Llm!EndWriter(c, how), Llm!ProxyHasUrl'
      PROVE  Llm!Alone(c)'
  <2>1. llm_step'[c] = how /\ \A d \in Llm!Clients \ {c} : llm_step'[d] = llm_step[d]
    BY <1>0, <1>1 DEF Llm!EndWriter, Llm!Goto
  <2>2. QED
    BY <1>1, <2>1 DEF Llm!Alone
<1>2. ASSUME NEW b, NEW row, NEW how \in {"refused", "insert", "update", "responses"},
             Llm!BeginWriter(c, b, row, how),
             how = "insert" => llm = Absent /\ Llm!Valid(Llm!Fresh(b).mode, Llm!Fresh(b).url),
             how \in {"update", "responses"} => llm # Absent /\ row = llm,
             how = "update" => Llm!Valid(Llm!Or(b.mode, llm.mode), Llm!Or(b.url, llm.url))
      PROVE  Llm!Alone(c)'
  <2>1. /\ llm_step'[c] = how /\ llm_body'[c] = b /\ read'[c] = row
        /\ \A d \in Llm!Clients \ {c} : llm_step'[d] = llm_step[d]
        /\ llm' = llm /\ nextId' = nextId
    BY <1>0, <1>2 DEF Llm!BeginWriter, Llm!Goto, Llm!Unwitnessed
  <2>2. Llm!Fresh(llm_body[c])' = Llm!Fresh(b)
    BY <2>1 DEF Llm!Fresh
  <2>3. Llm!ProxyHasUrl'
    BY <2>1 DEF Llm!Alone, Llm!ProxyHasUrl
  <2>4. QED
    BY <1>2, <2>1, <2>2, <2>3 DEF Llm!Alone, Llm!Valid, Llm!Or, Llm!Fresh
<1>3. ASSUME NEW b \in bodies, Llm!BeginCreate(c, b)
      PROVE  Llm!Alone(c)'
  <2>1. CASE Llm!SlugTaken \/ ~Llm!Valid(Llm!Fresh(b).mode, Llm!Fresh(b).url)
    <3>1. Llm!BeginWriter(c, b, Nothing, "refused")
      BY <1>3, <2>1 DEF Llm!BeginCreate
    <3>2. QED
      BY <3>1, <1>2
  <2>2. CASE ~Llm!SlugTaken /\ Llm!Valid(Llm!Fresh(b).mode, Llm!Fresh(b).url)
    <3>1. Llm!BeginWriter(c, b, Nothing, "insert")
      BY <1>3, <2>2 DEF Llm!BeginCreate
    <3>2. llm = Absent
      BY <2>2 DEF Llm!SlugTaken
    <3>3. QED
      BY <3>1, <3>2, <2>2, <1>2
  <2>3. QED
    BY <2>1, <2>2
<1>4. ASSUME NEW b \in bodies, Llm!BeginUpdate(c, b)
      PROVE  Llm!Alone(c)'
  <2>1. CASE ~Llm!Valid(Llm!Or(b.mode, llm.mode), Llm!Or(b.url, llm.url))
    <3>1. Llm!BeginWriter(c, b, llm, "refused")
      BY <1>4, <2>1 DEF Llm!BeginUpdate
    <3>2. QED
      BY <3>1, <1>2
  <2>2. CASE Llm!Valid(Llm!Or(b.mode, llm.mode), Llm!Or(b.url, llm.url))
    <3>1. Llm!BeginWriter(c, b, llm, "update") /\ llm # Absent
      BY <1>4, <2>2 DEF Llm!BeginUpdate
    <3>2. QED
      BY <3>1, <2>2, <1>2
  <2>3. QED
    BY <2>1, <2>2
<1>5. ASSUME NEW rs \in rulesets, Llm!BeginResponses(c, rs)
      PROVE  Llm!Alone(c)'
  <2>1. llm # Absent
    BY <1>5 DEF Llm!BeginResponses
  <2>2. Llm!BeginWriter(c, rs, llm, "refused") \/ Llm!BeginWriter(c, rs, llm, "responses")
    BY <1>5 DEF Llm!BeginResponses
  <2>3. QED
    BY <2>1, <2>2, <1>2
<1>6. CASE Llm!Insert(c)
  <2>1. llm' = Llm!Fresh(llm_body[c]) /\ Llm!EndWriter(c, "done") /\ Llm!Valid(Llm!Fresh(llm_body[c]).mode, Llm!Fresh(llm_body[c]).url)
    BY <1>6 DEF Llm!Insert, Llm!Alone, Llm!Witness
  <2>2. Llm!ProxyHasUrl'
    BY <2>1 DEF Llm!ProxyHasUrl, Llm!Valid
  <2>3. QED
    BY <2>1, <2>2, <1>1
<1>7. CASE Llm!Update(c)
  <2>1. Llm!Exists(read[c].id) /\ Llm!Valid(Llm!Or(llm_body[c].mode, llm.mode), Llm!Or(llm_body[c].url, llm.url))
    BY <1>7 DEF Llm!Update, Llm!Alone, Llm!Exists
  <2>2. llm' = Updated(llm_body[c]) /\ Llm!EndWriter(c, "done")
    BY <1>7, <2>1 DEF Llm!Update, Llm!Witness, Updated
  <2>3. Llm!ProxyHasUrl'
    BY <2>1, <2>2 DEF Llm!ProxyHasUrl, Llm!Valid, Updated
  <2>4. QED
    BY <2>2, <2>3, <1>1
<1>8. CASE Llm!Delete(c)
  BY <1>8, <1>1 DEF Llm!Delete, Llm!Witness, Llm!ProxyHasUrl
<1>9. CASE Llm!SetResponses(c)
  <2>1. Llm!Exists(read[c].id)
    BY <1>9 DEF Llm!SetResponses, Llm!Alone, Llm!Exists
  <2>2. llm' = llm /\ Llm!EndWriter(c, "done")
    BY <1>9, <2>1 DEF Llm!SetResponses, Llm!Witness
  <2>3. Llm!ProxyHasUrl'
    BY <2>2 DEF Llm!ProxyHasUrl, Llm!Alone
  <2>4. QED
    BY <2>2, <2>3, <1>1
<1>10. QED
  BY <1>3, <1>4, <1>5, <1>6, <1>7, <1>8, <1>9 DEF Llm!Administers

LEMMA LlmNoErrorAlone ==
  ASSUME Llm!LlmAssumption, NEW c \in Writers, Llm!Alone(c)
  PROVE  Llm!ProxyHasUrl /\ Llm!NoServerError
BY DEF Llm!Alone, Llm!NoServerError, Llm!Clients

-------------------------------------------------------------------------------
(* The composition.                                                         *)

OnServer == {"exports", "clones", "one user"}

OnCohort == {"resets", "one reset"}

(* What holds in every state of the scenes.                                 *)
Copied ==
  /\ scene \in OnServer \cup OnCohort
  /\ scene \in OnServer => Copy!IInv
  /\ scene = "one user" => Copy!Alone(Solo)
  /\ scene \in OnCohort => Cohorts!IInv
  /\ scene = "one reset" => Cohorts!Alone(Solo)

LEMMA Actors ==
  /\ Copy!PortabilityAssumption /\ Cohorts!CohortAssumption
  /\ Solo \in Exporters /\ Solo \in Editors /\ Solo \in Copy!Clients /\ Solo \in Cohorts!Clients
  /\ PairKeys \in SUBSET DatasetKeys /\ SoloKeys \in SUBSET DatasetKeys
  /\ PairRows \in SUBSET RowsOf /\ FewSlugs \in SUBSET CopySlugs
  /\ PairRowsets \in SUBSET (SUBSET TeamRows)
  /\ Owners \subseteq Cohorts!Clients /\ Resetters \subseteq Cohorts!Clients
BY CopiesAssumed DEF CopiesAssumption, Copy!Clients, Cohorts!Clients

LEMMA InitCopied == CopiesInit => Copied
BY Actors, CopyInitHolds, TeamInitHolds, CopyInitAlone, TeamInitAlone
   DEF CopiesInit, Copied, OnServer, OnCohort

(* What a step of each scene is.                                            *)
ServerStep ==
  \/ scene \in {"exports", "clones"} /\ \E c \in Editors : Copy!Edits(c, PairKeys, PairRows)
  \/ scene = "exports" /\ \E c \in Exporters : Copy!Exports(c, FewSlugs)
  \/ scene = "clones" /\ \E c \in Cloners : Copy!Clones(c, Targets)
  \/ scene = "one user" /\ Copy!Edits(Solo, SoloKeys, RowsOf)
  \/ scene = "one user" /\ Copy!Exports(Solo, FewSlugs)
  \/ UNCHANGED server

CohortStep ==
  \/ scene = "resets" /\ \E c \in Owners : Cohorts!Edits(c, PairRowsets)
  \/ scene = "resets" /\ \E c \in Resetters : Cohorts!Resets(c)
  \/ scene = "one reset" /\ Cohorts!Edits(Solo, SUBSET TeamRows)
  \/ scene = "one reset" /\ Cohorts!Resets(Solo)
  \/ UNCHANGED cohort

LEMMA Steps ==
  ASSUME [CopiesNext]_<<scene, server, cohort>>
  PROVE  UNCHANGED scene /\ ServerStep /\ CohortStep
BY Zenon DEF CopiesNext, Edited, ServerStep, CohortStep

LEMMA ServerSteps ==
  ASSUME Copied, ServerStep, scene \in OnServer
  PROVE  /\ Copy!IInv' /\ (scene = "one user" => Copy!Alone(Solo)')
         /\ Copy!AllClones /\ (scene = "one user" => Copy!RoundTrip)
<1>1. Copy!IInv /\ (scene = "one user" => Copy!Alone(Solo))
  BY DEF Copied
<1>2. ASSUME NEW c \in Editors, Copy!Edits(c, PairKeys, PairRows), scene # "one user"
      PROVE  Copy!IInv' /\ Copy!AllClones
  BY <1>1, <1>2, Actors, CopyEditsKeep, EditsFaithful
<1>3. ASSUME NEW c \in Exporters, Copy!Exports(c, FewSlugs), scene # "one user"
      PROVE  Copy!IInv' /\ Copy!AllClones
  BY <1>1, <1>3, Actors, ExportsKeep, ExportsCloneNothing
<1>4. ASSUME NEW c \in Cloners, Copy!Clones(c, Targets), scene # "one user"
      PROVE  Copy!IInv' /\ Copy!AllClones
  BY <1>1, <1>4, Actors, ClonesKeep, ClonesAreWhole
<1>5. CASE scene = "one user" /\ Copy!Edits(Solo, SoloKeys, RowsOf)
  BY <1>1, <1>5, Actors, CopyEditsKeep, EditsFaithful, CopyEditsAlone
<1>6. CASE scene = "one user" /\ Copy!Exports(Solo, FewSlugs)
  BY <1>1, <1>6, Actors, ExportsKeep, ExportsCloneNothing, ExportsAlone, ExportsFaithful
<1>7. CASE UNCHANGED server
  <2>1. UNCHANGED Copy!vars /\ UNCHANGED step
    BY <1>7 DEF server, Copy!vars
  <2>2. QED
    BY <1>1, <2>1, Actors, CopyStutterKeeps, CopyStutterAlone, StutterFaithful
<1>8. QED
  BY <1>2, <1>3, <1>4, <1>5, <1>6, <1>7 DEF ServerStep

LEMMA CohortSteps ==
  ASSUME Copied, CohortStep, scene \in OnCohort
  PROVE  /\ Cohorts!IInv' /\ (scene = "one reset" => Cohorts!Alone(Solo)')
         /\ Cohorts!ResetWhole /\ (scene = "one reset" => Cohorts!ResetComplete)
<1>1. Cohorts!IInv /\ (scene = "one reset" => Cohorts!Alone(Solo))
  BY DEF Copied
<1>2. ASSUME NEW c \in Owners, Cohorts!Edits(c, PairRowsets), scene # "one reset"
      PROVE  Cohorts!IInv' /\ Cohorts!ResetWhole
  BY <1>1, <1>2, Actors, TeamEditsKeep, EditsWhole
<1>3. ASSUME NEW c \in Resetters, Cohorts!Resets(c), scene # "one reset"
      PROVE  Cohorts!IInv' /\ Cohorts!ResetWhole
  BY <1>1, <1>3, Actors, ResetsKeep, ResetsWhole
<1>4. CASE scene = "one reset" /\ Cohorts!Edits(Solo, SUBSET TeamRows)
  BY <1>1, <1>4, Actors, TeamEditsKeep, EditsWhole, TeamEditsAlone
<1>5. CASE scene = "one reset" /\ Cohorts!Resets(Solo)
  BY <1>1, <1>5, Actors, ResetsKeep, ResetsWhole, ResetsAlone, ResetsComplete
<1>6. CASE UNCHANGED cohort
  <2>1. UNCHANGED Cohorts!vars
    BY <1>6 DEF cohort, Cohorts!vars
  <2>2. QED
    BY <1>1, <2>1, Actors, TeamStutterKeeps, TeamStutterAlone, StutterWhole
<1>7. QED
  BY <1>2, <1>3, <1>4, <1>5, <1>6 DEF CohortStep

LEMMA NextCopied ==
  ASSUME Copied, [CopiesNext]_<<scene, server, cohort>>
  PROVE  Copied'
<1>1. UNCHANGED scene /\ ServerStep /\ CohortStep
  BY Steps
<1>2. scene \in OnServer => Copy!IInv' /\ (scene = "one user" => Copy!Alone(Solo)')
  BY <1>1, ServerSteps
<1>3. scene \in OnCohort => Cohorts!IInv' /\ (scene = "one reset" => Cohorts!Alone(Solo)')
  BY <1>1, CohortSteps
<1>4. QED
  BY <1>1, <1>2, <1>3 DEF Copied, OnServer, OnCohort

LEMMA AlwaysCopied == CopiesSpec => []Copied
BY InitCopied, NextCopied, PTL DEF CopiesSpec

-------------------------------------------------------------------------------
(* The theorems.                                                            *)

(* Whatever is edited while a server is exported or cloned, by anyone who   *)
(* may: what is read so far has keys of its own, and one dataset at most    *)
(* lacks its seed rows.                                                     *)
THEOREM PortabilityInductive == Copy!Spec => []Copy!IInv
<1>1. Copy!Init => Copy!IInv
  BY Actors, CopyInitHolds
<1>2. Copy!IInv /\ [Copy!Next]_(Copy!vars) => Copy!IInv'
  BY Actors, CopyEditsKeep, ExportsKeep, ClonesKeep, CopyStutterKeeps DEF Copy!Next
<1>3. QED
  BY <1>1, <1>2, PTL DEF Copy!Spec

(* Every clone of bulk_clone_server is made, from one moment of the server, *)
(* or none is, whoever exports, clones and edits beside it.                 *)
THEOREM ClonesAllOrNone == Copy!Spec => [][Copy!AllClones]_(Copy!vars)
<1>1. Copy!IInv /\ [Copy!Next]_(Copy!vars) => [Copy!AllClones]_(Copy!vars)
  BY Actors, EditsFaithful, ExportsCloneNothing, ClonesAreWhole DEF Copy!Next
<1>2. QED
  BY <1>1, PortabilityInductive, PTL DEF Copy!Spec

(* The datasets that a reset has listed are those that it has reset and     *)
(* those to come, and rows belong to servers that exist.                    *)
THEOREM CohortInductive == Cohorts!Spec => []Cohorts!IInv
<1>1. Cohorts!Init => Cohorts!IInv
  BY Actors, TeamInitHolds
<1>2. Cohorts!IInv /\ [Cohorts!Next]_(Cohorts!vars) => Cohorts!IInv'
  BY Actors, TeamEditsKeep, ResetsKeep, TeamStutterKeeps DEF Cohorts!Next
<1>3. QED
  BY <1>1, <1>2, PTL DEF Cohorts!Spec

(* Of a bulk reset others see all or nothing, whoever edits, deletes and    *)
(* resets beside it.                                                        *)
THEOREM ResetsAllOrNothing == Cohorts!Spec => [][Cohorts!ResetWhole]_(Cohorts!vars)
<1>1. Cohorts!IInv /\ [Cohorts!Next]_(Cohorts!vars) => [Cohorts!ResetWhole]_(Cohorts!vars)
  BY Actors, EditsWhole, ResetsWhole DEF Cohorts!Next
<1>2. QED
  BY <1>1, CohortInductive, PTL DEF Cohorts!Spec

(* A bundle, and a copy made from it, names only what it contains, and a    *)
(* server that is restored is never shown as drifted.                       *)
THEOREM WholeCopies == CopiesSpec => []CopiesAreWhole
<1>1. Copied => CopiesAreWhole
  <2> SUFFICES ASSUME Copied PROVE CopiesAreWhole
    OBVIOUS
  <2>1. scene \in OnServer => Copy!TypeOK /\ Copy!SelfContained /\ Copy!CopiesWhole
    BY BundlesAreWhole DEF Copied, Copy!IInv
  <2>2. scene \in OnCohort => Cohorts!TypeOK /\ Cohorts!DriftIsReal
    BY Actors, DriftHolds DEF Copied, Cohorts!IInv
  <2>3. QED
    BY <2>1, <2>2 DEF CopiesAreWhole, OnServer, OnCohort
<1>2. QED
  BY <1>1, AlwaysCopied, PTL

(* Clones are all made or none, and an export of a server that is left      *)
(* alone is imported as it was, less the sensitive fields.                  *)
THEOREM FaithfulCopies == CopiesSpec => CopiesAreFaithful
<1>1. Copied /\ [CopiesNext]_<<scene, server, cohort>> =>
        [/\ scene = "clones" => Copy!AllClones
         /\ scene = "one user" => Copy!RoundTrip]_server
  BY Steps, ServerSteps DEF OnServer
<1>2. QED
  BY <1>1, AlwaysCopied, PTL DEF CopiesSpec, CopiesAreFaithful

(* A bulk reset restores all that it listed or nothing, and, while nobody   *)
(* interferes, what the prefix matches and no more.                         *)
THEOREM WholeResets == CopiesSpec => ResetsAreWhole
<1>1. Copied /\ [CopiesNext]_<<scene, server, cohort>> =>
        [/\ scene \in {"resets", "one reset"} => Cohorts!ResetWhole
         /\ scene = "one reset" => Cohorts!ResetComplete]_cohort
  BY Steps, CohortSteps DEF OnCohort
<1>2. QED
  BY <1>1, AlwaysCopied, PTL DEF CopiesSpec, ResetsAreWhole

-------------------------------------------------------------------------------
(* The composition of MCAdmin.                                              *)

OnLibrary == {"trainers", "one trainer"}

OnEndpoint == {"writers", "one writer"}

(* What holds in every state of its scenes.                                 *)
Administered ==
  /\ scene \in OnLibrary \cup OnEndpoint
  /\ scene \in OnLibrary => Library!IInv
  /\ scene = "trainers" => Library!Lists(PairRecipes)
  /\ scene = "one trainer" => Library!Alone(Solo)
  /\ scene \in OnEndpoint => Llm!IInv
  /\ scene = "one writer" => Llm!Alone(Solo)

LEMMA Administrators ==
  /\ Library!RecipesAssumption /\ Llm!LlmAssumption
  /\ Solo \in Trainers /\ Solo \in Readers /\ Solo \in Writers
  /\ Solo \in Library!Clients /\ Solo \in Llm!Clients
  /\ PairRecipes \in SUBSET RecipeBodies /\ PairSettings \in SUBSET LlmBodies
BY AdminAssumed DEF AdminAssumption, Library!Clients, Llm!Clients

LEMMA InitAdministered == AdminInit => Administered
<1>1. ASSUME scene \in OnLibrary, Library!Init
      PROVE  Administered
  <2>1. Library!IInv /\ Library!Lists(PairRecipes) /\ Library!Alone(Solo)
    BY <1>1, Administrators, LibraryInitHolds, ListsInit, LibraryInitAlone
  <2>2. QED
    BY <1>1, <2>1 DEF Administered, OnLibrary, OnEndpoint
<1>2. ASSUME scene \in OnEndpoint, Llm!Init
      PROVE  Administered
  <2>1. Llm!IInv /\ Llm!Alone(Solo)
    BY <1>2, Administrators, LlmInitHolds, LlmInitAlone
  <2>2. QED
    BY <1>2, <2>1 DEF Administered, OnLibrary, OnEndpoint
<1>3. QED
  BY <1>1, <1>2 DEF AdminInit, OnLibrary, OnEndpoint

(* What a step of each scene is.                                            *)
LibraryStep ==
  \/ scene = "trainers" /\ \E c \in Trainers : Library!Trains(c, PairRecipes)
  \/ scene = "trainers" /\ \E c \in Readers \ {Solo} : Library!Reads(c, PageSlugs)
  \/ scene = "one trainer" /\ Library!Trains(Solo, RecipeBodies)
  \/ scene = "one trainer" /\ Library!Reads(Solo, RecipeSlugs)
  \/ UNCHANGED library

EndpointStep ==
  \/ scene = "writers" /\ \E c \in Writers : Llm!Administers(c, PairSettings, RuleSets)
  \/ scene = "writers" /\ \E c \in Callers : Llm!Asks(c)
  \/ scene = "one writer" /\ Llm!Administers(Solo, LlmBodies, {})
  \/ UNCHANGED endpoint

LEMMA AdminSteps ==
  ASSUME [AdminNext]_<<scene, library, endpoint>>
  PROVE  UNCHANGED scene /\ LibraryStep /\ EndpointStep
BY Zenon DEF AdminNext, LibraryNext, EndpointNext, LibraryStep, EndpointStep

LEMMA LibrarySteps ==
  ASSUME Administered, LibraryStep, scene \in OnLibrary
  PROVE  /\ Library!IInv' /\ Library!ReportComplete
         /\ scene = "trainers" => Library!Lists(PairRecipes)' /\ Library!PageWhole(PairRecipes)
         /\ scene = "one trainer" =>
              /\ Library!Alone(Solo)'
              /\ Library!NewRefsExist /\ Library!ReportExact /\ Library!OnlyPublishedShown
<1>1. /\ Library!IInv /\ (scene = "trainers" => Library!Lists(PairRecipes))
      /\ (scene = "one trainer" => Library!Alone(Solo))
  BY DEF Administered
<1>2. /\ scene = "trainers" => Library!PageWhole(PairRecipes)
      /\ scene = "one trainer" => Library!OnlyPublishedShown
  BY <1>1, ListsAreShown, PublishedShown
<1>3. ASSUME NEW c \in Trainers, scene = "trainers", Library!Trains(c, PairRecipes)
      PROVE  Library!IInv' /\ Library!ReportComplete /\ Library!Lists(PairRecipes)'
  BY <1>1, <1>3, Administrators, TrainsKeep, TrainsFaithful, TrainsLists
<1>4. ASSUME NEW c \in Readers, scene = "trainers", Library!Reads(c, PageSlugs)
      PROVE  Library!IInv' /\ Library!ReportComplete /\ Library!Lists(PairRecipes)'
  BY <1>1, <1>4, Administrators, ReadsKeep, ReadsFaithful, ReadsLists
<1>5. ASSUME scene = "one trainer", Library!Trains(Solo, RecipeBodies)
      PROVE  /\ Library!IInv' /\ Library!ReportComplete
             /\ Library!Alone(Solo)' /\ Library!NewRefsExist /\ Library!ReportExact
  <2>1. Library!IInv' /\ Library!ReportComplete
    BY <1>1, <1>5, Administrators, TrainsKeep, TrainsFaithful
  <2>2. Library!Alone(Solo)' /\ Library!NewRefsExist
    BY <1>1, <1>5, Administrators, TrainsAlone
  <2>3. Library!ReportExact
    BY <1>1, <1>5, Administrators, TrainsExact
  <2>4. QED
    BY <2>1, <2>2, <2>3
<1>6. ASSUME scene = "one trainer", Library!Reads(Solo, RecipeSlugs)
      PROVE  /\ Library!IInv' /\ Library!ReportComplete
             /\ Library!Alone(Solo)' /\ Library!NewRefsExist /\ Library!ReportExact
  BY <1>1, <1>6, Administrators, ReadsKeep, ReadsFaithful, ReadsAlone
<1>7. ASSUME UNCHANGED library
      PROVE  /\ Library!IInv' /\ Library!ReportComplete
             /\ scene = "trainers" => Library!Lists(PairRecipes)'
             /\ scene = "one trainer" => Library!Alone(Solo)' /\ Library!NewRefsExist /\ Library!ReportExact
  <2>1. UNCHANGED Library!vars
    BY <1>7 DEF library, Library!vars, Library!histories
  <2>2. QED
    BY <1>1, <2>1, Administrators, LibraryStutterKeeps, LibraryStutterFaithful, LibraryStutterAlone,
       StutterLists
<1>8. QED
  BY <1>2, <1>3, <1>4, <1>5, <1>6, <1>7 DEF LibraryStep

LEMMA EndpointSteps ==
  ASSUME Administered, EndpointStep, scene \in OnEndpoint
  PROVE  /\ Llm!IInv' /\ (scene = "one writer" => Llm!Alone(Solo)')
         /\ Llm!OneRuleSet /\ Llm!OneConfiguration /\ Llm!KeyKept
<1>1. Llm!IInv /\ (scene = "one writer" => Llm!Alone(Solo))
  BY DEF Administered
<1>2. ASSUME NEW c \in Writers, scene = "writers", Llm!Administers(c, PairSettings, RuleSets)
      PROVE  Llm!IInv' /\ Llm!OneRuleSet /\ Llm!OneConfiguration /\ Llm!KeyKept
  BY <1>1, <1>2, Administrators, AdministersKeep, AdministersFaithful
<1>3. ASSUME NEW c \in Callers, Llm!Asks(c)
      PROVE  Llm!IInv' /\ Llm!OneRuleSet /\ Llm!OneConfiguration /\ Llm!KeyKept
  BY <1>1, <1>3, Administrators, AsksKeep, AsksFaithful
<1>4. ASSUME scene = "one writer", Llm!Administers(Solo, LlmBodies, {})
      PROVE  /\ Llm!IInv' /\ Llm!Alone(Solo)'
             /\ Llm!OneRuleSet /\ Llm!OneConfiguration /\ Llm!KeyKept
  <2>1. {} \in SUBSET RuleSets /\ LlmBodies \in SUBSET LlmBodies
    OBVIOUS
  <2>2. QED
    BY <1>1, <1>4, <2>1, Administrators, AdministersKeep, AdministersFaithful, AdministersAlone
<1>5. ASSUME UNCHANGED endpoint
      PROVE  /\ Llm!IInv' /\ (scene = "one writer" => Llm!Alone(Solo)')
             /\ Llm!OneRuleSet /\ Llm!OneConfiguration /\ Llm!KeyKept
  <2>1. UNCHANGED Llm!vars
    BY <1>5 DEF endpoint, Llm!vars
  <2>2. QED
    BY <1>1, <2>1, Administrators, LlmStutterKeeps, LlmStutterAlone, LlmStutterFaithful
<1>6. QED
  BY <1>2, <1>3, <1>4, <1>5 DEF EndpointStep

LEMMA NextAdministered == Administered /\ [AdminNext]_<<scene, library, endpoint>> => Administered'
<1> SUFFICES ASSUME Administered, [AdminNext]_<<scene, library, endpoint>>
    PROVE  Administered'
  OBVIOUS
<1>1. UNCHANGED scene /\ LibraryStep /\ EndpointStep
  BY AdminSteps
<1>2. scene \in OnLibrary =>
        /\ Library!IInv' /\ (scene = "trainers" => Library!Lists(PairRecipes)')
        /\ (scene = "one trainer" => Library!Alone(Solo)')
  BY <1>1, LibrarySteps
<1>3. scene \in OnEndpoint => Llm!IInv' /\ (scene = "one writer" => Llm!Alone(Solo)')
  BY <1>1, EndpointSteps
<1>4. QED
  BY <1>1, <1>2, <1>3 DEF Administered, OnLibrary, OnEndpoint

LEMMA AlwaysAdministered == AdminSpec => []Administered
BY InitAdministered, NextAdministered, PTL DEF AdminSpec

-------------------------------------------------------------------------------
(* The theorems about administration.                                       *)

(* Recipes keeps its inductive invariant: slugs stay unique, every creation *)
(* finds an id, no tool is on a server that is gone, and what dangles       *)
(* throughout a validation is found or still to be.                         *)
THEOREM RecipesInductive == Library!Spec => []Library!IInv
<1>1. Library!Init => Library!IInv
  BY Administrators, LibraryInitHolds
<1>2. Library!IInv /\ [Library!Next]_(Library!vars) => Library!IInv'
  BY Administrators, TrainsKeep, ReadsKeep, LibraryStutterKeeps DEF Library!Next
<1>3. QED
  BY <1>1, <1>2, PTL DEF Library!Spec

(* A page shows one list of tools as it was written, less those of servers  *)
(* deleted since, whoever changes recipes meanwhile.                        *)
THEOREM PagesAreWhole == Library!Spec => [][Library!PageWhole(RecipeBodies)]_(Library!vars)
<1>1. Library!Init => Library!Lists(RecipeBodies)
  BY ListsInit
<1>2. Library!IInv /\ Library!Lists(RecipeBodies) /\ [Library!Next]_(Library!vars) =>
        Library!Lists(RecipeBodies)'
  BY Administrators, TrainsLists, ReadsLists, StutterLists DEF Library!Next
<1>3. Library!Lists(RecipeBodies) => Library!PageWhole(RecipeBodies)
  BY ListsAreShown
<1>4. QED
  BY <1>1, <1>2, <1>3, RecipesInductive, PTL DEF Library!Spec

(* LlmEndpoint keeps its inductive invariant: the row is well formed, a     *)
(* request that ends with a status leaves that one in the log, and no other *)
(* leaves any, and what a request has read, or will, was there since it     *)
(* began.                                                                   *)
THEOREM LlmInductive == Llm!Spec => []Llm!IInv
<1>1. Llm!Init => Llm!IInv
  BY Administrators, LlmInitHolds
<1>2. Llm!IInv /\ [Llm!Next]_(Llm!vars) => Llm!IInv'
  BY Administrators, AdministersKeep, AsksKeep, LlmStutterKeeps DEF Llm!Next
<1>3. QED
  BY <1>1, <1>2, PTL DEF Llm!Spec

(* What is stored is sound, however changes interleave, and a completion    *)
(* leaves one row in the log unless an exception escapes or its mock goes;  *)
(* a proxy has its upstream, and no change ends in an IntegrityError, as    *)
(* long as changes come one after the other.                                *)
THEOREM SoundlyStored == AdminSpec => []StoredSoundly
<1>1. Administered => StoredSoundly
  <2> SUFFICES ASSUME Administered PROVE StoredSoundly
    OBVIOUS
  <2>1. scene \in OnLibrary => Library!TypeOK
    BY DEF Administered, Library!IInv
  <2>2. scene = "one trainer" => Library!NoServerError
    BY LibraryNoErrorAlone DEF Administered
  <2>3. scene \in OnEndpoint => Llm!TypeOK /\ Llm!LoggedOnce
    BY DEF Administered, Llm!IInv
  <2>4. scene = "one writer" => Llm!ProxyHasUrl /\ Llm!NoServerError
    BY Administrators, LlmNoErrorAlone DEF Administered
  <2>5. QED
    BY <2>1, <2>2, <2>3, <2>4 DEF StoredSoundly, OnLibrary, OnEndpoint
<1>2. QED
  BY <1>1, AlwaysAdministered, PTL

(* A report misses nothing that dangled all along, and a page shows one     *)
(* list; for a client alone the report says nothing else, the page is of a  *)
(* published recipe, and new tools exist.                                   *)
THEOREM WholeRecipes == AdminSpec => RecipesAreWhole
<1>1. Administered /\ [AdminNext]_<<scene, library, endpoint>> =>
        [/\ scene = "trainers" => Library!ReportComplete /\ Library!PageWhole(PairRecipes)
         /\ scene = "one trainer" =>
              Library!NewRefsExist /\ Library!ReportExact /\ Library!OnlyPublishedShown]_library
  BY AdminSteps, LibrarySteps DEF OnLibrary
<1>2. QED
  BY <1>1, AlwaysAdministered, PTL DEF AdminSpec, RecipesAreWhole

(* A completion comes from one set of rules, or goes to an upstream with    *)
(* the key that was stored with it, and the key changes only on purpose.    *)
THEOREM AnsweredFromOneRow == AdminSpec => AnswersFromOneRow
<1>1. Administered /\ [AdminNext]_<<scene, library, endpoint>> =>
        [(scene \in {"writers", "one writer"}) =>
           Llm!OneRuleSet /\ Llm!OneConfiguration /\ Llm!KeyKept]_endpoint
  BY AdminSteps, EndpointSteps DEF OnEndpoint
<1>2. QED
  BY <1>1, AlwaysAdministered, PTL DEF AdminSpec, AnswersFromOneRow

===============================================================================
