----------------------------- MODULE CatalogProofs -----------------------------
(***************************************************************************)
(* For every set of clients, of names and of requests: Catalog keeps its   *)
(* inductive invariant IInv, no operation on one server changes another,   *)
(* names stay unique, and copies are faithful.  And for one admin at work  *)
(* alone, SerialInv: what its checks found is still so when it writes.     *)
(***************************************************************************)
EXTENDS Catalog, FiniteSetTheorems, TLAPS

LEMMA FiniteImage ==
  ASSUME NEW S, IsFiniteSet(S), NEW f, DOMAIN f = S
  PROVE  IsFiniteSet({f[x] : x \in S})
<1> DEFINE T == {f[x] : x \in S}
           g == [x \in S |-> f[x]]
<1>1. g \in Surjection(S, T)
  BY DEF Surjection
<1>2. QED
  BY <1>1, FS_Surjection

(* Rows that are inserted for a finite set of names get the next ids.       *)
LEMMA RankBound ==
  ASSUME NEW S, IsFiniteSet(S), S \subseteq Nat, NEW n \in S
  PROVE  /\ Cardinality(S) \in Nat
         /\ Rank(n, S) \in Nat
         /\ Rank(n, S) < Cardinality(S)
<1> DEFINE T == {m \in S : m < n}
<1>1. T \in SUBSET S /\ n \notin T
  OBVIOUS
<1>2. /\ IsFiniteSet(T)
      /\ Cardinality(T) <= Cardinality(S)
      /\ Cardinality(S) = Cardinality(T) => S = T
  BY <1>1, FS_Subset
<1>3. Cardinality(S) \in Nat /\ Cardinality(T) \in Nat
  BY <1>2, FS_CardinalityType
<1>4. Cardinality(S) # Cardinality(T)
  BY <1>1, <1>2
<1>5. QED
  BY <1>2, <1>3, <1>4 DEF Rank

(* The table of those rows: its ids, and that each is the row of a name.    *)
Inserts(t, S, row, rows) ==
  /\ Cardinality(S) \in Nat
  /\ DOMAIN rows \subseteq next[t] .. next[t] + Cardinality(S) - 1
  /\ \A n \in S : IdIn(t, n, S) \in DOMAIN rows
  /\ \A x \in DOMAIN rows : \E n \in S : rows[x] = row[n]

LEMMA RowsInserted ==
  ASSUME NEW t \in Tables, next[t] \in Nat \ {0},
         NEW S, IsFiniteSet(S), S \subseteq Nat, NEW row
  PROVE  Inserts(t, S, row, RowsFor(t, S, row))
<1> DEFINE ids == {IdIn(t, n, S) : n \in S}
<1>1. Cardinality(S) \in Nat
  BY FS_CardinalityType
<1>2. DOMAIN RowsFor(t, S, row) = ids
  BY DEF RowsFor
<1>3. ids \subseteq next[t] .. next[t] + Cardinality(S) - 1
  <2>1. SUFFICES ASSUME NEW n \in S
                 PROVE  IdIn(t, n, S) \in next[t] .. next[t] + Cardinality(S) - 1
    OBVIOUS
  <2>2. Rank(n, S) \in Nat /\ Rank(n, S) < Cardinality(S)
    BY RankBound
  <2>3. QED
    BY <1>1, <2>2 DEF IdIn
<1>4. ASSUME NEW x \in ids
      PROVE  \E n \in S : RowsFor(t, S, row)[x] = row[n]
  <2> DEFINE m == CHOOSE n \in S : IdIn(t, n, S) = x
  <2>1. m \in S
    BY <1>4
  <2>2. RowsFor(t, S, row)[x] = row[m]
    BY <1>4 DEF RowsFor
  <2>3. QED
    BY <2>1, <2>2
<1>5. QED
  BY <1>1, <1>2, <1>3, <1>4 DEF Inserts

-------------------------------------------------------------------------------
(* What every transaction leaves alone: ids that were handed out do not     *)
(* come back, and no dataset and no endpoint changes its server.            *)
Stays ==
  /\ next["datasets"]' \in Nat /\ next["datasets"] <= next["datasets"]'
  /\ next["endpoints"]' \in Nat /\ next["endpoints"] <= next["endpoints"]'
  /\ \A d \in DOMAIN datasets' : d < next["datasets"] =>
       d \in DOMAIN datasets /\ datasets'[d].server = datasets[d].server
  /\ \A e \in DOMAIN endpoints' : e < next["endpoints"] =>
       e \in DOMAIN endpoints /\ endpoints'[e].server = endpoints[e].server

(* No server but s changes.                                                 *)
OnlyServer(s) == \A t \in DOMAIN servers : t # s => Unchanged(t)

(* What is to be shown of every transaction.                                *)
Good == TablesOK' /\ OwnData' /\ Stays /\ \E s : OnlyServer(s)

(* The content of a server is a bundle.                                     *)
LEMMA ContentIsBundle ==
  ASSUME TablesOK, OwnData, NEW s
  PROVE  IsBundle(BundleOf(s))
<1> DEFINE ds == DatasetsOf(s)
           es == EndpointsOf(s)
           rs == RelsOf(s)
           ToolOf(t) == CHOOSE e \in es : endpoints[e].tool = t
           RelOf(n)  == CHOOSE r \in rs : rels[r].name = n
           K == {datasets[d].key : d \in ds}
           T == {endpoints[e].tool : e \in es}
           N == {rels[r].name : r \in rs}
           tools == [t \in T |-> datasets[endpoints[ToolOf(t)].ds].key]
           joins == [n \in N |-> [rels[RelOf(n)].rel EXCEPT !.source = datasets[@].key,
                                                            !.target = datasets[@].key]]
<1>1. BundleOf(s) = [keys |-> K, tools |-> tools, rels |-> joins]
  BY DEF BundleOf
<1>2. IsFiniteSet(ds) /\ IsFiniteSet(es) /\ IsFiniteSet(rs)
  <2>1. /\ next["datasets"] \in Nat /\ next["endpoints"] \in Nat /\ next["rels"] \in Nat
        /\ ds \in SUBSET (1 .. next["datasets"] - 1)
        /\ es \in SUBSET (1 .. next["endpoints"] - 1)
        /\ rs \in SUBSET (1 .. next["rels"] - 1)
    BY DEF TablesOK, Tables, DatasetsOf, EndpointsOf, RelsOf
  <2>2. /\ IsFiniteSet(1 .. next["datasets"] - 1)
        /\ IsFiniteSet(1 .. next["endpoints"] - 1)
        /\ IsFiniteSet(1 .. next["rels"] - 1)
    <3>1. \A n \in Nat : IsFiniteSet(1 .. n - 1)
      <4>1. SUFFICES ASSUME NEW n \in Nat
                     PROVE  IsFiniteSet(1 .. n - 1)
        OBVIOUS
      <4>2. 1 \in Int /\ n - 1 \in Int
        OBVIOUS
      <4>3. QED
        BY <4>2, FS_Interval
    <3>2. QED
      BY <2>1, <3>1
  <2>3. QED
    BY <2>1, <2>2, FS_Subset
<1>3. IsFiniteSet(K) /\ IsFiniteSet(T) /\ IsFiniteSet(N)
  <2>1. IsFiniteSet(K)
    <3> DEFINE f == [x \in ds |-> datasets[x].key]
    <3>1. DOMAIN f = ds /\ K = {f[x] : x \in ds}
      OBVIOUS
    <3> HIDE DEF f, K, ds
    <3>2. QED
      BY <1>2, <3>1, FiniteImage
  <2>2. IsFiniteSet(T)
    <3> DEFINE f == [x \in es |-> endpoints[x].tool]
    <3>1. DOMAIN f = es /\ T = {f[x] : x \in es}
      OBVIOUS
    <3> HIDE DEF f, T, es
    <3>2. QED
      BY <1>2, <3>1, FiniteImage
  <2>3. IsFiniteSet(N)
    <3> DEFINE f == [x \in rs |-> rels[x].name]
    <3>1. DOMAIN f = rs /\ N = {f[x] : x \in rs}
      OBVIOUS
    <3> HIDE DEF f, N, rs
    <3>2. QED
      BY <1>2, <3>1, FiniteImage
  <2>4. QED
    BY <2>1, <2>2, <2>3
<1>4. K \subseteq Names /\ T \subseteq Names /\ N \subseteq Names
  BY DEF TablesOK, DatasetsOf, EndpointsOf, RelsOf
<1>5. ASSUME NEW t \in T
      PROVE  tools[t] \in K
  <2>1. ToolOf(t) \in es
    BY <1>5
  <2>2. endpoints[ToolOf(t)].ds \in ds
    BY <2>1 DEF OwnData, EndpointsOf
  <2>3. QED
    BY <2>2, <1>5
<1>6. ASSUME NEW n \in N
      PROVE  joins[n] \in Relationship /\ joins[n].source \in K /\ joins[n].target \in K
  <2> DEFINE r == RelOf(n)
  <2>1. r \in rs
    BY <1>6
  <2>2. rels[r].rel \in Relationship /\ rels[r].rel.source \in ds /\ rels[r].rel.target \in ds
    BY <2>1 DEF OwnData, TablesOK, RelsOf
  <2>3. /\ datasets[rels[r].rel.source].key \in K /\ datasets[rels[r].rel.target].key \in K
        /\ K \subseteq Nat
    BY <2>2, <1>4, CatalogAssumption
  <2>4. joins[n] = [rels[r].rel EXCEPT !.source = datasets[@].key, !.target = datasets[@].key]
    BY <1>6
  <2> HIDE DEF r, K, joins, ds, rs
  <2>5. QED
    BY <2>2, <2>3, <2>4 DEF Relationship
<1>7. tools = [t \in T |-> tools[t]] /\ joins = [n \in N |-> joins[n]]
  <2> HIDE DEF T, N, ToolOf, RelOf
  <2>1. tools = [t \in T |-> tools[t]]
    OBVIOUS
  <2>2. joins = [n \in N |-> joins[n]]
    OBVIOUS
  <2>3. QED
    BY <2>1, <2>2
<1> HIDE DEF K, T, N, tools, joins
<1>8. /\ DOMAIN tools = T /\ tools \in [T -> K]
      /\ DOMAIN joins = N /\ joins \in [N -> Relationship]
  BY <1>5, <1>6, <1>7
<1>9. QED
  BY <1>1, <1>3, <1>4, <1>6, <1>8 DEF IsBundle

-------------------------------------------------------------------------------

(* PATCH of a server.                                                       *)
LEMMA UpdateServerGood ==
  ASSUME TablesOK, OwnData, NEW q,
         q.id \in Nat, q.slug \in Names,
         UpdateServer(q)
  PROVE  Good
<1>1. TablesOK'
  BY DEF TablesOK, Tables, UpdateServer
<1>2. OwnData'
  BY DEF TablesOK, Tables, OwnData, DatasetsOf, UpdateServer
<1>3. Stays
  BY DEF TablesOK, Tables, Stays, UpdateServer
<1>4. OnlyServer(q.id)
  BY DEF TablesOK, Tables, OwnData, OnlyServer, Unchanged, DatasetsOf, EndpointsOf, RelsOf, UpdateServer
<1>5. QED
  BY <1>1, <1>2, <1>3, <1>4 DEF Good


(* A server goes with all that is on it, and with nothing else.             *)
LEMMA DeleteServerGood ==
  ASSUME TablesOK, OwnData, NEW q,
         q.id \in Nat,
         DeleteServer(q)
  PROVE  Good
<1>1. TablesOK'
  BY DEF TablesOK, Tables, DeleteServer, Restrict, EndpointsWithout, RelsWithout, EndpointsOf, RelsOf, DatasetsOf
<1>2. OwnData'
  BY DEF TablesOK, Tables, OwnData, DatasetsOf, DeleteServer, Restrict, EndpointsWithout, RelsWithout, EndpointsOf, RelsOf
<1>3. Stays
  <2>1. next["datasets"]' \in Nat /\ next["datasets"] <= next["datasets"]'
    BY DEF TablesOK, Tables, DeleteServer
  <2>2. next["endpoints"]' \in Nat /\ next["endpoints"] <= next["endpoints"]'
    BY DEF TablesOK, Tables, DeleteServer
  <2>3. \A d \in DOMAIN datasets' : d \in DOMAIN datasets /\ datasets'[d] = datasets[d]
    BY DEF DeleteServer, Restrict, DatasetsOf
  <2>4. \A e \in DOMAIN endpoints' : e \in DOMAIN endpoints /\ endpoints'[e] = endpoints[e]
    BY DEF DeleteServer, Restrict, EndpointsWithout, EndpointsOf
  <2>5. QED
    BY <2>1, <2>2, <2>3, <2>4 DEF Stays
<1>4. OnlyServer(q.id)
  <2>1. SUFFICES ASSUME NEW t \in DOMAIN servers, t # q.id
                 PROVE  Unchanged(t)
    BY DEF OnlyServer
  <2>2. t \in DOMAIN servers' /\ servers'[t] = servers[t]
    BY <2>1 DEF DeleteServer, Restrict
  <2>3. \A d \in DatasetsOf(t) : d \in DOMAIN datasets' /\ datasets'[d] = datasets[d]
    BY <2>1 DEF DeleteServer, Restrict, DatasetsOf
  <2>4. DatasetsOf(t)' = DatasetsOf(t)
    BY <2>1, <2>3 DEF DeleteServer, Restrict, DatasetsOf
  <2>5. \A e \in EndpointsOf(t) : e \in DOMAIN endpoints' /\ endpoints'[e] = endpoints[e]
    BY <2>1 DEF OwnData, DeleteServer, Restrict, DatasetsOf, EndpointsOf, EndpointsWithout
  <2>6. EndpointsOf(t)' = EndpointsOf(t)
    BY <2>1, <2>5 DEF DeleteServer, Restrict, EndpointsOf, EndpointsWithout
  <2>7. \A r \in RelsOf(t) : r \in DOMAIN rels' /\ rels'[r] = rels[r]
    BY <2>1 DEF OwnData, DeleteServer, Restrict, DatasetsOf, RelsOf, RelsWithout
  <2>8. RelsOf(t)' = RelsOf(t)
    BY <2>1, <2>7 DEF DeleteServer, Restrict, RelsOf, RelsWithout
  <2>9. QED
    BY <2>2, <2>3, <2>4, <2>5, <2>6, <2>7, <2>8 DEF Unchanged
<1>5. QED
  BY <1>1, <1>2, <1>3, <1>4 DEF Good


(* A dataset for a server that the foreign key finds.                       *)
LEMMA CreateDatasetGood ==
  ASSUME TablesOK, OwnData, NEW q,
         q.id \in DOMAIN servers, q.key \in Names,
         CreateDataset(q)
  PROVE  Good
<1>1. TablesOK'
  BY DEF TablesOK, Tables, CreateDataset, With, One, InsertRow
<1>2. OwnData'
  BY DEF TablesOK, Tables, OwnData, DatasetsOf, CreateDataset, With, One, InsertRow
<1>3. Stays
  BY DEF TablesOK, Tables, Stays, CreateDataset, With, One, InsertRow
<1>4. OnlyServer(q.id)
  BY DEF TablesOK, Tables, OwnData, OnlyServer, Unchanged, DatasetsOf, EndpointsOf, RelsOf, CreateDataset, With, One, InsertRow
<1>5. QED
  BY <1>1, <1>2, <1>3, <1>4 DEF Good


(* DELETE of an endpoint.                                                   *)
LEMMA DeleteEndpointGood ==
  ASSUME TablesOK, OwnData, NEW q,
         DeleteEndpoint(q)
  PROVE  Good
<1>1. TablesOK'
  BY DEF TablesOK, Tables, DeleteEndpoint, Restrict
<1>2. OwnData'
  BY DEF TablesOK, Tables, OwnData, DatasetsOf, DeleteEndpoint, Restrict
<1>3. Stays
  BY DEF TablesOK, Tables, Stays, DeleteEndpoint, Restrict
<1>4. OnlyServer(endpoints[q.id].server)
  BY DEF TablesOK, Tables, OwnData, OnlyServer, Unchanged, DatasetsOf, EndpointsOf, RelsOf, DeleteEndpoint, Restrict
<1>5. QED
  BY <1>1, <1>2, <1>3, <1>4 DEF Good


(* PATCH of a dataset.                                                      *)
LEMMA UpdateDatasetGood ==
  ASSUME TablesOK, OwnData, NEW q,
         q.key \in Names,
         UpdateDataset(q)
  PROVE  Good
<1>1. TablesOK'
  BY DEF TablesOK, Tables, UpdateDataset
<1>2. OwnData'
  BY DEF TablesOK, Tables, OwnData, DatasetsOf, WasOn, UpdateDataset
<1>3. Stays
  BY DEF TablesOK, Tables, Stays, UpdateDataset
<1>4. OnlyServer(datasets[q.id].server)
  BY DEF TablesOK, Tables, OwnData, OnlyServer, Unchanged, DatasetsOf, EndpointsOf, RelsOf, UpdateDataset
<1>5. QED
  BY <1>1, <1>2, <1>3, <1>4 DEF Good


(* DELETE of a relationship.                                                *)
LEMMA DeleteRelationshipGood ==
  ASSUME TablesOK, OwnData, NEW q,
         DeleteRelationship(q)
  PROVE  Good
<1>1. TablesOK'
  BY DEF TablesOK, Tables, DeleteRelationship, Restrict
<1>2. OwnData'
  BY DEF TablesOK, Tables, OwnData, DatasetsOf, WasOn, DeleteRelationship, Restrict
<1>3. Stays
  BY DEF TablesOK, Tables, Stays, DeleteRelationship, Restrict
<1>4. OnlyServer(rels[q.id].server)
  BY DEF TablesOK, Tables, OwnData, OnlyServer, Unchanged, DatasetsOf, EndpointsOf, RelsOf, DeleteRelationship, Restrict
<1>5. QED
  BY <1>1, <1>2, <1>3, <1>4 DEF Good


(* A dataset goes with the endpoints and relationships that use it.         *)
LEMMA DeleteDatasetGood ==
  ASSUME TablesOK, OwnData, NEW q,
         DeleteDataset(q)
  PROVE  Good
<1>1. TablesOK'
  BY DEF TablesOK, Tables, DeleteDataset, Restrict, EndpointsWithout, RelsWithout
<1>2. OwnData'
  BY DEF TablesOK, Tables, OwnData, DatasetsOf, WasOn, DeleteDataset, Restrict, EndpointsWithout, RelsWithout
<1>3. Stays
  BY DEF TablesOK, Tables, Stays, DeleteDataset, Restrict, EndpointsWithout, RelsWithout
<1>4. OnlyServer(datasets[q.id].server)
  <2>1. SUFFICES ASSUME NEW t \in DOMAIN servers, t # datasets[q.id].server
                 PROVE  Unchanged(t)
    BY DEF OnlyServer
  <2>2. servers' = servers
    BY DEF DeleteDataset
  <2>3. \A d \in DatasetsOf(t) : d \in DOMAIN datasets' /\ datasets'[d] = datasets[d]
    BY <2>1 DEF DeleteDataset, Restrict, DatasetsOf
  <2>4. DatasetsOf(t)' = DatasetsOf(t)
    BY <2>1, <2>3 DEF DeleteDataset, Restrict, DatasetsOf
  <2>5. \A e \in EndpointsOf(t) : e \in DOMAIN endpoints' /\ endpoints'[e] = endpoints[e]
    BY <2>1 DEF OwnData, DeleteDataset, Restrict, DatasetsOf, EndpointsOf, EndpointsWithout
  <2>6. EndpointsOf(t)' = EndpointsOf(t)
    BY <2>1, <2>5 DEF DeleteDataset, Restrict, EndpointsOf, EndpointsWithout
  <2>7. \A r \in RelsOf(t) : r \in DOMAIN rels' /\ rels'[r] = rels[r]
    BY <2>1 DEF OwnData, DeleteDataset, Restrict, DatasetsOf, RelsOf, RelsWithout
  <2>8. RelsOf(t)' = RelsOf(t)
    BY <2>1, <2>7 DEF DeleteDataset, Restrict, RelsOf, RelsWithout
  <2>9. QED
    BY <2>2, <2>3, <2>4, <2>5, <2>6, <2>7, <2>8 DEF Unchanged
<1>5. QED
  BY <1>1, <1>2, <1>3, <1>4 DEF Good


(* An endpoint on a dataset that was seen on its server and is still there. *)
LEMMA CreateEndpointGood ==
  ASSUME TablesOK, OwnData, NEW q,
         q.id \in DOMAIN servers, q.tool \in Names, q.ds \in DOMAIN datasets,
         WasOn(q.ds, q.id),
         CreateEndpoint(q)
  PROVE  Good
<1>1. TablesOK'
  BY DEF TablesOK, Tables, CreateEndpoint, With, One, InsertRow
<1>2. OwnData'
  BY DEF TablesOK, Tables, OwnData, DatasetsOf, WasOn, CreateEndpoint, With, One, InsertRow
<1>3. Stays
  BY DEF TablesOK, Tables, Stays, CreateEndpoint, With, One, InsertRow
<1>4. OnlyServer(q.id)
  BY DEF TablesOK, Tables, OwnData, OnlyServer, Unchanged, DatasetsOf, EndpointsOf, RelsOf, CreateEndpoint, With, One, InsertRow
<1>5. QED
  BY <1>1, <1>2, <1>3, <1>4 DEF Good


(* PATCH of an endpoint, on a dataset that is there and on its server.      *)
LEMMA UpdateEndpointGood ==
  ASSUME TablesOK, OwnData, NEW q,
         q.tool \in Names \cup {None},
         q.ds # None /\ q.id \in DOMAIN endpoints =>
           q.ds \in DOMAIN datasets /\ WasOn(q.ds, endpoints[q.id].server),
         UpdateEndpoint(q)
  PROVE  Good
<1>1. /\ DOMAIN endpoints' = DOMAIN endpoints
      /\ servers' = servers /\ datasets' = datasets /\ rels' = rels /\ next' = next
      /\ \A e \in DOMAIN endpoints : e # q.id => endpoints'[e] = endpoints[e]
  BY DEF UpdateEndpoint
<1>2. ASSUME q.id \in DOMAIN endpoints
      PROVE  LET old == endpoints[q.id]
                 new == endpoints'[q.id]
             IN  /\ new \in [server : Nat, tool : Names, ds : Nat]
                 /\ new.server = old.server
                 /\ new.ds = old.ds \/ new.ds \in DatasetsOf(old.server)
  <2> DEFINE old == endpoints[q.id]
             t == IF q.tool = None THEN old.tool ELSE q.tool
             d == IF q.ds = None THEN old.ds ELSE q.ds
  <2>1. old \in [server : Nat, tool : Names, ds : Nat]
    BY <1>2 DEF TablesOK
  <2>2. endpoints'[q.id] = [old EXCEPT !.tool = t, !.ds = d]
    BY <1>2 DEF UpdateEndpoint
  <2>3. t \in Names
    BY <2>1
  <2>4. d = old.ds \/ d \in DatasetsOf(old.server)
    BY <1>2 DEF DatasetsOf, WasOn
  <2>5. d \in Nat
    BY <2>1, <2>4 DEF DatasetsOf, TablesOK, Tables
  <2> HIDE DEF t, d
  <2>6. QED
    BY <2>1, <2>2, <2>3, <2>4, <2>5
<1>3. /\ \A e \in DOMAIN endpoints : endpoints'[e] \in [server : Nat, tool : Names, ds : Nat]
      /\ \A e \in DOMAIN endpoints : endpoints'[e].server = endpoints[e].server
      /\ \A e \in DOMAIN endpoints :
           endpoints'[e].ds = endpoints[e].ds \/ endpoints'[e].ds \in DatasetsOf(endpoints[e].server)
  BY <1>1, <1>2 DEF TablesOK
<1>4. TablesOK'
  BY <1>1, <1>3 DEF TablesOK
<1>5. OwnData'
  BY <1>1, <1>3 DEF OwnData, DatasetsOf
<1>6. Stays
  BY <1>1, <1>3 DEF Stays, TablesOK, Tables
<1>7. OnlyServer(endpoints[q.id].server)
  BY <1>1, <1>3 DEF OnlyServer, Unchanged, DatasetsOf, EndpointsOf, RelsOf
<1>8. QED
  BY <1>4, <1>5, <1>6, <1>7 DEF Good


(* A relationship of two datasets that were seen on its server.             *)
LEMMA CreateRelationshipGood ==
  ASSUME TablesOK, OwnData, NEW q,
         q.id \in DOMAIN servers, q.name \in Names, q.rel \in Relationship,
         q.rel.source \in DOMAIN datasets, WasOn(q.rel.source, q.id),
         q.rel.target \in DOMAIN datasets, WasOn(q.rel.target, q.id),
         CreateRelationship(q)
  PROVE  Good
<1>1. TablesOK'
  BY DEF TablesOK, Tables, CreateRelationship, With, One, InsertRow
<1>2. OwnData'
  BY DEF TablesOK, Tables, OwnData, DatasetsOf, WasOn, CreateRelationship, With, One, InsertRow
<1>3. Stays
  BY DEF TablesOK, Tables, Stays, CreateRelationship, With, One, InsertRow
<1>4. OnlyServer(q.id)
  BY DEF TablesOK, Tables, OwnData, OnlyServer, Unchanged, DatasetsOf, EndpointsOf, RelsOf, CreateRelationship, With, One, InsertRow
<1>5. QED
  BY <1>1, <1>2, <1>3, <1>4 DEF Good

(* A server with a bundle: its tools and relationships stand for datasets   *)
(* that are inserted with it.                                               *)
LEMMA InsertServerGood ==
  ASSUME TablesOK, OwnData, NEW slug \in Names, NEW b, IsBundle(b),
         InsertServer(slug, b)
  PROVE  Good
<1> DEFINE s == next["servers"]
           nD == next["datasets"]
           nE == next["endpoints"]
           nR == next["rels"]
           keys == b.keys
           tools == DOMAIN b.tools
           names == DOMAIN b.rels
           dataset(k) == IdIn("datasets", k, keys)
           rowD == [k \in keys |-> [server |-> s, key |-> k]]
           rowE == [t \in tools |-> [server |-> s, tool |-> t, ds |-> dataset(b.tools[t])]]
           rowR == [n \in names |-> [server |-> s, name |-> n,
                      rel |-> [b.rels[n] EXCEPT !.source = dataset(@), !.target = dataset(@)]]]
           D == RowsFor("datasets", keys, rowD)
           E == RowsFor("endpoints", tools, rowE)
           R == RowsFor("rels", names, rowR)
<1>1. /\ IsFiniteSet(keys) /\ keys \subseteq Names
      /\ IsFiniteSet(tools) /\ tools \subseteq Names
      /\ IsFiniteSet(names) /\ names \subseteq Names
      /\ Names \subseteq Nat
  BY CatalogAssumption DEF IsBundle
<1>2. s \in Nat \ {0} /\ nD \in Nat \ {0} /\ nE \in Nat \ {0} /\ nR \in Nat \ {0}
  BY DEF TablesOK, Tables
<1>3. /\ servers' = With(servers, One("servers", slug))
      /\ datasets' = With(datasets, D)
      /\ endpoints' = With(endpoints, E)
      /\ rels' = With(rels, R)
      /\ next' \in [Tables -> {s + 1, nD + Cardinality(keys),
                               nE + Cardinality(tools), nR + Cardinality(names)}]
      /\ next'["servers"] = s + 1
      /\ next'["datasets"] = nD + Cardinality(keys)
      /\ next'["endpoints"] = nE + Cardinality(tools)
      /\ next'["rels"] = nR + Cardinality(names)
  <2>1. servers' = With(servers, One("servers", slug))
    BY DEF InsertServer
  <2>2. datasets' = With(datasets, D)
    BY DEF InsertServer
  <2>3. endpoints' = With(endpoints, E)
    BY DEF InsertServer
  <2>4. rels' = With(rels, R)
    BY DEF InsertServer
  <2>5. Counted([servers |-> 1, datasets |-> Cardinality(keys),
                 endpoints |-> Cardinality(tools), rels |-> Cardinality(names)])
    BY DEF InsertServer
  <2> HIDE DEF D, E, R, keys, tools, names
  <2>6. /\ next' \in [Tables -> {s + 1, nD + Cardinality(keys),
                                 nE + Cardinality(tools), nR + Cardinality(names)}]
        /\ next'["servers"] = s + 1
        /\ next'["datasets"] = nD + Cardinality(keys)
        /\ next'["endpoints"] = nE + Cardinality(tools)
        /\ next'["rels"] = nR + Cardinality(names)
    BY <2>5 DEF Counted, Tables
  <2>7. QED
    BY <2>1, <2>2, <2>3, <2>4, <2>6
<1>4. /\ Cardinality(keys) \in Nat
      /\ DOMAIN D \subseteq nD .. nD + Cardinality(keys) - 1
      /\ \A k \in keys : dataset(k) \in DOMAIN D
      /\ \A x \in DOMAIN D : D[x] \in [server : {s}, key : Names]
  <2>1. /\ Cardinality(keys) \in Nat
        /\ DOMAIN D \subseteq nD .. nD + Cardinality(keys) - 1
        /\ \A k \in keys : dataset(k) \in DOMAIN D
        /\ \A x \in DOMAIN D : \E k \in keys : D[x] = rowD[k]
    <3>1. "datasets" \in Tables /\ keys \subseteq Nat /\ nD \in Nat \ {0}
      BY <1>1, <1>2 DEF Tables
    <3> HIDE DEF rowD, keys
    <3>2. Inserts("datasets", keys, rowD, D)
      BY <3>1, <1>1, RowsInserted
    <3> HIDE DEF D
    <3>3. QED
      BY <3>2 DEF Inserts
  <2>2. \A k \in keys : rowD[k] \in [server : {s}, key : Names]
    BY <1>1
  <2> HIDE DEF D, rowD
  <2>3. QED
    BY <2>1, <2>2
<1>5. /\ Cardinality(tools) \in Nat
      /\ DOMAIN E \subseteq nE .. nE + Cardinality(tools) - 1
      /\ \A x \in DOMAIN E : E[x] \in [server : {s}, tool : Names, ds : DOMAIN D]
  <2>1. /\ Cardinality(tools) \in Nat
        /\ DOMAIN E \subseteq nE .. nE + Cardinality(tools) - 1
        /\ \A x \in DOMAIN E : \E t \in tools : E[x] = rowE[t]
    <3>1. "endpoints" \in Tables /\ tools \subseteq Nat /\ nE \in Nat \ {0}
      BY <1>1, <1>2 DEF Tables
    <3> HIDE DEF rowE, tools
    <3>2. Inserts("endpoints", tools, rowE, E)
      BY <3>1, <1>1, RowsInserted
    <3> HIDE DEF E
    <3>3. QED
      BY <3>2 DEF Inserts
  <2>2. ASSUME NEW t \in tools
        PROVE  rowE[t] \in [server : {s}, tool : Names, ds : DOMAIN D]
    <3>1. b.tools[t] \in keys
      BY <2>2 DEF IsBundle
    <3>2. dataset(b.tools[t]) \in DOMAIN D
      BY <3>1, <1>4
    <3> HIDE DEF D
    <3>3. QED
      BY <2>2, <3>2, <1>1
  <2> HIDE DEF E, rowE, D
  <2>3. QED
    BY <2>1, <2>2
<1>6. DOMAIN D \subseteq Nat
  BY <1>2, <1>4
<1>7. /\ Cardinality(names) \in Nat
      /\ DOMAIN R \subseteq nR .. nR + Cardinality(names) - 1
      /\ \A x \in DOMAIN R :
           /\ R[x] \in [server : {s}, name : Names, rel : Relationship]
           /\ R[x].rel.source \in DOMAIN D /\ R[x].rel.target \in DOMAIN D
  <2>1. /\ Cardinality(names) \in Nat
        /\ DOMAIN R \subseteq nR .. nR + Cardinality(names) - 1
        /\ \A x \in DOMAIN R : \E n \in names : R[x] = rowR[n]
    <3>1. "rels" \in Tables /\ names \subseteq Nat /\ nR \in Nat \ {0}
      BY <1>1, <1>2 DEF Tables
    <3> HIDE DEF rowR, names
    <3>2. Inserts("rels", names, rowR, R)
      BY <3>1, <1>1, RowsInserted
    <3> HIDE DEF R
    <3>3. QED
      BY <3>2 DEF Inserts
  <2>2. ASSUME NEW n \in names
        PROVE  /\ rowR[n] \in [server : {s}, name : Names, rel : Relationship]
               /\ rowR[n].rel.source \in DOMAIN D /\ rowR[n].rel.target \in DOMAIN D
    <3> DEFINE j == b.rels[n]
               src == dataset(j.source)
               tgt == dataset(j.target)
    <3>1. j \in Relationship /\ j.source \in keys /\ j.target \in keys
      BY <2>2 DEF IsBundle
    <3>2. src \in DOMAIN D /\ tgt \in DOMAIN D
      BY <3>1, <1>4
    <3>3. rowR[n] = [server |-> s, name |-> n, rel |-> [j EXCEPT !.source = src, !.target = tgt]]
      BY <2>2, <3>1 DEF Relationship
    <3> DEFINE copy == [j EXCEPT !.source = src, !.target = tgt]
    <3> HIDE DEF D, rowR, j, src, tgt
    <3>4. copy \in Relationship /\ copy.source = src /\ copy.target = tgt
      BY <3>1, <3>2, <1>6 DEF Relationship
    <3>5. n \in Names /\ rowR[n] = [server |-> s, name |-> n, rel |-> copy]
      BY <2>2, <1>1, <3>3
    <3> HIDE DEF copy
    <3>6. QED
      BY <3>2, <3>4, <3>5
  <2> HIDE DEF R, rowR, D
  <2>3. QED
    BY <2>1, <2>2
<1>8. s \notin DOMAIN servers /\ servers' = [x \in DOMAIN servers \cup {s} |->
                                              IF x = s THEN slug ELSE servers[x]]
  <2>1. s \notin DOMAIN servers
    BY <1>2 DEF TablesOK
  <2>2. servers' = With(servers, [x \in {s} |-> slug])
    BY <1>3 DEF One
  <2> HIDE DEF s
  <2>3. QED
    BY <2>1, <2>2 DEF With
<1> HIDE DEF s, nD, nE, nR, keys, tools, names, D, E, R
<1>9. TablesOK'
  <2>1. next' \in [Tables -> Nat \ {0}]
    BY <1>2, <1>3, <1>4, <1>5, <1>7
  <2>2. /\ DOMAIN servers' \subseteq 1 .. next'["servers"] - 1
        /\ \A x \in DOMAIN servers' : servers'[x] \in Names
    BY <1>2, <1>3, <1>8 DEF TablesOK, s
  <2>3. /\ DOMAIN datasets' \subseteq 1 .. next'["datasets"] - 1
        /\ \A x \in DOMAIN datasets' : datasets'[x] \in [server : Nat, key : Names]
    BY <1>2, <1>3, <1>4 DEF TablesOK, With, nD
  <2>4. /\ DOMAIN endpoints' \subseteq 1 .. next'["endpoints"] - 1
        /\ \A x \in DOMAIN endpoints' : endpoints'[x] \in [server : Nat, tool : Names, ds : Nat]
    BY <1>2, <1>3, <1>5, <1>6 DEF TablesOK, With, nE
  <2>5. /\ DOMAIN rels' \subseteq 1 .. next'["rels"] - 1
        /\ \A x \in DOMAIN rels' : rels'[x] \in [server : Nat, name : Names, rel : Relationship]
    BY <1>2, <1>3, <1>7 DEF TablesOK, With, nR
  <2>6. QED
    BY <2>1, <2>2, <2>3, <2>4, <2>5 DEF TablesOK
<1>10. /\ \A x \in DOMAIN datasets : x \in DOMAIN datasets' /\ datasets'[x] = datasets[x]
       /\ \A x \in DOMAIN endpoints : x \in DOMAIN endpoints' /\ endpoints'[x] = endpoints[x]
       /\ \A x \in DOMAIN rels : x \in DOMAIN rels' /\ rels'[x] = rels[x]
       /\ DOMAIN datasets' = DOMAIN datasets \cup DOMAIN D
       /\ DOMAIN endpoints' = DOMAIN endpoints \cup DOMAIN E
       /\ DOMAIN rels' = DOMAIN rels \cup DOMAIN R
       /\ \A x \in DOMAIN D : datasets'[x] = D[x] /\ x >= nD
       /\ \A x \in DOMAIN E : endpoints'[x] = E[x] /\ x >= nE
       /\ \A x \in DOMAIN R : rels'[x] = R[x]
  BY <1>2, <1>3, <1>4, <1>5, <1>7 DEF TablesOK, With, nD, nE, nR
<1>11. OwnData'
  BY <1>4, <1>5, <1>7, <1>8, <1>10 DEF OwnData, DatasetsOf
<1>12. Stays
  BY <1>2, <1>3, <1>4, <1>5, <1>10 DEF Stays, nD, nE
<1>13. OnlyServer(s)
  BY <1>4, <1>5, <1>7, <1>8, <1>10 DEF OnlyServer, Unchanged, DatasetsOf, EndpointsOf, RelsOf
<1>14. QED
  BY <1>9, <1>11, <1>12, <1>13 DEF Good

-------------------------------------------------------------------------------
(* A request that reaches its transaction is one of Requests.               *)
LEMMA RequestKnown ==
  ASSUME TypeOK, NEW c \in Clients, req[c].kind # "none"
  PROVE  IsRequest(req[c])
BY CatalogAssumption DEF TypeOK, HandlersOK, NoRequest

(* The transactions, with what the checks have left to rely on.             *)
LEMMA WriteGood ==
  ASSUME IInv, NEW c \in Clients, step[c] = "commit", ~Breaks(c), Write(req[c])
  PROVE  Good
<1> DEFINE q == req[c]
<1>1. TypeOK /\ TablesOK /\ OwnData /\ Vetted(c)
  BY DEF IInv, TypeOK
<1>2. q.kind # "none"
  BY DEF Write, CreateServer, UpdateServer, DeleteServer, CreateDataset, UpdateDataset,
         DeleteDataset, CreateEndpoint, UpdateEndpoint, DeleteEndpoint, CreateRelationship,
         DeleteRelationship
<1>3. IsRequest(q)
  BY <1>1, <1>2, RequestKnown
<1>4. ASSUME CreateServer(q)
      PROVE  Good
  <2>1. CASE q.kind = "createServer" /\ InsertServer(q.slug, q.bundle)
    <3>1. q.slug \in Names /\ IsBundle(q.bundle)
      BY <2>1, <1>3 DEF IsRequest
    <3>2. QED
      BY <1>1, <2>1, <3>1, InsertServerGood
  <2>2. CASE q.kind = "cloneServer" /\ InsertServer(q.slug, BundleOf(q.id))
    <3>1. q.slug \in Names
      BY <2>2, <1>3 DEF IsRequest
    <3>2. IsBundle(BundleOf(q.id))
      BY <1>1, ContentIsBundle
    <3>3. QED
      BY <1>1, <2>2, <3>1, <3>2, InsertServerGood
  <2>3. QED
    BY <1>4, <2>1, <2>2 DEF CreateServer
<1>5. ASSUME UpdateServer(q)
      PROVE  Good
  <2>1. q.id \in Nat /\ q.slug \in Names
    BY <1>3, <1>5 DEF IsRequest, UpdateServer
  <2>2. QED
    BY <1>1, <1>5, <2>1, UpdateServerGood
<1>6. ASSUME DeleteServer(q)
      PROVE  Good
  <2>1. q.id \in Nat
    BY <1>3, <1>6 DEF IsRequest, DeleteServer
  <2>2. QED
    BY <1>1, <1>6, <2>1, DeleteServerGood
<1>7. ASSUME CreateDataset(q)
      PROVE  Good
  <2>1. q.key \in Names
    BY <1>3, <1>7 DEF IsRequest, CreateDataset
  <2>2. q.id \in DOMAIN servers
    BY <1>7 DEF Breaks, CreateDataset, ServerGone
  <2>3. QED
    BY <1>1, <1>7, <2>1, <2>2, CreateDatasetGood
<1>8. ASSUME UpdateDataset(q)
      PROVE  Good
  <2>1. q.key \in Names
    BY <1>3, <1>8 DEF IsRequest, UpdateDataset
  <2>2. QED
    BY <1>1, <1>8, <2>1, UpdateDatasetGood
<1>9. ASSUME DeleteDataset(q)
      PROVE  Good
  BY <1>1, <1>9, DeleteDatasetGood
<1>10. ASSUME CreateEndpoint(q)
       PROVE  Good
  <2>1. q.kind = "createEndpoint" /\ q.tool \in Names
    BY <1>3, <1>10 DEF IsRequest, CreateEndpoint
  <2>2. q.id \in DOMAIN servers /\ q.ds \in DOMAIN datasets
    BY <2>1 DEF Breaks, ServerGone
  <2>3. WasOn(q.ds, q.id)
    BY <1>1, <2>1 DEF Vetted
  <2>4. QED
    BY <1>1, <1>10, <2>1, <2>2, <2>3, CreateEndpointGood
<1>11. ASSUME UpdateEndpoint(q)
       PROVE  Good
  <2>1. q.kind = "updateEndpoint" /\ q.tool \in Names \cup {None}
    BY <1>3, <1>11 DEF IsRequest, UpdateEndpoint
  <2>2. q.ds # None /\ q.id \in DOMAIN endpoints =>
          q.ds \in DOMAIN datasets /\ WasOn(q.ds, endpoints[q.id].server)
    <3>1. ASSUME q.ds # None, q.id \in DOMAIN endpoints
          PROVE  q.ds \in DOMAIN datasets /\ q.ds # 0
      BY <1>1, <2>1, <3>1 DEF Breaks, TablesOK
    <3>2. QED
      BY <1>1, <2>1, <3>1 DEF Vetted
  <2>3. QED
    BY <1>1, <1>11, <2>1, <2>2, UpdateEndpointGood
<1>12. ASSUME DeleteEndpoint(q)
       PROVE  Good
  BY <1>1, <1>12, DeleteEndpointGood
<1>13. ASSUME CreateRelationship(q)
       PROVE  Good
  <2>1. q.kind = "createRelationship" /\ q.name \in Names /\ q.rel \in Relationship
    BY <1>3, <1>13 DEF IsRequest, CreateRelationship
  <2>2. /\ q.id \in DOMAIN servers
        /\ q.rel.source \in DOMAIN datasets /\ q.rel.target \in DOMAIN datasets
    BY <2>1 DEF Breaks, ServerGone
  <2>3. WasOn(q.rel.source, q.id) /\ WasOn(q.rel.target, q.id)
    BY <1>1, <2>1 DEF Vetted
  <2>4. QED
    BY <1>1, <1>13, <2>1, <2>2, <2>3, CreateRelationshipGood
<1>14. ASSUME DeleteRelationship(q)
       PROVE  Good
  BY <1>1, <1>14, DeleteRelationshipGood
<1>15. QED
  BY <1>4, <1>5, <1>6, <1>7, <1>8, <1>9, <1>10, <1>11, <1>12, <1>13, <1>14 DEF Write

(* A step that writes nothing.                                              *)
LEMMA NothingWritten ==
  ASSUME TablesOK, OwnData, UNCHANGED tables
  PROVE  Good
<1>1. TablesOK' /\ OwnData'
  BY DEF tables, TablesOK, OwnData, DatasetsOf
<1>2. Stays
  BY DEF tables, TablesOK, Tables, Stays
<1>3. OnlyServer(0)
  BY DEF tables, OnlyServer, Unchanged, DatasetsOf, EndpointsOf, RelsOf
<1>4. QED
  BY <1>1, <1>2, <1>3 DEF Good

-------------------------------------------------------------------------------
(* The handlers of the other clients stay where they are.                   *)
OthersWait(c) ==
  \A d \in Clients : d # c => req'[d] = req[d] /\ step'[d] = step[d] /\ seen'[d] = seen[d]

(* What was vetted stays vetted, whatever a transaction does.               *)
LEMMA StillVetted ==
  ASSUME TablesOK, NEW c, Vetted(c), Stays,
         req'[c] = req[c], step'[c] = step[c], seen'[c] = seen[c]
  PROVE  Vetted(c)'
<1>1. ASSUME NEW d, NEW s, WasOn(d, s)
      PROVE  WasOn(d, s)'
  BY <1>1 DEF WasOn, Stays, TablesOK, Tables
<1>2. ASSUME NEW e, NEW s, e \in 1 .. next["endpoints"] - 1,
             e \in DOMAIN endpoints => endpoints[e].server = s
      PROVE  /\ e \in 1 .. next["endpoints"]' - 1
             /\ e \in DOMAIN endpoints' => endpoints'[e].server = s
  BY <1>2 DEF Stays, TablesOK, Tables
<1>3. QED
  BY <1>1, <1>2 DEF Vetted

(* A handler that is done has nothing left to be vetted.                    *)
LEMMA FinishKeeps ==
  ASSUME HandlersOK, NEW c \in Clients, NEW a \in {"ok", "refused", "broken", "busy"},
         Finish(c, a)
  PROVE  HandlersOK' /\ Vetted(c)' /\ OthersWait(c)
<1>1. /\ req' = [req EXCEPT ![c] = NoRequest]
      /\ step' = [step EXCEPT ![c] = "idle"]
      /\ seen' = [seen EXCEPT ![c] = NothingSeen]
      /\ made' = [made EXCEPT ![c] = 0]
      /\ answer' = [answer EXCEPT ![c] = a]
  BY DEF Finish, Goto, Answer
<1>2. HandlersOK'
  BY <1>1 DEF HandlersOK, NothingSeen
<1>3. req'[c].kind = "none" /\ step'[c] = "idle"
  BY <1>1 DEF HandlersOK, NoRequest
<1>4. OthersWait(c)
  BY <1>1 DEF HandlersOK, OthersWait
<1>5. QED
  BY <1>2, <1>3, <1>4 DEF Vetted

(* A check: either the handler goes on, or it is done.                      *)
LEMMA CheckKeeps ==
  ASSUME TablesOK, HandlersOK, NEW c \in Clients, NEW ok, NEW s \in {"target", "clash", "commit", "source"},
         Check(c, ok, s),
         ok /\ UNCHANGED <<tables, req, seen>> /\ step'[c] = s => Vetted(c)'
  PROVE  HandlersOK' /\ Vetted(c)' /\ OthersWait(c)
<1>1. CASE ok
  <2>1. step' = [step EXCEPT ![c] = s] /\ UNCHANGED <<tables, req, seen, made, answer>>
    BY <1>1 DEF Check, Goto
  <2>2. HandlersOK'
    BY <2>1 DEF HandlersOK
  <2>3. OthersWait(c) /\ step'[c] = s
    BY <2>1 DEF HandlersOK, OthersWait
  <2>4. QED
    BY <1>1, <2>1, <2>2, <2>3
<1>2. CASE ~ok
  <2>1. Finish(c, "refused")
    BY <1>2 DEF Check
  <2>2. QED
    BY <2>1, FinishKeeps
<1>3. QED
  BY <1>1, <1>2

(* Reading the row that the request names.                                  *)
LEMMA RequireKeeps ==
  ASSUME TypeOK, NEW c \in Clients, Vetted(c), Require(c)
  PROVE  HandlersOK' /\ Vetted(c)' /\ OthersWait(c)
<1> DEFINE q == req[c]
           next_step == CASE q.kind = "createEndpoint" -> "source"
                          [] q.kind \in {"deleteServer", "deleteEndpoint", "deleteRelationship"}
                                                       -> "commit"
                          [] OTHER                     -> "clash"
<1>1. CASE q.id \notin TableOf(q.kind)
  <2>1. Finish(c, "refused")
    BY <1>1 DEF Require
  <2>2. QED
    BY <2>1, FinishKeeps DEF TypeOK
<1>2. CASE q.id \in TableOf(q.kind)
  <2>1. /\ seen' = [seen EXCEPT ![c] = ReadOf(q)]
        /\ step' = [step EXCEPT ![c] = next_step]
        /\ UNCHANGED <<tables, req, made, answer>>
    BY <1>2 DEF Require, Goto
  <2>2. ReadOf(q) \in [server : Nat, ds : Nat]
    BY <1>2 DEF ReadOf, TableOf, TypeOK, TablesOK, Tables, NothingSeen
  <2>3. next_step \in {"source", "commit", "clash"}
    OBVIOUS
  <2>4. HandlersOK'
    <3> HIDE DEF next_step, q
    <3>1. QED
      BY <2>1, <2>2, <2>3 DEF TypeOK, HandlersOK
  <2>5. /\ req'[c] = q /\ seen'[c] = ReadOf(q) /\ step'[c] = next_step
        /\ endpoints' = endpoints /\ next' = next
    <3> HIDE DEF next_step
    <3>1. QED
      BY <2>1 DEF TypeOK, HandlersOK, tables
  <2>6. Vetted(c)'
    <3>1. q.kind = "createEndpoint" => step'[c] = "source"
      BY <2>5
    <3>2. q.kind = "createRelationship" \/ q.kind = "updateEndpoint" => step'[c] = "clash"
      BY <2>5
    <3>3. q.kind # "createRelationship"
      BY DEF Require, Vetted
    <3>4. q.kind = "updateEndpoint" =>
            /\ q.id \in 1 .. next["endpoints"] - 1
            /\ seen'[c].server = endpoints[q.id].server
      BY <1>2, <2>5 DEF TableOf, ReadOf, TypeOK, TablesOK
    <3>5. QED
      BY <2>5, <3>1, <3>2, <3>3, <3>4 DEF Vetted
  <2>7. OthersWait(c)
    BY <2>1 DEF TypeOK, HandlersOK, OthersWait
  <2>8. QED
    BY <2>4, <2>6, <2>7
<1>3. QED
  BY <1>1, <1>2

(* Every check of a dataset, and of a name.                                 *)
LEMMA CheckSourceKeeps ==
  ASSUME TypeOK, NEW c \in Clients, Vetted(c), CheckSource(c)
  PROVE  HandlersOK' /\ Vetted(c)' /\ OthersWait(c)
<1> DEFINE q == req[c]
<1>1. TablesOK /\ HandlersOK
  BY DEF TypeOK
<1>2. ASSUME NEW d, NEW s, ~DatasetElsewhere(d, s), UNCHANGED tables
      PROVE  WasOn(d, s)'
  BY <1>1, <1>2 DEF DatasetElsewhere, DatasetsOf, WasOn, TablesOK, tables
<1>3. CASE q.kind = "createEndpoint" /\ Check(c, ~DatasetElsewhere(q.ds, q.id), "clash")
  <2>1. ASSUME ~DatasetElsewhere(q.ds, q.id), UNCHANGED <<tables, req, seen>>, step'[c] = "clash"
        PROVE  Vetted(c)'
    <3>1. WasOn(q.ds, q.id)'
      BY <2>1, <1>2
    <3>2. QED
      BY <1>3, <2>1, <3>1 DEF Vetted
  <2>2. QED
    BY <1>1, <1>3, <2>1, CheckKeeps
<1>4. CASE /\ q.kind = "updateEndpoint"
           /\ LET d == IF q.ds \in {None, 0} THEN seen[c].ds ELSE q.ds
              IN  Check(c, ~DatasetElsewhere(d, seen[c].server), "commit")
  <2> DEFINE d == IF q.ds \in {None, 0} THEN seen[c].ds ELSE q.ds
  <2>1. ASSUME ~DatasetElsewhere(d, seen[c].server), UNCHANGED <<tables, req, seen>>,
               step'[c] = "commit"
        PROVE  Vetted(c)'
    <3>1. WasOn(d, seen[c].server)'
      BY <2>1, <1>2
    <3>2. step[c] = "source"
      BY DEF CheckSource
    <3>3. /\ q.id \in 1 .. next["endpoints"] - 1
          /\ q.id \in DOMAIN endpoints => endpoints[q.id].server = seen[c].server
      BY <1>4, <3>2 DEF Vetted
    <3>4. QED
      BY <1>4, <2>1, <3>1, <3>3 DEF Vetted, tables
  <2>2. Check(c, ~DatasetElsewhere(d, seen[c].server), "commit")
    BY <1>4
  <2> HIDE DEF d
  <2>3. QED
    BY <1>1, <2>1, <2>2, CheckKeeps
<1>5. CASE q.kind = "createRelationship" /\ Check(c, ~DatasetElsewhere(q.rel.source, q.id), "target")
  <2>1. ASSUME ~DatasetElsewhere(q.rel.source, q.id), UNCHANGED <<tables, req, seen>>,
               step'[c] = "target"
        PROVE  Vetted(c)'
    <3>1. WasOn(q.rel.source, q.id)'
      BY <2>1, <1>2
    <3>2. QED
      BY <1>5, <2>1, <3>1 DEF Vetted
  <2>2. QED
    BY <1>1, <1>5, <2>1, CheckKeeps
<1>6. QED
  BY <1>3, <1>4, <1>5 DEF CheckSource

LEMMA CheckTargetKeeps ==
  ASSUME TypeOK, NEW c \in Clients, Vetted(c), CheckTarget(c)
  PROVE  HandlersOK' /\ Vetted(c)' /\ OthersWait(c)
<1> DEFINE q == req[c]
<1>1. TablesOK /\ HandlersOK
  BY DEF TypeOK
<1>2. q.kind = "createRelationship" /\ WasOn(q.rel.source, q.id)
  BY DEF CheckTarget, Vetted
<1>3. ASSUME ~DatasetElsewhere(q.rel.target, q.id), UNCHANGED <<tables, req, seen>>,
             step'[c] = "clash"
      PROVE  Vetted(c)'
  <2>1. WasOn(q.rel.target, q.id)' /\ WasOn(q.rel.source, q.id)'
    BY <1>1, <1>2, <1>3 DEF DatasetElsewhere, DatasetsOf, WasOn, TablesOK, tables
  <2>2. QED
    BY <1>2, <1>3, <2>1 DEF Vetted
<1>4. Check(c, ~DatasetElsewhere(q.rel.target, q.id), "clash")
  BY DEF CheckTarget
<1>5. QED
  BY <1>1, <1>3, <1>4, CheckKeeps

LEMMA CheckClashKeeps ==
  ASSUME TypeOK, NEW c \in Clients, Vetted(c), CheckClash(c)
  PROVE  HandlersOK' /\ Vetted(c)' /\ OthersWait(c)
<1> DEFINE q == req[c]
<1>1. TablesOK /\ HandlersOK /\ step[c] = "clash"
  BY DEF TypeOK, CheckClash
<1>2. ASSUME UNCHANGED <<tables, req, seen>>
      PROVE  /\ q.kind # "updateEndpoint" /\ step'[c] = "commit" => Vetted(c)'
             /\ q.kind = "updateEndpoint" /\ step'[c] = "source" => Vetted(c)'
  BY <1>1, <1>2 DEF Vetted, WasOn, tables
<1>3. ASSUME NEW ok, q.kind # "updateEndpoint", Check(c, ok, "commit")
      PROVE  HandlersOK' /\ Vetted(c)' /\ OthersWait(c)
  <2>1. UNCHANGED <<tables, req, seen>> /\ step'[c] = "commit" => Vetted(c)'
    BY <1>2, <1>3
  <2>2. QED
    BY <1>1, <1>3, <2>1, CheckKeeps
<1>4. ASSUME NEW ok, q.kind = "updateEndpoint", Check(c, ok, "source")
      PROVE  HandlersOK' /\ Vetted(c)' /\ OthersWait(c)
  <2>1. UNCHANGED <<tables, req, seen>> /\ step'[c] = "source" => Vetted(c)'
    BY <1>2, <1>4
  <2>2. QED
    BY <1>1, <1>4, <2>1, CheckKeeps
<1>5. \E ok : \/ q.kind # "updateEndpoint" /\ Check(c, ok, "commit")
              \/ q.kind = "updateEndpoint" /\ Check(c, ok, "source")
  <2>1. CASE q.kind = "updateEndpoint"
    BY <2>1 DEF CheckClash
  <2>2. CASE q.kind # "updateEndpoint"
    BY <2>2 DEF CheckClash
  <2>3. QED
    BY <2>1, <2>2
<1>6. QED
  BY <1>3, <1>4, <1>5

(* The end of a transaction: the handler has the id of a row, or is done.   *)
LEMMA CommitKeeps ==
  ASSUME TypeOK, NEW c \in Clients, Commit(c)
  PROVE  HandlersOK' /\ Vetted(c)' /\ OthersWait(c)
<1> DEFINE q == req[c]
<1>1. CASE q.kind \in DeletingKinds
  <2>1. Finish(c, "ok")
    BY <1>1 DEF Commit
  <2>2. QED
    BY <2>1, FinishKeeps DEF TypeOK
<1>2. CASE q.kind \notin DeletingKinds
  <2>1. /\ step' = [step EXCEPT ![c] = "confirm"]
        /\ made' = [made EXCEPT ![c] = RowMade(q)]
        /\ UNCHANGED <<req, seen, answer>>
    BY <1>2 DEF Commit, Goto
  <2>2. q.kind # "none"
    BY DEF Commit, Write, CreateServer, UpdateServer, DeleteServer, CreateDataset, UpdateDataset,
           DeleteDataset, CreateEndpoint, UpdateEndpoint, DeleteEndpoint, CreateRelationship,
           DeleteRelationship
  <2>3. IsRequest(q)
    BY <2>2, RequestKnown
  <2>4. RowMade(q) \in Nat
    BY <2>3 DEF RowMade, IsRequest, TypeOK, TablesOK, Tables
  <2>5. HandlersOK'
    BY <2>1, <2>4 DEF TypeOK, HandlersOK
  <2>6. step'[c] = "confirm" /\ OthersWait(c)
    BY <2>1 DEF TypeOK, HandlersOK, OthersWait
  <2>7. QED
    BY <2>5, <2>6 DEF Vetted
<1>3. QED
  BY <1>1, <1>2

LEMMA ArriveKeeps ==
  ASSUME TypeOK, NEW c \in Clients, NEW q \in Requests, Arrive(c, q)
  PROVE  HandlersOK' /\ Vetted(c)' /\ OthersWait(c)
<1> DEFINE first == CASE q.kind = "createServer"       -> "clash"
                      [] q.kind = "createRelationship" -> "source"
                      [] OTHER                         -> "require"
<1>1. /\ req' = [req EXCEPT ![c] = q]
      /\ seen' = [seen EXCEPT ![c] = NothingSeen]
      /\ made' = [made EXCEPT ![c] = 0]
      /\ answer' = [answer EXCEPT ![c] = "none"]
      /\ step' = [step EXCEPT ![c] = first]
  BY DEF Arrive, Goto, Answer
<1>2. first \in {"clash", "source", "require"}
  OBVIOUS
<1>3. /\ q.kind = "createServer" => first = "clash"
      /\ q.kind = "createRelationship" => first = "source"
      /\ q.kind \notin {"createServer", "createRelationship"} => first = "require"
  OBVIOUS
<1> HIDE DEF first
<1>4. HandlersOK' /\ OthersWait(c)
  BY <1>1, <1>2 DEF TypeOK, HandlersOK, OthersWait, NothingSeen
<1>5. req'[c] = q /\ step'[c] = first
  BY <1>1 DEF TypeOK, HandlersOK
<1>6. Vetted(c)'
  BY <1>2, <1>3, <1>5 DEF Vetted
<1>7. QED
  BY <1>4, <1>6

(* Every step of a handler keeps its client vetted and leaves the tables    *)
(* good.                                                                    *)
LEMMA HandleKeeps ==
  ASSUME IInv, NEW c \in Clients, Handle(c)
  PROVE  Good /\ HandlersOK' /\ Vetted(c)' /\ OthersWait(c)
<1>1. TypeOK /\ TablesOK /\ HandlersOK /\ OwnData /\ Vetted(c)
  BY DEF IInv, TypeOK
<1>2. UNCHANGED tables => Good
  BY <1>1, NothingWritten
<1>3. CASE Require(c)
  BY <1>1, <1>2, <1>3, RequireKeeps DEF Require
<1>4. CASE CheckSource(c)
  <2>1. UNCHANGED tables
    BY <1>4 DEF CheckSource, Check
  <2>2. QED
    BY <1>1, <1>2, <1>4, <2>1, CheckSourceKeeps
<1>5. CASE CheckTarget(c)
  <2>1. UNCHANGED tables
    BY <1>5 DEF CheckTarget, Check
  <2>2. QED
    BY <1>1, <1>2, <1>5, <2>1, CheckTargetKeeps
<1>6. CASE CheckClash(c)
  <2>1. UNCHANGED tables
    BY <1>6 DEF CheckClash, Check
  <2>2. QED
    BY <1>1, <1>2, <1>6, <2>1, CheckClashKeeps
<1>7. CASE Commit(c)
  <2>1. Good
    BY <1>7, WriteGood DEF Commit
  <2>2. QED
    BY <1>1, <1>7, <2>1, CommitKeeps
<1>8. CASE CommitBreaks(c) \/ CommitBusy(c) \/ Confirm(c)
  <2>1. UNCHANGED tables
    BY <1>8 DEF CommitBreaks, CommitBusy, Confirm
  <2>2. \E a \in {"ok", "refused", "broken", "busy"} : Finish(c, a)
    BY <1>8 DEF CommitBreaks, CommitBusy, Confirm
  <2>3. QED
    BY <1>1, <1>2, <2>1, <2>2, FinishKeeps
<1>9. QED
  BY <1>3, <1>4, <1>5, <1>6, <1>7, <1>8 DEF Handle

-------------------------------------------------------------------------------
(* One step of one client, seen by all.                                     *)
LEMMA ClientKeeps ==
  ASSUME IInv, NEW c \in Clients, Good, HandlersOK', Vetted(c)', OthersWait(c)
  PROVE  IInv'
<1>1. ASSUME NEW d \in Clients, d # c
      PROVE  Vetted(d)'
  BY <1>1, StillVetted DEF IInv, TypeOK, Good, OthersWait
<1>2. QED
  BY <1>1 DEF IInv, TypeOK, Good

LEMMA InitIInv == Init => IInv
<1> SUFFICES ASSUME Init
             PROVE  IInv
  OBVIOUS
<1>1. TablesOK
  BY DEF Init, TablesOK, Tables
<1>2. HandlersOK
  BY DEF Init, HandlersOK, NothingSeen
<1>3. OwnData
  BY DEF Init, OwnData
<1>4. \A c \in Clients : Vetted(c)
  BY DEF Init, Vetted, NoRequest
<1>5. QED
  BY <1>1, <1>2, <1>3, <1>4 DEF IInv, TypeOK

LEMMA StepGood == IInv /\ [Next]_vars => IInv' /\ Good
<1> SUFFICES ASSUME IInv, [Next]_vars
             PROVE  IInv' /\ Good
  OBVIOUS
<1>1. TypeOK /\ TablesOK /\ HandlersOK /\ OwnData
  BY DEF IInv, TypeOK
<1>2. UNCHANGED tables => Good
  BY <1>1, NothingWritten
<1>3. ASSUME NEW c \in Clients, NEW q \in Requests, Arrive(c, q)
      PROVE  IInv' /\ Good
  <2>1. Good
    BY <1>2, <1>3 DEF Arrive
  <2>2. QED
    BY <1>1, <1>3, <2>1, ArriveKeeps, ClientKeeps
<1>4. ASSUME NEW c \in Clients, Handle(c)
      PROVE  IInv' /\ Good
  BY <1>4, HandleKeeps, ClientKeeps
<1>5. CASE Crash
  <2>1. Good
    BY <1>2, <1>5 DEF Crash
  <2>2. HandlersOK'
    BY <1>1, <1>5 DEF Crash, HandlersOK, NothingSeen
  <2>3. \A c \in Clients : Vetted(c)'
    BY <1>5 DEF Crash, Vetted, NoRequest
  <2>4. QED
    BY <2>1, <2>2, <2>3 DEF IInv, TypeOK, Good
<1>6. CASE UNCHANGED vars
  <2>1. Good
    BY <1>2, <1>6 DEF vars
  <2>2. HandlersOK'
    BY <1>1, <1>6 DEF vars, handlers, HandlersOK
  <2>3. ASSUME NEW c \in Clients
        PROVE  Vetted(c)'
    BY <1>6, <2>1, <1>1, StillVetted DEF IInv, Good, vars, handlers
  <2>4. QED
    BY <2>1, <2>2, <2>3 DEF IInv, TypeOK, Good
<1>7. QED
  BY <1>3, <1>4, <1>5, <1>6 DEF Next

(* The inductive invariant: the tables refer to rows that exist and stay on *)
(* their server, and what the handler of each client has vetted so far is   *)
(* still true when its transaction comes, whoever wrote in between.         *)
THEOREM Inductive == Spec => []IInv
<1>1. Init => IInv
  BY InitIInv
<1>2. IInv /\ [Next]_vars => IInv'
  BY StepGood
<1>3. QED
  BY <1>1, <1>2, PTL DEF Spec

(* Every table and every handler has its type in every reachable state.     *)
THEOREM TypeCorrect == Spec => []TypeOK
<1>1. IInv => TypeOK
  BY DEF IInv
<1>2. QED
  BY <1>1, Inductive, PTL

(* Tools and relationships stay on their own server: the dataset that an    *)
(* endpoint or a relationship was checked against can be deleted before the *)
(* write, but neither its id nor its server changes, and a foreign key      *)
(* refuses what is gone.                                                    *)
THEOREM ToolsStayHome == Spec => []OwnData
<1>1. IInv => OwnData
  BY DEF IInv
<1>2. QED
  BY <1>1, Inductive, PTL

(* The servers of a cohort are independent: every transaction, with the     *)
(* rows that cascade, changes the content of one server at most.            *)
THEOREM Isolation == Spec => IsolatedServers
<1>1. IInv /\ [Next]_vars =>
        [\A s, t \in DOMAIN servers : s # t => Unchanged(s) \/ Unchanged(t)]_vars
  <2> SUFFICES ASSUME IInv, [Next]_vars,
                      NEW s \in DOMAIN servers, NEW t \in DOMAIN servers, s # t
               PROVE  Unchanged(s) \/ Unchanged(t)
    OBVIOUS
  <2>1. PICK o : OnlyServer(o)
    BY StepGood DEF Good
  <2>2. QED
    BY <2>1 DEF OnlyServer
<1>2. QED
  BY <1>1, Inductive, PTL DEF Spec, IsolatedServers

-------------------------------------------------------------------------------
(* The rows that are inserted for a server, one by one.                     *)

LEMMA RankGrows ==
  ASSUME NEW S, IsFiniteSet(S), S \subseteq Nat, NEW m \in S, NEW n \in S, m < n
  PROVE  Rank(m, S) < Rank(n, S)
<1> DEFINE T == {k \in S : k < m}
           U == {k \in S : k < n}
<1>1. T \in SUBSET U /\ U \in SUBSET S /\ m \in U /\ m \notin T
  <2>1. \A k \in S : k < m => k < n
    OBVIOUS
  <2>2. ~(m < m)
    OBVIOUS
  <2>3. QED
    BY <2>1, <2>2
<1>2. IsFiniteSet(U)
  BY <1>1, FS_Subset
<1>3. /\ IsFiniteSet(T)
      /\ Cardinality(T) <= Cardinality(U)
      /\ Cardinality(U) = Cardinality(T) => U = T
  BY <1>1, <1>2, FS_Subset
<1>4. Cardinality(U) \in Nat /\ Cardinality(T) \in Nat
  BY <1>2, <1>3, FS_CardinalityType
<1>5. Cardinality(U) # Cardinality(T)
  BY <1>1, <1>3
<1>6. QED
  BY <1>3, <1>4, <1>5 DEF Rank

(* The table g is f with a row for each name of S.                          *)
Added(f, t, S, row, g) ==
  /\ DOMAIN g = DOMAIN f \cup {IdIn(t, n, S) : n \in S}
  /\ \A x \in DOMAIN f : g[x] = f[x]
  /\ \A n \in S : IdIn(t, n, S) \notin DOMAIN f /\ g[IdIn(t, n, S)] = row[n]
  /\ \A m, n \in S : IdIn(t, m, S) = IdIn(t, n, S) => m = n

LEMMA RowsAdded ==
  ASSUME NEW t \in Tables, next[t] \in Nat \ {0},
         NEW S, IsFiniteSet(S), S \subseteq Nat, NEW row,
         NEW f, DOMAIN f \subseteq 1 .. next[t] - 1,
         NEW g, g = With(f, RowsFor(t, S, row))
  PROVE  Added(f, t, S, row, g)
<1> DEFINE ids == {IdIn(t, n, S) : n \in S}
           rows == RowsFor(t, S, row)
<1>1. \A n \in S : Rank(n, S) \in Nat /\ IdIn(t, n, S) >= next[t] /\ IdIn(t, n, S) \in Nat
  <2>1. \A n \in S : Rank(n, S) \in Nat
    BY RankBound
  <2>2. QED
    BY <2>1 DEF IdIn
<1>2. ASSUME NEW m \in S, NEW n \in S, IdIn(t, m, S) = IdIn(t, n, S)
      PROVE  m = n
  <2>1. Rank(m, S) = Rank(n, S)
    BY <1>1, <1>2 DEF IdIn
  <2>2. m \in Nat /\ n \in Nat
    OBVIOUS
  <2>3. ~(m < n)
    <3>1. SUFFICES ASSUME m < n
                   PROVE  FALSE
      OBVIOUS
    <3>2. Rank(m, S) < Rank(n, S)
      BY <3>1, RankGrows
    <3>3. QED
      BY <3>2, <2>1, <1>1
  <2>4. ~(n < m)
    <3>1. SUFFICES ASSUME n < m
                   PROVE  FALSE
      OBVIOUS
    <3>2. Rank(n, S) < Rank(m, S)
      BY <3>1, RankGrows
    <3>3. QED
      BY <3>2, <2>1, <1>1
  <2>5. QED
    BY <2>2, <2>3, <2>4
<1>3. DOMAIN rows = ids
  BY DEF RowsFor
<1>4. ASSUME NEW n \in S
      PROVE  rows[IdIn(t, n, S)] = row[n]
  <2> DEFINE x == IdIn(t, n, S)
             m == CHOOSE k \in S : IdIn(t, k, S) = x
  <2>1. m \in S /\ IdIn(t, m, S) = x
    OBVIOUS
  <2>2. m = n
    BY <2>1, <1>2
  <2>3. rows[x] = row[m]
    BY DEF RowsFor
  <2>4. QED
    BY <2>2, <2>3
<1>5. \A n \in S : IdIn(t, n, S) \notin DOMAIN f
  BY <1>1
<1> HIDE DEF rows
<1>6. /\ DOMAIN g = DOMAIN f \cup ids
      /\ \A x \in DOMAIN f : x \notin ids => g[x] = f[x]
      /\ \A x \in ids : g[x] = rows[x]
  BY <1>3 DEF With, rows
<1>7. \A x \in DOMAIN f : x \notin ids
  BY <1>5
<1>8. QED
  BY <1>2, <1>4, <1>5, <1>6, <1>7 DEF Added

(* The rows of a server that is made with the content b.                    *)
NewDatasets(b) == [k \in b.keys |-> [server |-> next["servers"], key |-> k]]

NewDatasetOf(b, k) == IdIn("datasets", k, b.keys)

NewEndpoints(b) ==
  [t \in DOMAIN b.tools |->
     [server |-> next["servers"], tool |-> t, ds |-> NewDatasetOf(b, b.tools[t])]]

NewRels(b) ==
  [n \in DOMAIN b.rels |->
     [server |-> next["servers"], name |-> n,
      rel |-> [b.rels[n] EXCEPT !.source = NewDatasetOf(b, @), !.target = NewDatasetOf(b, @)]]]

ServerInserted(slug, b) ==
  /\ next["servers"] \notin DOMAIN servers
  /\ DOMAIN servers' = DOMAIN servers \cup {next["servers"]}
  /\ servers'[next["servers"]] = slug
  /\ \A x \in DOMAIN servers : servers'[x] = servers[x]
  /\ Added(datasets, "datasets", b.keys, NewDatasets(b), datasets')
  /\ Added(endpoints, "endpoints", DOMAIN b.tools, NewEndpoints(b), endpoints')
  /\ Added(rels, "rels", DOMAIN b.rels, NewRels(b), rels')

LEMMA ServerIsInserted ==
  ASSUME TablesOK, NEW slug, NEW b, IsBundle(b), InsertServer(slug, b)
  PROVE  ServerInserted(slug, b)
<1>1. /\ IsFiniteSet(b.keys) /\ b.keys \subseteq Nat
      /\ IsFiniteSet(DOMAIN b.tools) /\ DOMAIN b.tools \subseteq Nat
      /\ IsFiniteSet(DOMAIN b.rels) /\ DOMAIN b.rels \subseteq Nat
  BY CatalogAssumption DEF IsBundle
<1>2. /\ "datasets" \in Tables /\ "endpoints" \in Tables /\ "rels" \in Tables
      /\ \A t \in Tables : next[t] \in Nat \ {0}
      /\ "servers" \in Tables
  BY DEF TablesOK, Tables
<1>3. datasets' = With(datasets, RowsFor("datasets", b.keys, NewDatasets(b)))
  BY DEF InsertServer, NewDatasets
<1>4. endpoints' = With(endpoints, RowsFor("endpoints", DOMAIN b.tools, NewEndpoints(b)))
  BY DEF InsertServer, NewEndpoints, NewDatasetOf
<1>5. rels' = With(rels, RowsFor("rels", DOMAIN b.rels, NewRels(b)))
  BY DEF InsertServer, NewRels, NewDatasetOf
<1>6. Added(datasets, "datasets", b.keys, NewDatasets(b), datasets')
  BY <1>1, <1>2, <1>3, RowsAdded DEF TablesOK
<1>7. Added(endpoints, "endpoints", DOMAIN b.tools, NewEndpoints(b), endpoints')
  BY <1>1, <1>2, <1>4, RowsAdded DEF TablesOK
<1>8. Added(rels, "rels", DOMAIN b.rels, NewRels(b), rels')
  BY <1>1, <1>2, <1>5, RowsAdded DEF TablesOK
<1>9. /\ next["servers"] \notin DOMAIN servers
      /\ DOMAIN servers' = DOMAIN servers \cup {next["servers"]}
      /\ servers'[next["servers"]] = slug
      /\ \A x \in DOMAIN servers : servers'[x] = servers[x]
  <2> DEFINE s == next["servers"]
  <2>1. s \notin DOMAIN servers
    BY <1>2 DEF TablesOK
  <2>2. servers' = With(servers, [x \in {s} |-> slug])
    BY DEF InsertServer, One
  <2> HIDE DEF s
  <2>3. QED
    BY <2>1, <2>2 DEF With, s
<1>10. QED
  BY <1>6, <1>7, <1>8, <1>9 DEF ServerInserted

-------------------------------------------------------------------------------
(* Only a transaction writes.                                               *)
LEMMA TablesWritten == [Next]_vars => UNCHANGED tables \/ \E c \in Clients : Commit(c)
<1> SUFFICES ASSUME [Next]_vars, ~\E c \in Clients : Commit(c)
             PROVE  UNCHANGED tables
  OBVIOUS
<1>1. CASE \E c \in Clients : Handle(c)
  BY <1>1 DEF Handle, Require, CheckSource, CheckTarget, CheckClash, Check, CommitBreaks,
              CommitBusy, Confirm
<1>2. CASE \E c \in Clients, q \in Requests : Arrive(c, q)
  BY <1>2 DEF Arrive
<1>3. CASE Crash \/ UNCHANGED vars
  BY <1>3 DEF Crash, vars
<1>4. QED
  BY <1>1, <1>2, <1>3 DEF Next

(* Names that are taken once.                                               *)

UniqueSlugs == \A s, t \in DOMAIN servers : servers[s] = servers[t] => s = t

UniqueKeys == \A d, e \in DOMAIN datasets : datasets[d] = datasets[e] => d = e

UniqueTools ==
  \A d, e \in DOMAIN endpoints :
    endpoints[d].server = endpoints[e].server /\ endpoints[d].tool = endpoints[e].tool => d = e

UniqueRelNames ==
  \A d, e \in DOMAIN rels :
    rels[d].server = rels[e].server /\ rels[d].name = rels[e].name => d = e

(* A new server has its own keys, tools and relationship names: its id is   *)
(* on no row yet.                                                           *)
LEMMA InsertServerUnique ==
  ASSUME TablesOK, OwnData, UniqueNames, NEW slug, NEW b, IsBundle(b),
         ~SlugTaken(slug, 0), ServerInserted(slug, b)
  PROVE  UniqueNames'
<1> DEFINE s == next["servers"]
<1>1. /\ s \notin DOMAIN servers
      /\ \A d \in DOMAIN datasets : datasets[d].server # s
      /\ \A e \in DOMAIN endpoints : endpoints[e].server # s
      /\ \A r \in DOMAIN rels : rels[r].server # s
  BY DEF ServerInserted, OwnData, DatasetsOf
<1>2. UniqueSlugs'
  <2>1. \A x \in DOMAIN servers : servers[x] # slug
    BY DEF SlugTaken, TablesOK
  <2>2. UniqueSlugs
    BY DEF UniqueSlugs, UniqueNames
  <2>3. QED
    BY <2>1, <2>2 DEF UniqueSlugs, ServerInserted
<1>3. UniqueKeys'
  <2>1. Added(datasets, "datasets", b.keys, NewDatasets(b), datasets')
    BY DEF ServerInserted
  <2>2. \A k \in b.keys : NewDatasets(b)[k].server = s /\ NewDatasets(b)[k].key = k
    BY DEF NewDatasets
  <2>3. UniqueKeys
    BY DEF UniqueKeys, UniqueNames
  <2>4. \A k, l \in b.keys : NewDatasets(b)[k] = NewDatasets(b)[l] => k = l
    BY <2>2
  <2>5. \A k \in b.keys, d \in DOMAIN datasets : NewDatasets(b)[k] # datasets[d]
    BY <2>2, <1>1
  <2>6. QED
    BY <2>1, <2>3, <2>4, <2>5 DEF UniqueKeys, Added
<1>4. UniqueTools'
  <2>1. Added(endpoints, "endpoints", DOMAIN b.tools, NewEndpoints(b), endpoints')
    BY DEF ServerInserted
  <2>2. \A t \in DOMAIN b.tools : NewEndpoints(b)[t].server = s /\ NewEndpoints(b)[t].tool = t
    BY DEF NewEndpoints
  <2>3. UniqueTools
    BY DEF UniqueTools, UniqueNames
  <2>4. QED
    BY <2>1, <2>2, <2>3, <1>1 DEF UniqueTools, Added
<1>5. UniqueRelNames'
  <2>1. Added(rels, "rels", DOMAIN b.rels, NewRels(b), rels')
    BY DEF ServerInserted
  <2>2. \A n \in DOMAIN b.rels : NewRels(b)[n].server = s /\ NewRels(b)[n].name = n
    BY DEF NewRels
  <2>3. UniqueRelNames
    BY DEF UniqueRelNames, UniqueNames
  <2>4. QED
    BY <2>1, <2>2, <2>3, <1>1 DEF UniqueRelNames, Added
<1>6. QED
  BY <1>2, <1>3, <1>4, <1>5 DEF UniqueNames, UniqueSlugs, UniqueKeys, UniqueTools, UniqueRelNames

(* The table g has only rows of f.                                          *)
RowsOf(f, g) == DOMAIN g \subseteq DOMAIN f /\ \A x \in DOMAIN g : g[x] = f[x]

(* What a deletion leaves has the names it had.                             *)
LEMMA FewerRowsUnique ==
  ASSUME UniqueNames, RowsOf(servers, servers'), RowsOf(datasets, datasets'),
         RowsOf(endpoints, endpoints'), RowsOf(rels, rels')
  PROVE  UniqueNames'
<1>1. UniqueSlugs'
  BY DEF UniqueSlugs, UniqueNames, RowsOf
<1>2. UniqueKeys'
  BY DEF UniqueKeys, UniqueNames, RowsOf
<1>3. UniqueTools'
  BY DEF UniqueTools, UniqueNames, RowsOf
<1>4. UniqueRelNames'
  BY DEF UniqueRelNames, UniqueNames, RowsOf
<1>5. QED
  BY <1>1, <1>2, <1>3, <1>4 DEF UniqueNames, UniqueSlugs, UniqueKeys, UniqueTools, UniqueRelNames

(* The transactions, where no constraint of the schema refuses.             *)
LEMMA WriteUnique ==
  ASSUME IInv, UniqueNames, NEW c \in Clients, step[c] = "commit", ~Breaks(c), Write(req[c])
  PROVE  UniqueNames'
<1> DEFINE q == req[c]
<1>1. TypeOK /\ TablesOK /\ OwnData
  BY DEF IInv, TypeOK
<1>2. q.kind # "none"
  BY DEF Write, CreateServer, UpdateServer, DeleteServer, CreateDataset, UpdateDataset,
         DeleteDataset, CreateEndpoint, UpdateEndpoint, DeleteEndpoint, CreateRelationship,
         DeleteRelationship
<1>3. IsRequest(q)
  BY <1>1, <1>2, RequestKnown
<1>4. ASSUME NEW b, IsBundle(b), q.kind \in {"createServer", "cloneServer"},
             InsertServer(q.slug, b)
      PROVE  UniqueNames'
  <2>1. ~SlugTaken(q.slug, 0)
    BY <1>4 DEF Breaks
  <2>2. ServerInserted(q.slug, b)
    BY <1>1, <1>4, ServerIsInserted
  <2>3. QED
    BY <1>1, <1>4, <2>1, <2>2, InsertServerUnique
<1>5. ASSUME CreateServer(q)
      PROVE  UniqueNames'
  <2>1. CASE q.kind = "createServer" /\ InsertServer(q.slug, q.bundle)
    BY <1>3, <1>4, <2>1 DEF IsRequest
  <2>2. CASE q.kind = "cloneServer" /\ InsertServer(q.slug, BundleOf(q.id))
    BY <1>1, <1>4, <2>2, ContentIsBundle
  <2>3. QED
    BY <1>5, <2>1, <2>2 DEF CreateServer
<1>6. ASSUME UpdateServer(q)
      PROVE  UniqueNames'
  <2>1. q.id \in DOMAIN servers => ~SlugTaken(q.slug, q.id)
    BY <1>6 DEF Breaks, UpdateServer
  <2>2. UniqueSlugs'
    BY <1>6, <2>1 DEF UpdateServer, SlugTaken, UniqueNames, UniqueSlugs
  <2>3. QED
    BY <1>6, <2>2 DEF UpdateServer, UniqueNames, UniqueSlugs
<1>7. ASSUME CreateDataset(q)
      PROVE  UniqueNames'
  <2>1. ~KeyTaken(q.id, q.key, 0)
    BY <1>7 DEF Breaks, CreateDataset
  <2>2. \A d \in DOMAIN datasets : datasets[d] # [server |-> q.id, key |-> q.key]
    BY <1>1, <2>1 DEF KeyTaken, DatasetsOf, TablesOK
  <2>3. UniqueKeys'
    <3> DEFINE new == next["datasets"]
    <3>1. /\ DOMAIN datasets' = DOMAIN datasets \cup {new} /\ new \notin DOMAIN datasets
          /\ \A x \in DOMAIN datasets : datasets'[x] = datasets[x]
          /\ datasets'[new] = [server |-> q.id, key |-> q.key]
      BY <1>1, <1>7 DEF CreateDataset, With, One, TablesOK, Tables
    <3>2. UniqueKeys
      BY DEF UniqueNames, UniqueKeys
    <3> HIDE DEF new
    <3>3. QED
      BY <2>2, <3>1, <3>2 DEF UniqueKeys
  <2>4. QED
    BY <1>7, <2>3 DEF CreateDataset, UniqueNames, UniqueKeys
<1>8. ASSUME UpdateDataset(q)
      PROVE  UniqueNames'
  <2>1. q.id \in DOMAIN datasets => ~KeyTaken(datasets[q.id].server, q.key, q.id)
    BY <1>8 DEF Breaks, UpdateDataset
  <2>2. q.key \in Names
    BY <1>3, <1>8 DEF IsRequest, UpdateDataset
  <2>3. /\ DOMAIN datasets' = DOMAIN datasets
        /\ \A d \in DOMAIN datasets : d # q.id => datasets'[d] = datasets[d]
        /\ q.id \in DOMAIN datasets =>
             datasets'[q.id] = [server |-> datasets[q.id].server, key |-> q.key]
    BY <1>1, <1>8, <2>2 DEF UpdateDataset, TablesOK
  <2>4. \A d \in DOMAIN datasets : q.id \in DOMAIN datasets /\ d # q.id =>
          datasets[d] # [server |-> datasets[q.id].server, key |-> q.key]
    BY <2>1 DEF KeyTaken, DatasetsOf
  <2>5. UniqueKeys'
    BY <2>3, <2>4 DEF UniqueNames, UniqueKeys
  <2>6. QED
    BY <1>8, <2>5 DEF UpdateDataset, UniqueNames, UniqueKeys
<1>9. ASSUME CreateEndpoint(q)
      PROVE  UniqueNames'
  <2>1. ~ToolTaken(q.id, q.tool, 0)
    BY <1>9 DEF Breaks, CreateEndpoint
  <2>2. \A e \in DOMAIN endpoints : ~(endpoints[e].server = q.id /\ endpoints[e].tool = q.tool)
    BY <1>1, <2>1 DEF ToolTaken, EndpointsOf, TablesOK
  <2>3. UniqueTools'
    <3> DEFINE new == next["endpoints"]
    <3>1. /\ DOMAIN endpoints' = DOMAIN endpoints \cup {new} /\ new \notin DOMAIN endpoints
          /\ \A x \in DOMAIN endpoints : endpoints'[x] = endpoints[x]
          /\ endpoints'[new].server = q.id /\ endpoints'[new].tool = q.tool
      BY <1>1, <1>9 DEF CreateEndpoint, With, One, TablesOK, Tables
    <3>2. UniqueTools
      BY DEF UniqueNames, UniqueTools
    <3> HIDE DEF new
    <3>3. QED
      BY <2>2, <3>1, <3>2 DEF UniqueTools
  <2>4. QED
    BY <1>9, <2>3 DEF CreateEndpoint, UniqueNames, UniqueTools
<1>10. ASSUME UpdateEndpoint(q)
       PROVE  UniqueNames'
  <2>1. q.id \in DOMAIN endpoints =>
          q.tool = None \/ ~ToolTaken(endpoints[q.id].server, q.tool, q.id)
    BY <1>10 DEF Breaks, UpdateEndpoint
  <2>2. /\ DOMAIN endpoints' = DOMAIN endpoints
        /\ \A e \in DOMAIN endpoints : e # q.id => endpoints'[e] = endpoints[e]
        /\ q.id \in DOMAIN endpoints =>
             /\ endpoints'[q.id].server = endpoints[q.id].server
             /\ endpoints'[q.id].tool = IF q.tool = None THEN endpoints[q.id].tool ELSE q.tool
    BY <1>1, <1>10 DEF UpdateEndpoint, TablesOK
  <2>3. UniqueTools'
    <3>1. UniqueTools
      BY DEF UniqueNames, UniqueTools
    <3>2. \A e \in DOMAIN endpoints : q.id \in DOMAIN endpoints /\ e # q.id =>
            ~(endpoints[e].server = endpoints'[q.id].server /\ endpoints[e].tool = endpoints'[q.id].tool)
      BY <2>1, <2>2, <3>1 DEF ToolTaken, EndpointsOf, UniqueTools
    <3>3. QED
      BY <2>2, <3>1, <3>2 DEF UniqueTools
  <2>4. QED
    BY <1>10, <2>3 DEF UpdateEndpoint, UniqueNames, UniqueTools
<1>11. ASSUME CreateRelationship(q)
       PROVE  UniqueNames'
  <2>1. ~RelNameTaken(q.id, q.name)
    BY <1>11 DEF Breaks, CreateRelationship
  <2>2. \A r \in DOMAIN rels : ~(rels[r].server = q.id /\ rels[r].name = q.name)
    BY <2>1 DEF RelNameTaken, RelsOf
  <2>3. UniqueRelNames'
    <3> DEFINE new == next["rels"]
    <3>1. /\ DOMAIN rels' = DOMAIN rels \cup {new} /\ new \notin DOMAIN rels
          /\ \A x \in DOMAIN rels : rels'[x] = rels[x]
          /\ rels'[new].server = q.id /\ rels'[new].name = q.name
      BY <1>1, <1>11 DEF CreateRelationship, With, One, TablesOK, Tables
    <3>2. UniqueRelNames
      BY DEF UniqueNames, UniqueRelNames
    <3> HIDE DEF new
    <3>3. QED
      BY <2>2, <3>1, <3>2 DEF UniqueRelNames
  <2>4. QED
    BY <1>11, <2>3 DEF CreateRelationship, UniqueNames, UniqueRelNames
<1>12. ASSUME DeleteServer(q) \/ DeleteDataset(q) \/ DeleteEndpoint(q) \/ DeleteRelationship(q)
       PROVE  UniqueNames'
  <2>1. RowsOf(servers, servers') /\ RowsOf(datasets, datasets')
    BY <1>12 DEF DeleteServer, DeleteDataset, DeleteEndpoint, DeleteRelationship, Restrict, RowsOf
  <2>2. RowsOf(endpoints, endpoints') /\ RowsOf(rels, rels')
    BY <1>12 DEF DeleteServer, DeleteDataset, DeleteEndpoint, DeleteRelationship, Restrict, RowsOf,
                 EndpointsWithout, RelsWithout
  <2>3. QED
    BY <2>1, <2>2, FewerRowsUnique
<1>13. QED
  BY <1>5, <1>6, <1>7, <1>8, <1>9, <1>10, <1>11, <1>12 DEF Write

(* Two requests that found the same slug, key or tool name free do not both *)
(* get it: the second transaction meets the constraint of the schema.       *)
THEOREM NamesStayUnique == Spec => []UniqueNames
<1>1. Init => UniqueNames
  BY DEF Init, UniqueNames
<1>2. IInv /\ UniqueNames /\ [Next]_vars => UniqueNames'
  <2> SUFFICES ASSUME IInv, UniqueNames, [Next]_vars
               PROVE  UniqueNames'
    OBVIOUS
  <2>1. ASSUME UNCHANGED tables
        PROVE  UniqueNames'
    BY <2>1 DEF tables, UniqueNames
  <2>2. ASSUME NEW c \in Clients, Commit(c)
        PROVE  UniqueNames'
    BY <2>2, WriteUnique DEF Commit
  <2>3. UNCHANGED tables \/ \E c \in Clients : Commit(c)
    BY TablesWritten
  <2>4. QED
    BY <2>1, <2>2, <2>3
<1>3. QED
  BY <1>1, <1>2, Inductive, PTL DEF Spec

-------------------------------------------------------------------------------
(* What was inserted is what was to be copied.                              *)
LEMMA CopyIsFaithful ==
  ASSUME OwnData, NEW slug, NEW b, IsBundle(b), ServerInserted(slug, b),
         NEW s, s = next["servers"]
  PROVE  BundleOf(s)' = b
<1> DEFINE dsId(k) == NewDatasetOf(b, k)
           epId(t) == IdIn("endpoints", t, DOMAIN b.tools)
           relId(n) == IdIn("rels", n, DOMAIN b.rels)
           copied(n) == [b.rels[n] EXCEPT !.source = dsId(@), !.target = dsId(@)]
           ds == DatasetsOf(s)'
           es == EndpointsOf(s)'
           rs == RelsOf(s)'
           ToolOf(t) == CHOOSE e \in es : endpoints'[e].tool = t
           RelOf(n)  == CHOOSE r \in rs : rels'[r].name = n
           K == {datasets'[d].key : d \in ds}
           tools == [t \in {endpoints'[e].tool : e \in es} |->
                       datasets'[endpoints'[ToolOf(t)].ds].key]
           joins == [n \in {rels'[r].name : r \in rs} |->
                       [rels'[RelOf(n)].rel EXCEPT !.source = datasets'[@].key,
                                                   !.target = datasets'[@].key]]
<1>1. BundleOf(s)' = [keys |-> K, tools |-> tools, rels |-> joins]
  BY DEF BundleOf
<1>2. /\ \A d \in DOMAIN datasets : datasets[d].server # s
      /\ \A e \in DOMAIN endpoints : endpoints[e].server # s
      /\ \A r \in DOMAIN rels : rels[r].server # s
  BY DEF ServerInserted, OwnData, DatasetsOf
<1>3. /\ ds = {dsId(k) : k \in b.keys}
      /\ \A k \in b.keys : datasets'[dsId(k)].key = k
  <2>1. \A k \in b.keys : NewDatasets(b)[k].server = s /\ NewDatasets(b)[k].key = k
    BY DEF NewDatasets
  <2>2. Added(datasets, "datasets", b.keys, NewDatasets(b), datasets')
    BY DEF ServerInserted
  <2>3. \A k \in b.keys : dsId(k) \in ds
    BY <2>1, <2>2 DEF Added, DatasetsOf, NewDatasetOf
  <2>4. \A d \in ds : \E k \in b.keys : d = dsId(k)
    BY <2>2, <1>2 DEF Added, DatasetsOf, NewDatasetOf
  <2>5. \A k \in b.keys : datasets'[dsId(k)].key = k
    BY <2>1, <2>2 DEF Added, NewDatasetOf
  <2>6. QED
    BY <2>3, <2>4, <2>5
<1>4. /\ es = {epId(t) : t \in DOMAIN b.tools}
      /\ \A t \in DOMAIN b.tools : /\ endpoints'[epId(t)].tool = t
                                   /\ endpoints'[epId(t)].ds = dsId(b.tools[t])
  <2>1. \A t \in DOMAIN b.tools : /\ NewEndpoints(b)[t].server = s
                                  /\ NewEndpoints(b)[t].tool = t
                                  /\ NewEndpoints(b)[t].ds = dsId(b.tools[t])
    BY DEF NewEndpoints
  <2>2. Added(endpoints, "endpoints", DOMAIN b.tools, NewEndpoints(b), endpoints')
    BY DEF ServerInserted
  <2>3. \A t \in DOMAIN b.tools : epId(t) \in es
    BY <2>1, <2>2 DEF Added, EndpointsOf
  <2>4. \A e \in es : \E t \in DOMAIN b.tools : e = epId(t)
    BY <2>2, <1>2 DEF Added, EndpointsOf
  <2>5. \A t \in DOMAIN b.tools : /\ endpoints'[epId(t)].tool = t
                                  /\ endpoints'[epId(t)].ds = dsId(b.tools[t])
    BY <2>1, <2>2 DEF Added
  <2>6. QED
    BY <2>3, <2>4, <2>5
<1>5. /\ rs = {relId(n) : n \in DOMAIN b.rels}
      /\ \A n \in DOMAIN b.rels :
           /\ rels'[relId(n)].name = n
           /\ rels'[relId(n)].rel = copied(n)
  <2>1. \A n \in DOMAIN b.rels :
          /\ NewRels(b)[n].server = s
          /\ NewRels(b)[n].name = n
          /\ NewRels(b)[n].rel = copied(n)
    BY DEF NewRels
  <2> HIDE DEF copied
  <2>2. Added(rels, "rels", DOMAIN b.rels, NewRels(b), rels')
    BY DEF ServerInserted
  <2>3. \A n \in DOMAIN b.rels : relId(n) \in rs
    BY <2>1, <2>2 DEF Added, RelsOf
  <2>4. \A r \in rs : \E n \in DOMAIN b.rels : r = relId(n)
    BY <2>2, <1>2 DEF Added, RelsOf
  <2>5. \A n \in DOMAIN b.rels :
          /\ rels'[relId(n)].name = n
          /\ rels'[relId(n)].rel = copied(n)
    BY <2>1, <2>2 DEF Added
  <2>6. QED
    BY <2>3, <2>4, <2>5
<1> HIDE DEF dsId, epId, relId, copied, ds, es, rs
<1>6. K = b.keys
  BY <1>3
<1>7. tools = b.tools
  <2>1. {endpoints'[e].tool : e \in es} = DOMAIN b.tools
    BY <1>4
  <2>2. ASSUME NEW t \in DOMAIN b.tools
        PROVE  datasets'[endpoints'[ToolOf(t)].ds].key = b.tools[t]
    <3>1. epId(t) \in es /\ endpoints'[epId(t)].tool = t
      BY <1>4
    <3>2. ToolOf(t) \in es /\ endpoints'[ToolOf(t)].tool = t
      BY <3>1
    <3>3. ToolOf(t) = epId(t)
      BY <3>2, <1>4
    <3>4. b.tools[t] \in b.keys
      BY <2>2 DEF IsBundle
    <3>5. QED
      BY <3>3, <3>4, <1>3, <1>4
  <2>3. b.tools = [t \in DOMAIN b.tools |-> b.tools[t]]
    BY DEF IsBundle
  <2> HIDE DEF ToolOf
  <2>4. QED
    BY <2>1, <2>2, <2>3
<1>8. joins = b.rels
  <2>1. {rels'[r].name : r \in rs} = DOMAIN b.rels
    BY <1>5
  <2>2. ASSUME NEW n \in DOMAIN b.rels
        PROVE  [rels'[RelOf(n)].rel EXCEPT !.source = datasets'[@].key,
                                           !.target = datasets'[@].key] = b.rels[n]
    <3>1. relId(n) \in rs /\ rels'[relId(n)].name = n
      BY <1>5
    <3>2. RelOf(n) \in rs /\ rels'[RelOf(n)].name = n
      BY <3>1
    <3>3. RelOf(n) = relId(n)
      BY <3>2, <1>5
    <3> DEFINE j == b.rels[n]
    <3>4. j \in Relationship /\ j.source \in b.keys /\ j.target \in b.keys
      BY <2>2 DEF IsBundle
    <3>5. /\ datasets'[dsId(j.source)].key = j.source
          /\ datasets'[dsId(j.target)].key = j.target
      BY <3>4, <1>3
    <3>6. rels'[RelOf(n)].rel = [j EXCEPT !.source = dsId(@), !.target = dsId(@)]
      BY <3>3, <1>5 DEF copied
    <3> HIDE DEF j
    <3> DEFINE copy == [j EXCEPT !.source = dsId(@), !.target = dsId(@)]
    <3>7. [copy EXCEPT !.source = datasets'[@].key, !.target = datasets'[@].key] = j
      BY <3>4, <3>5 DEF Relationship
    <3>8. QED
      BY <3>6, <3>7 DEF j
  <2>3. b.rels = [n \in DOMAIN b.rels |-> b.rels[n]]
    BY DEF IsBundle
  <2> HIDE DEF RelOf
  <2>4. QED
    BY <2>1, <2>2, <2>3
<1> HIDE DEF K, tools, joins
<1>9. b = [keys |-> b.keys, tools |-> b.tools, rels |-> b.rels]
  BY DEF IsBundle
<1>10. QED
  BY <1>1, <1>6, <1>7, <1>8, <1>9

(* What a client is told before its handler is done: nothing.               *)
LEMMA StaySilent ==
  ASSUME HandlersOK, [Next]_vars, \A c \in Clients : Silent(c)
  PROVE  \A c \in Clients : Silent(c)'
<1>1. ASSUME NEW c \in Clients, NEW q \in Requests, Arrive(c, q), NEW d \in Clients
      PROVE  Silent(d)'
  BY <1>1 DEF Arrive, Goto, Answer, Silent, HandlersOK
<1>2. ASSUME NEW c \in Clients, NEW a, Finish(c, a), NEW d \in Clients
      PROVE  Silent(d)'
  BY <1>2 DEF Finish, Goto, Answer, Silent, HandlersOK
<1>3. ASSUME NEW c \in Clients, NEW s, step[c] # "idle", Goto(c, s), UNCHANGED answer,
             NEW d \in Clients
      PROVE  Silent(d)'
  BY <1>3 DEF Goto, Silent, HandlersOK
<1>4. ASSUME NEW c \in Clients, Handle(c), NEW d \in Clients
      PROVE  Silent(d)'
  <2>1. \/ \E a : Finish(c, a)
        \/ step[c] # "idle" /\ UNCHANGED answer /\ \E s : Goto(c, s)
    <3>1. CASE Require(c)
      BY <3>1 DEF Require
    <3>2. CASE CheckSource(c) \/ CheckTarget(c) \/ CheckClash(c)
      <4>1. \E ok, s : step[c] # "idle" /\ Check(c, ok, s)
        BY <3>2 DEF CheckSource, CheckTarget, CheckClash
      <4>2. QED
        BY <4>1 DEF Check
    <3>3. CASE Commit(c)
      BY <3>3 DEF Commit
    <3>4. CASE CommitBreaks(c) \/ CommitBusy(c) \/ Confirm(c)
      BY <3>4 DEF CommitBreaks, CommitBusy, Confirm
    <3>5. QED
      BY <1>4, <3>1, <3>2, <3>3, <3>4 DEF Handle
  <2>2. QED
    BY <1>2, <1>3, <2>1
<1>5. CASE Crash
  BY <1>5 DEF Crash, Silent
<1>6. CASE UNCHANGED vars
  BY <1>6 DEF vars, handlers, Silent
<1>7. QED
  BY <1>1, <1>4, <1>5, <1>6 DEF Next

(* Nobody speaks out of turn, in any reachable state.                       *)
LEMMA SilentTillDone == Spec => [](\A c \in Clients : Silent(c))
<1>1. Init => \A c \in Clients : Silent(c)
  BY DEF Init, Silent
<1>2. IInv /\ (\A c \in Clients : Silent(c)) /\ [Next]_vars => (\A c \in Clients : Silent(c))'
  BY StaySilent DEF IInv, TypeOK
<1>3. QED
  BY <1>1, <1>2, Inductive, PTL DEF Spec

(* A client whose request commits in a step is the one that took the step.  *)
LEMMA WhoCommits ==
  ASSUME HandlersOK, [Next]_vars, NEW c \in Clients, Silent(c), NEW kind, Commits(c, kind)
  PROVE  Commit(c)
<1>1. step[c] = "commit" /\ (step'[c] = "confirm" \/ answer'[c] = "ok") /\ answer[c] # "ok"
  BY DEF Commits, Silent
<1>2. ASSUME NEW d \in Clients, d # c, (\E q \in Requests : Arrive(d, q)) \/ Handle(d)
      PROVE  FALSE
  <2>1. step'[c] = step[c] /\ answer'[c] = answer[c]
    BY <1>2 DEF Arrive, Handle, Require, CheckSource, CheckTarget, CheckClash, Check, Commit,
                CommitBreaks, CommitBusy, Confirm, Finish, Goto, Answer, HandlersOK
  <2>2. QED
    BY <1>1, <2>1
<1>3. ASSUME NEW q \in Requests, Arrive(c, q)
      PROVE  FALSE
  BY <1>1, <1>3 DEF Arrive
<1>4. ASSUME Handle(c)
      PROVE  Commit(c)
  BY <1>1, <1>4 DEF Handle, Require, CheckSource, CheckTarget, CheckClash, CommitBreaks,
                    CommitBusy, Confirm, Finish, Goto, Answer, HandlersOK
<1>5. CASE Crash
  BY <1>1, <1>5 DEF Crash
<1>6. CASE UNCHANGED vars
  BY <1>1, <1>6 DEF vars, handlers
<1>7. QED
  BY <1>2, <1>3, <1>4, <1>5, <1>6 DEF Next

(* A clone is the source as it is when the clone is made, and an import is  *)
(* its bundle: the same keys, tools on the same keys, the same joins, on    *)
(* rows of their own.                                                       *)
THEOREM CopiesAreFaithful == Spec => FaithfulCopies
<1> DEFINE Copies(c, s) ==
             /\ Commits(c, "cloneServer") => BundleOf(s)' = BundleOf(req[c].id)
             /\ Commits(c, "createServer") => BundleOf(s)' = req[c].bundle
<1>1. IInv /\ (\A c \in Clients : Silent(c)) /\ [Next]_vars =>
        [\A c \in Clients, s \in {next["servers"]} : Copies(c, s)]_vars
  <2> SUFFICES ASSUME IInv, \A c \in Clients : Silent(c), [Next]_vars,
                      NEW c \in Clients, NEW s, s = next["servers"]
               PROVE  Copies(c, s)
    OBVIOUS
  <2>1. TypeOK /\ TablesOK /\ HandlersOK /\ OwnData
    BY DEF IInv, TypeOK
  <2>2. ASSUME NEW slug, NEW b, IsBundle(b), InsertServer(slug, b)
        PROVE  BundleOf(s)' = b
    BY <2>1, <2>2, ServerIsInserted, CopyIsFaithful
  <2>3. ASSUME Commits(c, "cloneServer")
        PROVE  BundleOf(s)' = BundleOf(req[c].id)
    <3>1. Commit(c) /\ req[c].kind = "cloneServer"
      BY <2>1, <2>3, WhoCommits DEF Commits
    <3>2. InsertServer(req[c].slug, BundleOf(req[c].id))
      BY <3>1 DEF Commit, Write, CreateServer, UpdateServer, DeleteServer, CreateDataset,
                  UpdateDataset, DeleteDataset, CreateEndpoint, UpdateEndpoint, DeleteEndpoint,
                  CreateRelationship, DeleteRelationship
    <3>3. QED
      BY <2>1, <2>2, <3>2, ContentIsBundle
  <2>4. ASSUME Commits(c, "createServer")
        PROVE  BundleOf(s)' = req[c].bundle
    <3>1. Commit(c) /\ req[c].kind = "createServer"
      BY <2>1, <2>4, WhoCommits DEF Commits
    <3>2. InsertServer(req[c].slug, req[c].bundle)
      BY <3>1 DEF Commit, Write, CreateServer, UpdateServer, DeleteServer, CreateDataset,
                  UpdateDataset, DeleteDataset, CreateEndpoint, UpdateEndpoint, DeleteEndpoint,
                  CreateRelationship, DeleteRelationship
    <3>3. IsBundle(req[c].bundle)
      BY <2>1, <3>1, RequestKnown DEF IsRequest
    <3>4. QED
      BY <2>2, <3>2, <3>3
  <2>5. QED
    BY <2>3, <2>4
<1>2. QED
  BY <1>1, Inductive, SilentTillDone, PTL DEF Spec, FaithfulCopies

-------------------------------------------------------------------------------
(* One admin at work alone.                                                 *)

(* What the handler of c found of rows and names.                           *)
Found(c) == RowFound(c) /\ DatasetsFound(c) /\ NamesFree(c)

(* What was found is only relied on before the transaction.                 *)
LEMMA DoneFound ==
  ASSUME NEW c, step'[c] \in {"idle", "confirm", "require"}
  PROVE  Found(c)'
BY DEF Found, RowFound, DatasetsFound, NamesFree

LEMMA FinishFound ==
  ASSUME HandlersOK, NEW c \in Clients, NEW a, Finish(c, a)
  PROVE  Found(c)'
<1>1. step'[c] = "idle"
  BY DEF Finish, Goto, HandlersOK
<1>2. QED
  BY <1>1, DoneFound

(* A check: either what it found is found, or the handler is done.          *)
LEMMA CheckFound ==
  ASSUME HandlersOK, NEW c \in Clients, NEW ok, NEW s, Check(c, ok, s),
         ok /\ UNCHANGED <<tables, req, seen>> /\ step'[c] = s => Found(c)'
  PROVE  Found(c)'
<1>1. CASE ok
  BY <1>1 DEF Check, Goto, HandlersOK
<1>2. CASE ~ok
  BY <1>2, FinishFound DEF Check
<1>3. QED
  BY <1>1, <1>2

LEMMA ArriveFound ==
  ASSUME HandlersOK, NEW c \in Clients, NEW q, Arrive(c, q)
  PROVE  Found(c)'
<1>1. req'[c] = q /\ step'[c] = CASE q.kind = "createServer"       -> "clash"
                                  [] q.kind = "createRelationship" -> "source"
                                  [] OTHER                         -> "require"
  BY DEF Arrive, Goto, HandlersOK
<1>2. CASE q.kind = "createServer"
  BY <1>1, <1>2 DEF Found, RowFound, DatasetsFound, NamesFree
<1>3. CASE q.kind = "createRelationship"
  BY <1>1, <1>3 DEF Found, RowFound, DatasetsFound, NamesFree
<1>4. CASE q.kind \notin {"createServer", "createRelationship"}
  BY <1>1, <1>4, DoneFound
<1>5. QED
  BY <1>2, <1>3, <1>4

LEMMA RequireFound ==
  ASSUME TypeOK, NEW c \in Clients, Vetted(c), Require(c)
  PROVE  Found(c)'
<1> DEFINE q == req[c]
           next_step == CASE q.kind = "createEndpoint" -> "source"
                          [] q.kind \in {"deleteServer", "deleteEndpoint", "deleteRelationship"}
                                                       -> "commit"
                          [] OTHER                     -> "clash"
<1>1. CASE q.id \notin TableOf(q.kind)
  BY <1>1, FinishFound DEF Require, TypeOK
<1>2. CASE q.id \in TableOf(q.kind)
  <2>1. /\ seen'[c] = ReadOf(q) /\ step'[c] = next_step /\ req'[c] = q
        /\ UNCHANGED tables
    BY <1>2 DEF Require, Goto, TypeOK, HandlersOK
  <2>2. q.kind # "createRelationship"
    BY DEF Require, Vetted
  <2>3. RowFound(c)'
    <3>1. q.kind \in {"cloneServer", "createDataset", "createEndpoint"} => q.id \in DOMAIN servers
      BY <1>2 DEF TableOf
    <3>2. q.kind \in {"updateDataset", "deleteDataset"} => q.id \in DatasetsOf(ReadOf(q).server)
      BY <1>2 DEF TableOf, ReadOf, DatasetsOf
    <3>3. q.kind = "updateEndpoint" => q.id \in EndpointsOf(ReadOf(q).server)
      BY <1>2 DEF TableOf, ReadOf, EndpointsOf
    <3> HIDE DEF next_step
    <3>4. QED
      BY <2>1, <3>1, <3>2, <3>3 DEF RowFound, DatasetsOf, EndpointsOf, tables
  <2>4. DatasetsFound(c)'
    <3>1. /\ q.kind = "createEndpoint" => step'[c] = "source"
          /\ q.kind = "updateEndpoint" => step'[c] = "clash"
      BY <2>1
    <3> HIDE DEF next_step
    <3>2. QED
      BY <2>1, <2>2, <3>1 DEF DatasetsFound
  <2>5. NamesFree(c)'
    <3>1. q.kind \notin {"deleteServer", "deleteEndpoint", "deleteRelationship"} =>
            step'[c] \in {"source", "clash"}
      BY <2>1
    <3>2. q.kind = "updateEndpoint" => step'[c] = "clash"
      BY <2>1
    <3> HIDE DEF next_step
    <3>3. QED
      BY <2>1, <3>1, <3>2 DEF NamesFree
  <2>6. QED
    BY <2>3, <2>4, <2>5 DEF Found
<1>3. QED
  BY <1>1, <1>2

(* What was found stays found when the handler goes on.                     *)
LEMMA SameRows ==
  ASSUME UNCHANGED tables
  PROVE  /\ DOMAIN servers' = DOMAIN servers /\ DOMAIN datasets' = DOMAIN datasets
         /\ \A s : DatasetsOf(s)' = DatasetsOf(s) /\ EndpointsOf(s)' = EndpointsOf(s)
         /\ \A s, but : SlugTaken(s, but)' = SlugTaken(s, but)
         /\ \A s, k, but : KeyTaken(s, k, but)' = KeyTaken(s, k, but)
         /\ \A s, t, but : ToolTaken(s, t, but)' = ToolTaken(s, t, but)
         /\ \A s, n : RelNameTaken(s, n)' = RelNameTaken(s, n)
         /\ \A s, j : ExpandTaken(s, j)' = ExpandTaken(s, j)
         /\ \A s, d : InUse(s, d)' = InUse(s, d)
<1>1. servers' = servers /\ datasets' = datasets /\ endpoints' = endpoints /\ rels' = rels
  BY DEF tables
<1>2. \A s : DatasetsOf(s)' = DatasetsOf(s) /\ EndpointsOf(s)' = EndpointsOf(s) /\ RelsOf(s)' = RelsOf(s)
  BY <1>1 DEF DatasetsOf, EndpointsOf, RelsOf
<1>3. \A s, but : SlugTaken(s, but)' = SlugTaken(s, but)
  BY <1>1 DEF SlugTaken
<1>4. \A s, k, but : KeyTaken(s, k, but)' = KeyTaken(s, k, but)
  BY <1>1, <1>2 DEF KeyTaken
<1>5. \A s, t, but : ToolTaken(s, t, but)' = ToolTaken(s, t, but)
  BY <1>1, <1>2 DEF ToolTaken
<1>6. \A s, n : RelNameTaken(s, n)' = RelNameTaken(s, n)
  BY <1>1, <1>2 DEF RelNameTaken
<1>7. \A s, j : ExpandTaken(s, j)' = ExpandTaken(s, j)
  BY <1>1, <1>2 DEF ExpandTaken
<1>8. \A s, d : InUse(s, d)' = InUse(s, d)
  BY <1>1, <1>2 DEF InUse
<1>9. QED
  BY <1>1, <1>2, <1>3, <1>4, <1>5, <1>6, <1>7, <1>8

LEMMA CheckSourceFound ==
  ASSUME HandlersOK, NEW c \in Clients, Found(c), CheckSource(c)
  PROVE  Found(c)'
<1> DEFINE q == req[c]
           d == IF q.ds \in {None, 0} THEN seen[c].ds ELSE q.ds
<1>1. step[c] = "source"
  BY DEF CheckSource
<1>2. CASE q.kind = "createEndpoint" /\ Check(c, ~DatasetElsewhere(q.ds, q.id), "clash")
  <2>1. ASSUME ~DatasetElsewhere(q.ds, q.id), UNCHANGED <<tables, req, seen>>, step'[c] = "clash"
        PROVE  Found(c)'
    BY <1>1, <1>2, <2>1, SameRows DEF Found, RowFound, DatasetsFound, NamesFree, DatasetElsewhere
  <2>2. QED
    BY <1>2, <2>1, CheckFound
<1>3. CASE q.kind = "updateEndpoint" /\ Check(c, ~DatasetElsewhere(d, seen[c].server), "commit")
  <2>1. ASSUME ~DatasetElsewhere(d, seen[c].server), UNCHANGED <<tables, req, seen>>,
               step'[c] = "commit"
        PROVE  Found(c)'
    BY <1>1, <1>3, <2>1, SameRows DEF Found, RowFound, DatasetsFound, NamesFree, DatasetElsewhere
  <2> HIDE DEF d
  <2>2. QED
    BY <1>3, <2>1, CheckFound
<1>4. CASE q.kind = "createRelationship" /\ Check(c, ~DatasetElsewhere(q.rel.source, q.id), "target")
  <2>1. ASSUME ~DatasetElsewhere(q.rel.source, q.id), UNCHANGED <<tables, req, seen>>,
               step'[c] = "target"
        PROVE  Found(c)'
    BY <1>1, <1>4, <2>1, SameRows DEF Found, RowFound, DatasetsFound, NamesFree, DatasetElsewhere
  <2>2. QED
    BY <1>4, <2>1, CheckFound
<1>5. QED
  BY <1>2, <1>3, <1>4 DEF CheckSource

LEMMA CheckTargetFound ==
  ASSUME HandlersOK, NEW c \in Clients, Vetted(c), Found(c), CheckTarget(c)
  PROVE  Found(c)'
<1> DEFINE q == req[c]
<1>1. /\ step[c] = "target" /\ q.kind = "createRelationship"
      /\ Check(c, ~DatasetElsewhere(q.rel.target, q.id), "clash")
  BY DEF CheckTarget, Vetted
<1>2. ASSUME ~DatasetElsewhere(q.rel.target, q.id), UNCHANGED <<tables, req, seen>>, step'[c] = "clash"
      PROVE  Found(c)'
  BY <1>1, <1>2, SameRows DEF Found, RowFound, DatasetsFound, NamesFree, DatasetElsewhere
<1>3. QED
  BY <1>1, <1>2, CheckFound

LEMMA CheckClashFound ==
  ASSUME HandlersOK, NEW c \in Clients, Found(c), CheckClash(c)
  PROVE  Found(c)'
<1> DEFINE q == req[c]
           free == CASE q.kind \in {"createServer", "cloneServer"} -> ~SlugTaken(q.slug, 0)
                     [] q.kind = "updateServer"  -> ~SlugTaken(q.slug, q.id)
                     [] q.kind = "createDataset" -> ~KeyTaken(q.id, q.key, 0)
                     [] q.kind = "updateDataset" -> ~KeyTaken(seen[c].server, q.key, q.id)
                     [] q.kind = "deleteDataset" -> ~InUse(seen[c].server, q.id)
                     [] q.kind = "createEndpoint" -> ~ToolTaken(q.id, q.tool, 0)
                     [] q.kind = "updateEndpoint" -> q.tool = None \/ ~ToolTaken(seen[c].server, q.tool, q.id)
                     [] OTHER -> ~RelNameTaken(q.id, q.name) /\ ~ExpandTaken(q.id, q.rel)
           then == IF q.kind = "updateEndpoint" THEN "source" ELSE "commit"
<1>1. step[c] = "clash"
  BY DEF CheckClash
<1>2. Check(c, free, then)
  <2>1. CASE q.kind \in {"createServer", "cloneServer"}
    BY <2>1 DEF CheckClash
  <2>2. CASE q.kind = "updateServer"
    BY <2>2 DEF CheckClash
  <2>3. CASE q.kind = "createDataset"
    BY <2>3 DEF CheckClash
  <2>4. CASE q.kind = "updateDataset"
    BY <2>4 DEF CheckClash
  <2>5. CASE q.kind = "deleteDataset"
    BY <2>5 DEF CheckClash
  <2>6. CASE q.kind = "createEndpoint"
    BY <2>6 DEF CheckClash
  <2>7. CASE q.kind = "updateEndpoint"
    BY <2>7 DEF CheckClash
  <2>8. CASE q.kind = "createRelationship"
    BY <2>8 DEF CheckClash
  <2>9. QED
    BY <2>1, <2>2, <2>3, <2>4, <2>5, <2>6, <2>7, <2>8 DEF CheckClash
<1>3. ASSUME free, UNCHANGED <<tables, req, seen>>, step'[c] = then
      PROVE  Found(c)'
  <2>1. RowFound(c)' /\ DatasetsFound(c)'
    <3>1. RowFound(c) /\ DatasetsFound(c)
      BY DEF Found
    <3>2. step'[c] = IF q.kind = "updateEndpoint" THEN "source" ELSE "commit"
      BY <1>3
    <3> HIDE DEF free, then
    <3>3. QED
      BY <1>1, <1>3, <3>1, <3>2, SameRows DEF RowFound, DatasetsFound
  <2>2. NamesFree(c)'
    <3>1. CASE q.kind \in {"createServer", "cloneServer"}
      BY <3>1, <1>3, SameRows DEF NamesFree
    <3>2. CASE q.kind = "updateServer"
      BY <3>2, <1>3, SameRows DEF NamesFree
    <3>3. CASE q.kind = "createDataset"
      BY <3>3, <1>3, SameRows DEF NamesFree
    <3>4. CASE q.kind = "updateDataset"
      BY <3>4, <1>3, SameRows DEF NamesFree
    <3>5. CASE q.kind = "deleteDataset"
      BY <3>5, <1>3, SameRows DEF NamesFree
    <3>6. CASE q.kind = "createEndpoint"
      BY <3>6, <1>3, SameRows DEF NamesFree
    <3>7. CASE q.kind = "updateEndpoint"
      BY <3>7, <1>3, SameRows DEF NamesFree
    <3>8. CASE q.kind = "createRelationship"
      BY <3>8, <1>3, SameRows DEF NamesFree
    <3>9. QED
      BY <3>1, <3>2, <3>3, <3>4, <3>5, <3>6, <3>7, <3>8 DEF CheckClash
  <2>3. QED
    BY <2>1, <2>2 DEF Found
<1> HIDE DEF free, then
<1>4. QED
  BY <1>2, <1>3, CheckFound

(* No constraint of the schema has anything left to refuse, unless a PATCH  *)
(* moves an endpoint to the dataset 0.                                      *)
LEMMA NothingBreaks ==
  ASSUME TypeOK, OwnData, NEW c \in Clients, Found(c), step[c] = "commit", ~SendsZero(req[c])
  PROVE  ~Breaks(c)
<1> DEFINE q == req[c]
<1>1. RowFound(c) /\ DatasetsFound(c) /\ NamesFree(c)
  BY DEF Found
<1>2. CASE q.kind \in {"createServer", "cloneServer", "updateServer"}
  BY <1>1, <1>2 DEF NamesFree, Breaks
<1>3. CASE q.kind = "createDataset"
  BY <1>1, <1>3 DEF RowFound, NamesFree, Breaks, ServerGone
<1>4. CASE q.kind = "updateDataset"
  <2>1. q.id \in DatasetsOf(seen[c].server) /\ ~KeyTaken(seen[c].server, q.key, q.id)
    BY <1>1, <1>4 DEF RowFound, NamesFree
  <2>2. datasets[q.id].server = seen[c].server
    BY <2>1 DEF DatasetsOf
  <2>3. QED
    BY <1>4, <2>1, <2>2 DEF Breaks
<1>5. CASE q.kind = "createEndpoint"
  BY <1>1, <1>5 DEF RowFound, DatasetsFound, NamesFree, Breaks, ServerGone, DatasetsOf
<1>6. CASE q.kind = "updateEndpoint"
  <2>1. endpoints[q.id].server = seen[c].server
    BY <1>1, <1>6 DEF RowFound, EndpointsOf
  <2>2. q.ds # None => q.ds \in DOMAIN datasets
    BY <1>1, <1>6 DEF DatasetsFound, DatasetsOf, SendsZero
  <2>3. q.tool # None => ~ToolTaken(seen[c].server, q.tool, q.id)
    BY <1>1, <1>6 DEF NamesFree
  <2>4. QED
    BY <1>6, <2>1, <2>2, <2>3 DEF Breaks
<1>7. CASE q.kind = "createRelationship"
  <2>1. /\ q.rel.source \in DatasetsOf(q.id) /\ q.rel.target \in DatasetsOf(q.id)
        /\ ~RelNameTaken(q.id, q.name) /\ ~ExpandTaken(q.id, q.rel)
    BY <1>1, <1>7 DEF DatasetsFound, NamesFree
  <2>2. q.id \in DOMAIN servers /\ q.rel.source \in DOMAIN datasets /\ q.rel.target \in DOMAIN datasets
    BY <2>1 DEF OwnData, DatasetsOf
  <2>3. ~JoinTaken(q.rel)
    <3>1. SUFFICES ASSUME NEW r \in DOMAIN rels, SameJoin(rels[r].rel, q.rel)
                   PROVE  FALSE
      BY DEF JoinTaken
    <3>2. rels[r].rel.source = q.rel.source /\ rels[r].rel.expand = q.rel.expand
      BY <3>1 DEF SameJoin
    <3>3. rels[r].server = q.id
      BY <2>1, <3>2 DEF OwnData, DatasetsOf
    <3>4. QED
      BY <2>1, <3>2, <3>3 DEF ExpandTaken, RelsOf
  <2>4. QED
    BY <1>7, <2>1, <2>2, <2>3 DEF Breaks, ServerGone
<1>8. QED
  BY <1>2, <1>3, <1>4, <1>5, <1>6, <1>7 DEF Breaks

(* What a server with distinct keys and expand names holds can be imported. *)
LEMMA ContentImportable ==
  ASSUME TablesOK, OwnData, UniqueNames, ExpandNamesDistinct, NEW s
  PROVE  Importable(BundleOf(s))
<1> DEFINE rs == RelsOf(s)
           N == {rels[r].name : r \in rs}
           RelOf(n)  == CHOOSE r \in rs : rels[r].name = n
           joins == [n \in N |-> [rels[RelOf(n)].rel EXCEPT !.source = datasets[@].key,
                                                            !.target = datasets[@].key]]
<1>1. BundleOf(s).rels = joins
  BY DEF BundleOf
<1>2. ASSUME NEW n \in N
      PROVE  LET j == rels[RelOf(n)].rel
             IN  /\ RelOf(n) \in rs /\ rels[RelOf(n)].name = n
                 /\ j.source \in DatasetsOf(s) /\ j.target \in DatasetsOf(s)
                 /\ joins[n].source = datasets[j.source].key
                 /\ joins[n].target = datasets[j.target].key
                 /\ joins[n].expand = j.expand
                 /\ joins[n].inverse = j.inverse
  <2> DEFINE j == rels[RelOf(n)].rel
  <2>1. RelOf(n) \in rs /\ rels[RelOf(n)].name = n
    OBVIOUS
  <2>2. j.source \in DatasetsOf(s) /\ j.target \in DatasetsOf(s)
    BY <2>1 DEF OwnData, RelsOf
  <2>3. j \in Relationship
    BY <2>1 DEF RelsOf, TablesOK
  <2>4. joins[n] = [j EXCEPT !.source = datasets[@].key, !.target = datasets[@].key]
    BY <1>2
  <2> HIDE DEF j, joins
  <2>5. QED
    BY <2>1, <2>2, <2>3, <2>4 DEF j, Relationship
<1>3. ASSUME NEW d \in DatasetsOf(s), NEW e \in DatasetsOf(s), datasets[d].key = datasets[e].key
      PROVE  d = e
  <2>1. datasets[d] \in [server : Nat, key : Names] /\ datasets[e] \in [server : Nat, key : Names]
    BY DEF TablesOK, DatasetsOf
  <2>2. datasets[d].server = datasets[e].server
    BY DEF DatasetsOf
  <2>3. datasets[d] = datasets[e]
    BY <2>1, <2>2, <1>3
  <2>4. QED
    BY <2>3 DEF UniqueNames, DatasetsOf
<1> HIDE DEF joins, N, RelOf
<1>4. ASSUME NEW n \in N, NEW m \in N, n # m
      PROVE  /\ joins[n].source = joins[m].source => joins[n].expand # joins[m].expand
             /\ joins[n].target = joins[m].target /\ joins[n].inverse # None =>
                  joins[n].inverse # joins[m].inverse
  <2>1. RelOf(n) # RelOf(m) /\ RelOf(n) \in DOMAIN rels /\ RelOf(m) \in DOMAIN rels
    BY <1>2, <1>4 DEF RelsOf
  <2>2. QED
    BY <2>1, <1>2, <1>3 DEF ExpandNamesDistinct
<1>5. DOMAIN joins = N
  BY DEF joins
<1>6. QED
  BY <1>1, <1>4, <1>5 DEF Importable

(* The relationships of a new server do not mix with those that are there.  *)
LEMMA InsertServerDistinct ==
  ASSUME OwnData, ExpandNamesDistinct, NEW slug, NEW b, IsBundle(b), Importable(b),
         ServerInserted(slug, b)
  PROVE  ExpandNamesDistinct'
<1> DEFINE relId(n) == IdIn("rels", n, DOMAIN b.rels)
           dsId(k) == NewDatasetOf(b, k)
           Clash(r, p) ==
             \/ rels'[r].rel.source = rels'[p].rel.source /\ rels'[r].rel.expand = rels'[p].rel.expand
             \/ /\ rels'[r].rel.target = rels'[p].rel.target /\ rels'[r].rel.inverse # None
                /\ rels'[r].rel.inverse = rels'[p].rel.inverse
<1>1. /\ \A k \in b.keys : dsId(k) \notin DOMAIN datasets
      /\ \A k, l \in b.keys : dsId(k) = dsId(l) => k = l
  BY DEF ServerInserted, Added, NewDatasetOf
<1>2. /\ DOMAIN rels' = DOMAIN rels \cup {relId(n) : n \in DOMAIN b.rels}
      /\ \A r \in DOMAIN rels : rels'[r] = rels[r]
      /\ \A n \in DOMAIN b.rels : rels'[relId(n)] = NewRels(b)[n]
  BY DEF ServerInserted, Added
<1>3. ASSUME NEW n \in DOMAIN b.rels
      PROVE  LET j == rels'[relId(n)].rel
             IN  /\ b.rels[n].source \in b.keys /\ j.source = dsId(b.rels[n].source)
                 /\ b.rels[n].target \in b.keys /\ j.target = dsId(b.rels[n].target)
                 /\ j.expand = b.rels[n].expand /\ j.inverse = b.rels[n].inverse
  <2> DEFINE j == b.rels[n]
             copy == [j EXCEPT !.source = dsId(@), !.target = dsId(@)]
  <2>1. j \in Relationship /\ j.source \in b.keys /\ j.target \in b.keys
    BY DEF IsBundle
  <2>2. rels'[relId(n)].rel = copy
    <3>1. NewRels(b)[n].rel = copy
      BY DEF NewRels
    <3> HIDE DEF copy
    <3>2. QED
      BY <3>1, <1>2
  <2> HIDE DEF j, dsId, relId
  <2>3. /\ copy.source = dsId(j.source) /\ copy.target = dsId(j.target)
        /\ copy.expand = j.expand /\ copy.inverse = j.inverse
    BY <2>1 DEF Relationship
  <2> HIDE DEF copy
  <2>4. QED
    BY <2>1, <2>2, <2>3 DEF j
<1> HIDE DEF dsId, relId
<1>4. ASSUME NEW r \in DOMAIN rels
      PROVE  rels'[r].rel.source \in DOMAIN datasets /\ rels'[r].rel.target \in DOMAIN datasets
  BY <1>2 DEF OwnData, DatasetsOf
<1>5. ASSUME NEW r \in DOMAIN rels, NEW n \in DOMAIN b.rels
      PROVE  ~Clash(r, relId(n)) /\ ~Clash(relId(n), r)
  BY <1>1, <1>3, <1>4
<1>6. ASSUME NEW r \in DOMAIN rels, NEW p \in DOMAIN rels, r # p
      PROVE  ~Clash(r, p)
  BY <1>2, <1>6 DEF ExpandNamesDistinct
<1>7. ASSUME NEW n \in DOMAIN b.rels, NEW m \in DOMAIN b.rels, n # m
      PROVE  ~Clash(relId(n), relId(m))
  <2>1. /\ dsId(b.rels[n].source) = dsId(b.rels[m].source) => b.rels[n].source = b.rels[m].source
        /\ dsId(b.rels[n].target) = dsId(b.rels[m].target) => b.rels[n].target = b.rels[m].target
    BY <1>1, <1>3
  <2>2. /\ b.rels[n].source = b.rels[m].source => b.rels[n].expand # b.rels[m].expand
        /\ b.rels[n].target = b.rels[m].target /\ b.rels[n].inverse # None =>
             b.rels[n].inverse # b.rels[m].inverse
    BY <1>7 DEF Importable
  <2>3. QED
    BY <2>1, <2>2, <1>3
<1>8. \A r, p \in DOMAIN rels' : r # p => ~Clash(r, p)
  BY <1>2, <1>5, <1>6, <1>7
<1>9. QED
  BY <1>8 DEF ExpandNamesDistinct

(* Every transaction of one admin keeps the expand names of a dataset apart.*)
LEMMA WriteDistinct ==
  ASSUME IInv, UniqueNames, ExpandNamesDistinct, NEW c \in Clients, Found(c), Commit(c)
  PROVE  ExpandNamesDistinct'
<1> DEFINE q == req[c]
<1>1. TypeOK /\ TablesOK /\ OwnData /\ step[c] = "commit" /\ Write(q)
  BY DEF IInv, TypeOK, Commit
<1>2. q.kind # "none"
  BY <1>1 DEF Write, CreateServer, UpdateServer, DeleteServer, CreateDataset, UpdateDataset,
         DeleteDataset, CreateEndpoint, UpdateEndpoint, DeleteEndpoint, CreateRelationship,
         DeleteRelationship
<1>3. IsRequest(q)
  BY <1>1, <1>2, RequestKnown
<1>4. CASE CreateServer(q)
  <2>1. CASE q.kind = "createServer" /\ InsertServer(q.slug, q.bundle)
    <3>1. IsBundle(q.bundle) /\ Importable(q.bundle)
      BY <2>1, <1>3 DEF IsRequest
    <3>2. QED
      BY <1>1, <2>1, <3>1, ServerIsInserted, InsertServerDistinct
  <2>2. CASE q.kind = "cloneServer" /\ InsertServer(q.slug, BundleOf(q.id))
    <3>1. IsBundle(BundleOf(q.id)) /\ Importable(BundleOf(q.id))
      BY <1>1, ContentIsBundle, ContentImportable
    <3>2. QED
      BY <1>1, <2>2, <3>1, ServerIsInserted, InsertServerDistinct
  <2>3. QED
    BY <1>4, <2>1, <2>2 DEF CreateServer
<1>5. CASE CreateRelationship(q)
  <2>1. q.kind = "createRelationship"
    BY <1>5 DEF CreateRelationship
  <2>2. q.rel.source \in DatasetsOf(q.id) /\ q.rel.target \in DatasetsOf(q.id) /\ ~ExpandTaken(q.id, q.rel)
    BY <1>1, <2>1 DEF Found, DatasetsFound, NamesFree
  <2> DEFINE new == next["rels"]
  <2>3. /\ DOMAIN rels' = DOMAIN rels \cup {new} /\ new \notin DOMAIN rels
        /\ \A r \in DOMAIN rels : rels'[r] = rels[r]
        /\ rels'[new].rel = q.rel
    BY <1>1, <1>5 DEF CreateRelationship, With, One, TablesOK, Tables
  <2>4. ASSUME NEW r \in DOMAIN rels
        PROVE  /\ rels[r].rel.source = q.rel.source => rels[r].rel.expand # q.rel.expand
               /\ rels[r].rel.target = q.rel.target /\ q.rel.inverse # None =>
                    rels[r].rel.inverse # q.rel.inverse
    <3>1. rels[r].rel.source = q.rel.source \/ rels[r].rel.target = q.rel.target => r \in RelsOf(q.id)
      BY <1>1, <2>2 DEF OwnData, DatasetsOf, RelsOf
    <3>2. QED
      BY <2>2, <3>1 DEF ExpandTaken
  <2> HIDE DEF new
  <2>5. QED
    BY <2>3, <2>4 DEF ExpandNamesDistinct
<1>6. CASE ~CreateServer(q) /\ ~CreateRelationship(q)
  <2>1. RowsOf(rels, rels')
    BY <1>1, <1>6 DEF Write, UpdateServer, DeleteServer, CreateDataset, UpdateDataset,
         DeleteDataset, CreateEndpoint, UpdateEndpoint, DeleteEndpoint,
         DeleteRelationship, RowsOf, Restrict, RelsWithout
  <2>2. QED
    BY <2>1 DEF RowsOf, ExpandNamesDistinct
<1>7. QED
  BY <1>4, <1>5, <1>6

(* The table of the endpoints is a function.                                *)
IsTable(f) == f = [x \in DOMAIN f |-> f[x]]

LEMMA EndpointsTable == Spec => []IsTable(endpoints)
<1>1. Init => IsTable(endpoints)
  BY DEF Init, IsTable
<1>2. IsTable(endpoints) /\ [Next]_vars => IsTable(endpoints)'
  <2> SUFFICES ASSUME IsTable(endpoints), [Next]_vars
               PROVE  IsTable(endpoints)'
    OBVIOUS
  <2>1. CASE UNCHANGED tables
    BY <2>1 DEF tables, IsTable
  <2>2. CASE \E c \in Clients : Commit(c)
    <3>1. PICK c \in Clients : Write(req[c])
      BY <2>2 DEF Commit
    <3>2. CASE CreateServer(req[c]) \/ CreateEndpoint(req[c])
      <4>1. \A f, g : IsTable(With(f, g))
        BY DEF With, IsTable
      <4>2. \E g : endpoints' = With(endpoints, g)
        BY <3>2 DEF CreateServer, InsertServer, CreateEndpoint
      <4>3. QED
        BY <4>1, <4>2
    <3>3. CASE UpdateEndpoint(req[c])
      BY <3>3 DEF UpdateEndpoint, IsTable
    <3>4. CASE DeleteServer(req[c]) \/ DeleteDataset(req[c]) \/ DeleteEndpoint(req[c])
      <4>1. \A f, S : IsTable(Restrict(f, S))
        BY DEF Restrict, IsTable
      <4>2. \E S : endpoints' = Restrict(endpoints, S)
        BY <3>4 DEF DeleteServer, DeleteDataset, DeleteEndpoint
      <4>3. QED
        BY <4>1, <4>2
    <3>5. CASE endpoints' = endpoints
      BY <3>5 DEF IsTable
    <3>6. QED
      BY <3>1, <3>2, <3>3, <3>4, <3>5 DEF Write, UpdateServer, CreateDataset, UpdateDataset,
           CreateRelationship, DeleteRelationship
  <2>3. QED
    BY <2>1, <2>2, TablesWritten
<1>3. QED
  BY <1>1, <1>2, PTL DEF Spec

(* The inductive invariant of one admin, and that it is one.                *)
LEMMA SerialStep ==
  ASSUME NEW admin, Clients = {admin}, IInv, UniqueNames, SerialInv, [Next]_vars
  PROVE  SerialInv'
<1>1. TypeOK /\ TablesOK /\ HandlersOK /\ OwnData /\ Vetted(admin) /\ Found(admin) /\ Silent(admin)
  BY DEF IInv, TypeOK, SerialInv, Found
<1>2. Silent(admin)'
  BY <1>1, StaySilent DEF SerialInv
<1>3. CASE UNCHANGED vars
  <2>1. UNCHANGED tables /\ UNCHANGED <<req, step, seen, answer>>
    BY <1>3 DEF vars, handlers
  <2>2. Found(admin)'
    BY <1>1, <2>1, SameRows DEF Found, RowFound, DatasetsFound, NamesFree
  <2>3. ExpandNamesDistinct'
    BY <2>1 DEF SerialInv, ExpandNamesDistinct, tables
  <2>4. QED
    BY <1>2, <2>2, <2>3 DEF SerialInv, Found
<1>4. CASE Crash
  <2>1. UNCHANGED <<tables, answer>> /\ step'[admin] = "idle"
    BY <1>4 DEF Crash
  <2>2. Found(admin)'
    BY <2>1, DoneFound
  <2>3. ExpandNamesDistinct'
    BY <2>1 DEF SerialInv, ExpandNamesDistinct, tables
  <2>4. QED
    BY <1>2, <2>2, <2>3 DEF SerialInv, Found
<1>5. ASSUME NEW q \in Requests, Arrive(admin, q)
      PROVE  SerialInv'
  <2>1. UNCHANGED tables /\ answer'[admin] = "none"
    BY <1>1, <1>5 DEF Arrive, Answer, HandlersOK
  <2>2. Found(admin)'
    BY <1>1, <1>5, ArriveFound
  <2>3. ExpandNamesDistinct'
    BY <2>1 DEF SerialInv, ExpandNamesDistinct, tables
  <2>4. QED
    BY <1>2, <2>2, <2>3 DEF SerialInv, Found
<1>6. CASE Handle(admin)
  <2>1. Found(admin)'
    <3>1. CASE Commit(admin)
      <4>1. step'[admin] \in {"idle", "confirm"}
        BY <3>1, <1>1 DEF Commit, Finish, Goto, HandlersOK
      <4>2. QED
        BY <4>1, DoneFound
    <3>2. CASE CommitBreaks(admin) \/ CommitBusy(admin) \/ Confirm(admin)
      BY <3>2, <1>1, FinishFound DEF CommitBreaks, CommitBusy, Confirm
    <3>3. QED
      BY <1>1, <1>6, <3>1, <3>2, RequireFound, CheckSourceFound, CheckTargetFound, CheckClashFound
         DEF Handle
  <2>2. ExpandNamesDistinct'
    <3>1. CASE UNCHANGED tables
      BY <3>1 DEF SerialInv, ExpandNamesDistinct, tables
    <3>2. CASE Commit(admin)
      BY <3>2, <1>1, WriteDistinct DEF SerialInv
    <3>3. QED
      BY <3>1, <3>2, TablesWritten
  <2>3. QED
    BY <1>2, <2>1, <2>2 DEF SerialInv, Found
<1>7. QED
  BY <1>3, <1>4, <1>5, <1>6 DEF Next

(* One admin at work alone: what its handler found is still so when it      *)
(* writes, crashes and restarts included.                                   *)
THEOREM SerialInductive ==
  ASSUME NEW admin, Clients = {admin}
  PROVE  Spec => []SerialInv
<1>1. Init => SerialInv
  BY DEF Init, SerialInv, ExpandNamesDistinct, Silent, RowFound, DatasetsFound,
         NamesFree
<1>2. IInv /\ UniqueNames /\ SerialInv /\ [Next]_vars => SerialInv'
  BY SerialStep
<1>3. QED
  BY <1>1, <1>2, Inductive, NamesStayUnique, PTL DEF Spec

(* With one admin no dataset ever shows two others under one expand_name,   *)
(* nor is shown back by two under one inverse_expand_name, those of an      *)
(* import or a clone included. Two admins can get there; and of a name of   *)
(* either kind the code, and this theorem, say nothing.                     *)
THEOREM ExpandNamesApart ==
  ASSUME NEW admin, Clients = {admin}
  PROVE  Spec => []ExpandNamesDistinct
<1>1. SerialInv => ExpandNamesDistinct
  BY DEF SerialInv
<1>2. QED
  BY <1>1, SerialInductive, PTL

(* With one admin a constraint of the schema refuses one request only, the  *)
(* PATCH of an endpoint with a dataset_id of 0: the checks of every other   *)
(* operation imply every constraint that its transaction could meet.        *)
THEOREM ChecksCoverTheSchema ==
  ASSUME NEW admin, Clients = {admin}
  PROVE  Spec => RefusedByChecks
<1>1. IInv /\ SerialInv /\ [Next]_vars =>
        [\A c \in Clients : answer[c] # "broken" /\ answer'[c] = "broken" => SendsZero(req[c])]_vars
  <2> SUFFICES ASSUME IInv, SerialInv, [Next]_vars, NEW c \in Clients,
                      answer[c] # "broken", answer'[c] = "broken", ~SendsZero(req[c])
               PROVE  FALSE
    OBVIOUS
  <2>1. TypeOK /\ HandlersOK /\ OwnData /\ Found(c)
    BY DEF IInv, TypeOK, SerialInv, Found
  <2>2. \/ UNCHANGED answer
        \/ \E q \in Requests : Arrive(c, q)
        \/ Handle(c)
    BY DEF Next, vars, handlers, Crash
  <2>3. ~CommitBreaks(c)
    BY <2>1, NothingBreaks DEF CommitBreaks
  <2>4. \/ UNCHANGED answer
        \/ \E a \in {"none", "ok", "refused", "busy"} : Answer(c, a)
    BY <2>2, <2>3 DEF Arrive, Handle, Require, CheckSource, CheckTarget, CheckClash, Check, Commit,
                      CommitBusy, Confirm, Finish
  <2>5. QED
    BY <2>1, <2>4 DEF Answer, HandlersOK
<1>2. QED
  BY <1>1, Inductive, SerialInductive, PTL DEF Spec, RefusedByChecks

(* With one admin, deleting a dataset takes no tool away, although the      *)
(* foreign key cascades: the check for endpoints that use it comes first.   *)
THEOREM DatasetsInUseStay ==
  ASSUME NEW admin, Clients = {admin}
  PROVE  Spec => ToolsOutliveDatasets
<1>1. IInv /\ SerialInv /\ IsTable(endpoints) /\ [Next]_vars =>
        [\A c \in Clients : Commits(c, "deleteDataset") => UNCHANGED endpoints]_vars
  <2> SUFFICES ASSUME IInv, SerialInv, IsTable(endpoints), [Next]_vars,
                      NEW c \in Clients, Commits(c, "deleteDataset")
               PROVE  endpoints' = endpoints
    OBVIOUS
  <2> DEFINE q == req[c]
  <2>1. HandlersOK /\ OwnData /\ Silent(c) /\ RowFound(c) /\ NamesFree(c)
    BY DEF IInv, TypeOK, SerialInv
  <2>2. Commit(c) /\ step[c] = "commit" /\ q.kind = "deleteDataset"
    BY <2>1, WhoCommits DEF Commits
  <2>3. DeleteDataset(q)
    BY <2>2 DEF Commit, Write, CreateServer, UpdateServer, DeleteServer, CreateDataset,
                UpdateDataset, CreateEndpoint, UpdateEndpoint, DeleteEndpoint,
                CreateRelationship, DeleteRelationship
  <2>4. q.id \in DatasetsOf(seen[c].server) /\ ~InUse(seen[c].server, q.id)
    BY <2>1, <2>2 DEF RowFound, NamesFree
  <2>5. \A e \in DOMAIN endpoints : endpoints[e].ds # q.id
    BY <2>1, <2>4 DEF OwnData, DatasetsOf, EndpointsOf, InUse
  <2>6. EndpointsWithout({q.id}) = DOMAIN endpoints
    BY <2>5 DEF EndpointsWithout
  <2>7. QED
    BY <2>3, <2>6 DEF DeleteDataset, Restrict, IsTable
<1>2. QED
  BY <1>1, Inductive, SerialInductive, EndpointsTable, PTL DEF Spec, ToolsOutliveDatasets

(* With one admin a clone is made of a server that is there.                *)
THEOREM ClonesOfWhatIsThere ==
  ASSUME NEW admin, Clients = {admin}
  PROVE  Spec => ClonesHaveSources
<1>1. SerialInv => [\A c \in Clients : Commits(c, "cloneServer") => req[c].id \in DOMAIN servers]_vars
  BY DEF SerialInv, RowFound, Commits
<1>2. QED
  BY <1>1, SerialInductive, PTL DEF ClonesHaveSources

===============================================================================
