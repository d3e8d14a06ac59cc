------------------------------- MODULE MCCatalog -------------------------------
(***************************************************************************)
(* A small instance of Catalog: one bundle with two datasets, a tool and a *)
(* relationship, which is imported, cloned and then worked on by two       *)
(* clients, or by one.                                                     *)
(***************************************************************************)
EXTENDS Catalog, TLC

CONSTANTS c1, c2             (* two clients *)

ClientSymmetry == Permutations({c1, c2})

MCNames == 1 .. 2

Join(src, tgt, expand, inverse) ==
  [source |-> src, target |-> tgt, field |-> 1, expand |-> expand, inverse |-> inverse]

(* Datasets 1 and 2, tool 1 on dataset 1, and 2 shows 1 as 1, shown as 2.   *)
Orders == [keys |-> {1, 2}, tools |-> 1 :> 1, rels |-> 1 :> Join(2, 1, 1, 2)]

ServerRequests ==
  { [kind |-> "createServer", slug |-> 1, bundle |-> Orders],
    [kind |-> "cloneServer", id |-> 1, slug |-> 2],
    [kind |-> "updateServer", id |-> 1, slug |-> 2],
    [kind |-> "deleteServer", id |-> 1] }

DatasetRequests ==
  { [kind |-> "createDataset", id |-> 1, key |-> 2],
    [kind |-> "updateDataset", id |-> 1, key |-> 2],
    [kind |-> "deleteDataset", id |-> 1],
    [kind |-> "deleteDataset", id |-> 2] }

EndpointRequests ==
  { [kind |-> "createEndpoint", id |-> 1, tool |-> 2, ds |-> 2],
    [kind |-> "createEndpoint", id |-> 2, tool |-> 2, ds |-> 2],
    [kind |-> "updateEndpoint", id |-> 1, tool |-> None, ds |-> 2],
    [kind |-> "updateEndpoint", id |-> 1, tool |-> None, ds |-> 0],
    [kind |-> "updateEndpoint", id |-> 1, tool |-> 2, ds |-> None],
    [kind |-> "deleteEndpoint", id |-> 1] }

RelRequests ==
  { [kind |-> "createRelationship", id |-> 1, name |-> 2, rel |-> Join(2, 1, 2, None)],
    [kind |-> "createRelationship", id |-> 1, name |-> 1, rel |-> Join(2, 2, 2, 2)],
    [kind |-> "createRelationship", id |-> 2, name |-> 2, rel |-> Join(3, 2, 2, None)],
    [kind |-> "deleteRelationship", id |-> 1] }

MCRequests == ServerRequests \cup DatasetRequests \cup EndpointRequests \cup RelRequests

MCMaxId == [servers |-> 2, datasets |-> 4, endpoints |-> 2, rels |-> 2]

(* One client alone can be let go further.                                  *)
MCSerialMaxId == [servers |-> 2, datasets |-> 5, endpoints |-> 3, rels |-> 3]

===============================================================================
