------------------------------- MODULE MCLiveData -------------------------------
(***************************************************************************)
(* A small instance of LiveData: two datasets of one row each, two clients *)
(* and every kind of request, with rows of an id and two more fields.      *)
(***************************************************************************)
EXTENDS LiveData, TLC

CONSTANTS d1, d2, c1, c2     (* two datasets, two clients *)

ClientSymmetry == Permutations({c1, c2})

MCDatasets == {d1, d2}

MCFields == {"id", "status", "note"}

Fresh(data) == [data |-> data, tag |-> 0]

(* A row, or the body of a call, with the given keys.                       *)
Keyed(f) == [k \in MCFields |-> IF k \in DOMAIN f THEN f[k] ELSE Absent]

Order(id, s) == Keyed([id |-> id, status |-> s])

MCInitialLive ==
  [r \in 1 .. 2 |-> [ds |-> IF r = 1 THEN d2 ELSE d1, data |-> Order(1, 0), tag |-> 0]]

MCInitialSeed == [d \in MCDatasets |-> <<Fresh(Order(1, 0))>>]

(* Tool calls on d1, whose rows agents work on.                             *)
ToolRequests ==
  { [kind |-> "list", ds |-> d1],
    [kind |-> "create", ds |-> d1, body |-> Keyed([status |-> 1])],
    [kind |-> "update", ds |-> d1, key |-> 1, body |-> Keyed([status |-> 1])],
    [kind |-> "update", ds |-> d1, key |-> 1, body |-> Keyed([id |-> 2])],
    [kind |-> "delete", ds |-> d1, key |-> 1] }

(* Admin requests; rows are also added to d2, which takes ids in between.   *)
AdminRequests ==
  { [kind |-> "replace", ds |-> d1, rows |-> <<Fresh(Order(1, 2))>>],
    [kind |-> "add", ds |-> d2, rows |-> <<Fresh(Order(1, 2))>>],
    [kind |-> "reset", ds |-> d1],
    [kind |-> "saveSeed", ds |-> d1],
    [kind |-> "drop", ds |-> d1],
    [kind |-> "replaceEdited", ds |-> d1],
    [kind |-> "addEdited", ds |-> d1] }

MCRequests == ToolRequests \cup AdminRequests

===============================================================================
