--------------------------------- MODULE Cohort ---------------------------------
(***************************************************************************)
(* The bootcamp control panel: service.reset_all_to_seed over the servers  *)
(* of a team, and what get_cohort says of them, while datasets are edited, *)
(* created and deleted.                                                    *)
(*                                                                         *)
(* reset_all_to_seed runs in one transaction.  Its SELECTs before the      *)
(* first DELETE are in autocommit, so each of them may see another         *)
(* database; the first DELETE takes SQLite's write lock, which it keeps to *)
(* the end.  Writers of one dataset are one step; waiting for the lock is  *)
(* in module Transaction.  The content of a dataset is a set of rows.      *)
(***************************************************************************)
EXTENDS Naturals, FiniteSets, FiniteSetsExt

CONSTANTS
  Resetters, Editors,   (* threads                                         *)
  Servers,              (* Nat: in the order of their slugs                *)
  Ids,                  (* Nat: ids of datasets; bounds their creation     *)
  Rows,
  Matching,             (* the sets of servers that a prefix can match     *)
  Unused, Deleted, Nobody

Clients == Resetters \cup Editors

CohortAssumption ==
  /\ Servers \subseteq Nat /\ IsFiniteSet(Ids) /\ Ids = 1 .. Cardinality(Ids)
  /\ \A p \in Matching : p \subseteq Servers
  /\ {Unused, Deleted} \cap Servers = {} /\ Unused # Deleted
  /\ Nobody \notin Clients

VARIABLES
  servers,    (* the servers there are                                     *)
  home,       (* home[d]: the server of dataset d, Unused or Deleted       *)
  live, seed, (* live[d], seed[d]: the rows as committed                   *)
  owner,      (* who holds the write lock                                  *)
  done,       (* the datasets that its transaction has reset               *)
  step,       (* step[c]: what c does next, or how its request ended       *)
  asked,      (* history: the servers that the prefix of c can match       *)
  todo,       (* todo[c]: the servers to come, in the order of their slugs *)
  queue,      (* queue[c]: the datasets to come, of the server at hand, in *)
              (* the order of their ids                                    *)
  listed      (* history: all datasets that c has listed                   *)

vars == <<servers, home, live, seed, owner, done, step, asked, todo, queue, listed>>

tables == <<servers, home, live, seed>>

Stored == {d \in Ids : home[d] \in Servers}

Of(s) == {d \in Ids : home[d] = s}

Init ==
  /\ servers = Servers
  /\ home \in [Ids -> Servers \cup {Unused}]
  /\ \A d, e \in Ids : home[d] = Unused /\ d < e => home[e] = Unused
  /\ live = [d \in Ids |-> {}] /\ seed = live
  /\ owner = Nobody /\ done = {}
  /\ step = [c \in Clients |-> "idle"]
  /\ asked = [c \in Clients |-> {}] /\ todo = asked /\ queue = asked /\ listed = asked

Busy(c) == step[c] = "resetting"

Goto(c, s) == step' = [step EXCEPT ![c] = s]

-------------------------------------------------------------------------------
(* Writers of one dataset or server, each a transaction of its own.        *)

Write(c) ==
  /\ c \in Editors /\ ~Busy(c) /\ owner = Nobody
  /\ Goto(c, "idle")
  /\ UNCHANGED <<owner, done, asked, todo, queue, listed>>

(* Tools, add_rows and replace_rows.                                       *)
Edit(c, d, rows) ==
  /\ Write(c) /\ d \in Stored
  /\ live' = [live EXCEPT ![d] = rows]
  /\ UNCHANGED <<servers, home, seed>>

SaveAsSeed(c, d) ==
  /\ Write(c) /\ d \in Stored
  /\ seed' = [seed EXCEPT ![d] = live[d]]
  /\ UNCHANGED <<servers, home, live>>

CreateDataset(c, s, rows) ==
  /\ Write(c) /\ s \in servers
  /\ LET unused == {d \in Ids : home[d] = Unused} IN
     /\ unused # {}
     /\ home' = [home EXCEPT ![Min(unused)] = s]
     /\ live' = [live EXCEPT ![Min(unused)] = rows]
     /\ seed' = [seed EXCEPT ![Min(unused)] = rows]
  /\ UNCHANGED servers

Drop(ds) ==
  /\ home' = [d \in Ids |-> IF d \in ds THEN Deleted ELSE home[d]]
  /\ live' = [d \in Ids |-> IF d \in ds THEN {} ELSE live[d]]
  /\ seed' = [d \in Ids |-> IF d \in ds THEN {} ELSE seed[d]]

DeleteDataset(c, d) ==
  /\ Write(c) /\ d \in Stored
  /\ Drop({d})
  /\ UNCHANGED servers

DeleteServer(c, s) ==
  /\ Write(c) /\ s \in servers
  /\ servers' = servers \ {s}
  /\ Drop(Of(s))

-------------------------------------------------------------------------------
(* reset_all_to_seed                                                       *)

Reset(c, ds) ==
  live' = [d \in Ids |-> IF d \in ds THEN seed[d] ELSE live[d]]

(* _servers_for_reset *)
ServersForReset(p) == servers \cap p

BeginReset(c, p) ==
  /\ c \in Resetters /\ ~Busy(c)
  /\ Goto(c, "resetting")
  /\ asked' = [asked EXCEPT ![c] = p]
  /\ todo' = [todo EXCEPT ![c] = ServersForReset(p)]
  /\ listed' = [listed EXCEPT ![c] = {}]
  /\ UNCHANGED <<tables, owner, done, queue>>

ListDatasets(c) ==
  /\ Busy(c) /\ queue[c] = {} /\ todo[c] # {}
  /\ todo' = [todo EXCEPT ![c] = @ \ {Min(@)}]
  /\ queue' = [queue EXCEPT ![c] = Of(Min(todo[c]))]
  /\ listed' = [listed EXCEPT ![c] = @ \cup Of(Min(todo[c]))]
  /\ UNCHANGED <<tables, owner, done, step, asked>>

(* reset_to_seed, nested: it waits for the lock, or has it.  When the      *)
(* dataset is gone, _require_dataset or get_dataset raises NotFound.       *)
ResetOne(c) ==
  /\ Busy(c) /\ queue[c] # {} /\ Min(queue[c]) \in Stored
  /\ owner \in {Nobody, c}
  /\ owner' = c
  /\ done' = done \cup {Min(queue[c])}
  /\ queue' = [queue EXCEPT ![c] = @ \ {Min(@)}]
  /\ UNCHANGED <<tables, step, asked, todo, listed>>

End(c, how) ==
  /\ Goto(c, how)
  /\ owner' = IF owner = c THEN Nobody ELSE owner
  /\ done' = IF owner = c THEN {} ELSE done
  /\ todo' = [todo EXCEPT ![c] = {}]
  /\ queue' = [queue EXCEPT ![c] = {}]
  /\ asked' = [asked EXCEPT ![c] = {}]
  /\ listed' = [listed EXCEPT ![c] = {}]
  /\ UNCHANGED <<servers, home, seed>>

\* mutant: what was reset so far is committed
FailCommits(c) ==
  /\ Busy(c) /\ queue[c] # {} /\ Min(queue[c]) \notin Stored
  /\ End(c, "refused")
  /\ Reset(c, IF owner = c THEN done ELSE {})

(* The whole transaction is rolled back.                                   *)
Fail(c) ==
  /\ Busy(c) /\ queue[c] # {} /\ Min(queue[c]) \notin Stored
  /\ End(c, "refused")
  /\ UNCHANGED live

Commit(c) ==
  /\ Busy(c) /\ queue[c] = {} /\ todo[c] = {}
  /\ End(c, "reset")
  /\ Reset(c, IF owner = c THEN done ELSE {})

Edits(c, rowsets) ==
  \/ \E d \in Ids, rows \in rowsets : Edit(c, d, rows)
  \/ \E s \in Servers, rows \in rowsets : CreateDataset(c, s, rows)
  \/ \E d \in Ids : SaveAsSeed(c, d) \/ DeleteDataset(c, d)
  \/ \E s \in Servers : DeleteServer(c, s)

Resets(c) ==
  \/ \E p \in Matching : BeginReset(c, p)
  \/ ListDatasets(c) \/ ResetOne(c) \/ Fail(c) \/ Commit(c)

Next == \E c \in Clients : Edits(c, SUBSET Rows) \/ Resets(c)

Spec == Init /\ [][Next]_vars

-------------------------------------------------------------------------------
(* get_cohort: one SELECT over the committed database.                     *)

LiveCount(s) == SumFunction([d \in Of(s) |-> Cardinality(live[d])])

SeedCount(s) == SumFunction([d \in Of(s) |-> Cardinality(seed[d])])

InSync(s) == LiveCount(s) = SeedCount(s)

Restored(s) == \A d \in Of(s) : live[d] = seed[d]

(* Datasets belong to servers that exist, and only the holder of the lock  *)
(* has reset any.                                                          *)
TypeOK ==
  /\ servers \subseteq Servers /\ \A d \in Ids : home[d] \in servers \cup {Unused, Deleted}
  /\ \A d \in Ids \ Stored : live[d] = {} /\ seed[d] = {}
  /\ owner = Nobody => done = {}
  /\ owner # Nobody => Busy(owner) /\ done \subseteq listed[owner]

(* "`Data drift` means live rows differ from seed rows": row counts tell   *)
(* no drift where there is none (get_cohort).                              *)
DriftIsReal == \A s \in servers : Restored(s) => InSync(s)

(* The rest is about every step that is taken.                             *)

(* Of a reset of many servers, others see all or nothing: no live row      *)
(* changes while it has the lock, a reset that fails changes none, and one *)
(* that succeeds leaves every dataset it listed with its seed rows.        *)
ResetWhole ==
  \A c \in Resetters : Busy(c) =>
    CASE step'[c] = "reset" -> \A d \in listed[c] : live'[d] = seed'[d]
      [] step'[c] = "refused" -> live' = live
      [] OTHER -> owner = c => live' = live

(* The reset panel: the matching servers are restored, and the others are  *)
(* not touched (test_bulk_reset_prefix_touches_only_matching_servers).     *)
ResetComplete ==
  \A c \in Resetters : Busy(c) /\ step'[c] = "reset" =>
    /\ \A s \in asked[c] : Restored(s)'
    /\ \A d \in Ids : home[d] \notin asked[c] => live'[d] = live[d]

-------------------------------------------------------------------------------
(* The invariants behind these properties.                                  *)

(* What a reset has listed is what it has reset and what is to come.        *)
Ledger(c) ==
  /\ listed[c] = queue[c] \cup (IF owner = c THEN done ELSE {})
  /\ ~Busy(c) => queue[c] = {}

Shaped ==
  /\ home \in [Ids -> Servers \cup {Unused, Deleted}]
  /\ live \in [Ids -> SUBSET Rows] /\ seed \in [Ids -> SUBSET Rows]
  /\ owner \in Clients \cup {Nobody} /\ done \subseteq Ids
  /\ step \in [Clients -> {"idle", "resetting", "refused", "reset"}]
  /\ asked \in [Clients -> SUBSET Servers] /\ todo \in [Clients -> SUBSET Servers]
  /\ queue \in [Clients -> SUBSET Ids] /\ listed \in [Clients -> SUBSET Ids]
  /\ \A c \in Clients : Ledger(c)

IInv == TypeOK /\ Shaped

(* Nobody else resets, and what the reset of c has still to list, or has    *)
(* listed, is what the prefix matches.                                      *)
Alone(c) ==
  /\ \A d \in Clients \ {c} : ~Busy(d)
  /\ Busy(c) =>
       /\ \A d \in Ids : home[d] \in asked[c] => d \in listed[c] \/ home[d] \in todo[c]
       /\ \A d \in listed[c] : home[d] \in asked[c]
       /\ todo[c] \subseteq asked[c]

===============================================================================
