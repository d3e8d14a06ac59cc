-------------------------------- MODULE LiveData --------------------------------
(***************************************************************************)
(* The live rows of the datasets, the seed snapshots behind them, and the  *)
(* two ways in which requests work on both at the same time:               *)
(*                                                                         *)
(*   - tool calls (service.call_tool, over MCP and REST): the tool is      *)
(*     resolved, the executor reads rows in autocommit mode, then writes   *)
(*     in a transaction of its own, then the call is logged in another;    *)
(*   - admin requests (PUT and POST rows, reset, save as seed, delete):    *)
(*     the dataset is looked up, then one transaction changes it.          *)
(*                                                                         *)
(* A transaction is one step here, which is what module Transaction shows  *)
(* of db.transaction.  Each read is a step of its own, since nothing is    *)
(* locked until the first write.                                           *)
(*                                                                         *)
(* A stored row is JSON text.  What list_rows makes of it is               *)
(* {"_row_id": r["id"], **data}: a "_row_id" inside data wins over the id  *)
(* of the row.  The model keeps that key apart as tag, 0 when absent.      *)
(***************************************************************************)
EXTENDS Integers, Sequences, FiniteSets

CONSTANTS
  Datasets,      (* ids of datasets                                        *)
  Fields,        (* the keys of rows                                       *)
  IdField,       (* dataset.id_field                                       *)
  Absent,        (* the "value" of a key that a row does not have          *)
  Clients,       (* clients, each with at most one request in flight       *)
  Requests,      (* the requests they make                                 *)
  InitialRows,   (* how many live rows there are at start-up               *)
  InitialLive,   (* those rows, with the ids 1 .. InitialRows              *)
  InitialSeed,   (* the seed rows at start-up                              *)
  Echo,          (* TRUE: admins send rows back as GET .../rows gave them  *)
  MaxRows        (* bound: no inserting request starts beyond this row id  *)

Data == [Fields -> Nat \cup {Absent}]

Keys(data) == {k \in Fields : data[k] # Absent}

Item == [data : Data, tag : Nat]             \* a row as JSON text

Row == [ds : Datasets, data : Data, tag : Nat]

ToolRequest ==
  [kind : {"list"}, ds : Datasets] \cup
  [kind : {"create"}, ds : Datasets, body : Data] \cup
  [kind : {"update"}, ds : Datasets, key : Nat, body : Data] \cup
  [kind : {"delete"}, ds : Datasets, key : Nat]

AdminRequest ==
  [kind : {"replace", "add"}, ds : Datasets, rows : Seq([data : Data, tag : {0}])] \cup
  [kind : {"replaceEdited", "addEdited", "reset", "saveSeed", "drop"}, ds : Datasets]

(* The request of a client that has made none yet.                         *)
NoRequest == [kind |-> "none"]

ASSUME LiveDataAssumption ==
  /\ Requests \subseteq ToolRequest \cup AdminRequest
  /\ InitialRows \in Nat
  /\ InitialLive \in [1 .. InitialRows -> [ds : Datasets, data : Data, tag : {0}]]
  /\ InitialSeed \in [Datasets -> Seq([data : Data, tag : {0}])]
  /\ IdField \in Fields
  /\ Absent \notin Nat
  /\ Echo \in BOOLEAN
  /\ MaxRows \in Nat

VARIABLES
  alive,     (* the datasets that exist                                    *)
  live,      (* dataset_row: a function on the ids of the stored rows      *)
  seed,      (* dataset_seed_row, in the order of its ids                  *)
  nextRow,   (* the next AUTOINCREMENT id of dataset_row                   *)
  edited,    (* the rows in the admin's "Rows JSON" editor                 *)
  req,       (* req[c]: the last request of c, in flight or answered       *)
  step,      (* step[c]: what the handler of c does next                   *)
  found,     (* found[c]: the row it has read, or is about to insert       *)
  status,    (* status[c]: the local `status` of call_tool                 *)
  effect,    (* effect[c]: what the transaction of a tool call has done:   *)
             (* "written", or "missed" when it committed and its WHERE     *)
             (* id = ? matched no row; "none" when it did not commit       *)
  log,       (* log[c]: what the call in flight has added to call_log      *)
  answer     (* answer[c]: what the last request of c was told             *)

handlers == <<req, step, found, status, effect, log, answer>>

tables == <<alive, live, seed, nextRow>>

vars == <<tables, edited, handlers>>

Found == [row : Nat, id : Nat, data : Data]

NothingFound == [row |-> 0, id |-> 0, data |-> [k \in Fields |-> Absent]]

TypeOK ==
  /\ alive \subseteq Datasets
  /\ nextRow \in Nat \ {0}
  /\ DOMAIN live \subseteq 1 .. nextRow - 1
  /\ \A r \in DOMAIN live : live[r] \in Row
  /\ seed \in [Datasets -> Seq(Item)]
  /\ edited \in Seq(Item)
  /\ req \in [Clients -> Requests \cup {NoRequest}]
  /\ step \in [Clients -> {"idle", "find", "check", "write", "log", "confirm"}]
  /\ found \in [Clients -> Found]
  /\ status \in [Clients -> {"ok", "error"}]
  /\ effect \in [Clients -> {"none", "missed", "written"}]
  /\ log \in [Clients -> Seq({"ok", "error"})]
  /\ answer \in [Clients -> {"none", "ok", "error"}]

-------------------------------------------------------------------------------
(* Rows.                                                                    *)

RowsOf(d) == {r \in DOMAIN live : live[r].ds = d}

(* The "_row_id" that list_rows shows for row r.                            *)
ShownId(r) == IF live[r].tag = 0 THEN r ELSE live[r].tag

FieldsOf(d) == UNION {Keys(live[r].data) : r \in RowsOf(d)}

\* mutant: the WHERE dataset_id = ? of the lookup is lost
MatchingAnywhere(d, key) == {r \in DOMAIN live : live[r].data[IdField] = key}

(* _find_row: the rows of d whose id field equals the lookup value.         *)
Matching(d, key) ==
  {r \in RowsOf(d) : live[r].data[IdField] = key}

IdsIn(d) == {live[r].data[IdField] : r \in RowsOf(d)} \ {Absent}

\* mutant: one more than the number of rows
NextIdCounts(d) == {Cardinality(RowsOf(d)) + 1}

(* _next_id: one more than the largest id there is.                         *)
NextIds(d) ==
  IF IdsIn(d) = {}
    THEN {1}
    ELSE {n + 1 : n \in {m \in IdsIn(d) : \A k \in IdsIn(d) : k <= m}}

(* ORDER BY id: the one sequence of the rows of d with growing ids.         *)
InOrder(d) ==
  {s \in [1 .. Cardinality(RowsOf(d)) -> RowsOf(d)] :
     \A i, j \in 1 .. Cardinality(RowsOf(d)) : i < j => s[i] < s[j]}

(* What GET .../rows shows of rows, as text that can be sent back.          *)
Listing(rows) == [i \in DOMAIN rows |-> [data |-> live[rows[i]].data, tag |-> ShownId(rows[i])]]

(* Promoting to seed copies the JSON text as it is, "_row_id" included.     *)
Copy(rows) == [i \in DOMAIN rows |-> [data |-> live[rows[i]].data, tag |-> live[rows[i]].tag]]

Keeping(S) == [r \in S |-> live[r]]

\* mutant: ids as INTEGER PRIMARY KEY hands them out without AUTOINCREMENT
FirstRowidFree(rows) ==
  IF DOMAIN rows = {}
    THEN 1
    ELSE 1 + CHOOSE n \in DOMAIN rows : \A m \in DOMAIN rows : m <= n

FirstFree(rows) == nextRow

(* The table `rows` with items inserted into dataset d, in their order.     *)
Inserted(rows, d, items) ==
  LET n == FirstFree(rows)
      new == n .. n + Len(items) - 1
  IN  [r \in DOMAIN rows \cup new |->
         IF r \in new
           THEN [ds |-> d, data |-> items[r - n + 1].data, tag |-> items[r - n + 1].tag]
           ELSE rows[r]]

\* mutant: the body replaces the row
MergedReplaces(old, body) == [k \in Fields |-> body[k]]

Merged(old, body) ==
  [k \in Fields |-> IF k \in Keys(body) THEN body[k] ELSE old[k]]

-------------------------------------------------------------------------------
(* Requests begin and end.                                                  *)

ToolKinds == {"list", "create", "update", "delete"}

InsertingKinds == {"create", "replace", "add", "replaceEdited", "addEdited", "reset"}

EditedKinds == {"replaceEdited", "addEdited"}

IsTool(c) == req[c].kind \in ToolKinds

Goto(c, s) == step' = [step EXCEPT ![c] = s]

(* A request arrives, and its handler looks the dataset up: call_tool finds *)
(* the tool and _require_dataset, the admin handlers _require_dataset.      *)
Arrive(c, q) ==
  /\ step[c] = "idle"
  /\ q.kind \in EditedKinds => Echo
  /\ q.kind \in InsertingKinds => nextRow <= MaxRows
  /\ req' = [req EXCEPT ![c] = q]
  /\ found' = [found EXCEPT ![c] = NothingFound]
  /\ effect' = [effect EXCEPT ![c] = "none"]
  /\ log' = [log EXCEPT ![c] = <<>>]
  /\ IF q.ds \in alive
       THEN /\ status' = [status EXCEPT ![c] = "ok"]
            /\ answer' = [answer EXCEPT ![c] = "none"]
            /\ Goto(c, IF q.kind \in ToolKinds THEN "find" ELSE "write")
       ELSE /\ status' = [status EXCEPT ![c] = "error"]
            /\ answer' = [answer EXCEPT ![c] = IF q.kind \in ToolKinds THEN "none" ELSE "error"]
            /\ Goto(c, IF q.kind \in ToolKinds THEN "log" ELSE "idle")
  /\ UNCHANGED <<tables, edited>>

(* A handler returns, and its locals are gone; what the call has left in    *)
(* call_log stays to be looked at until the client makes its next request.  *)
Return(c) ==
  /\ Goto(c, "idle")
  /\ found' = [found EXCEPT ![c] = NothingFound]

(* The call failed: `status` gets the code of the exception, of which the   *)
(* model keeps that it is not "ok", and the finally clause logs it.         *)
FailCall(c) ==
  /\ status' = [status EXCEPT ![c] = "error"]
  /\ Goto(c, "log")

-------------------------------------------------------------------------------
(* Tool calls: executor.execute.                                            *)

(* list, search and get: rows are read and nothing else happens.            *)
List(c) ==
  /\ step[c] = "find"
  /\ req[c].kind = "list"
  /\ Goto(c, "log")
  /\ UNCHANGED <<tables, edited, req, found, status, effect, log, answer>>

(* A get that finds no row, parameters that make no sense, a locked file.   *)
ReadFails(c) ==
  /\ step[c] \in {"find", "check"}
  /\ IsTool(c)
  /\ FailCall(c)
  /\ UNCHANGED <<tables, edited, req, found, effect, log, answer>>

(* _execute_create up to the insert: one read for both the known fields and *)
(* the next id.                                                             *)
PrepareCreate(c) ==
  /\ step[c] = "find"
  /\ req[c].kind = "create"
  /\ LET d == req[c].ds
         body == req[c].body
     IN  \/ /\ FieldsOf(d) # {}
            /\ ~(Keys(body) \subseteq FieldsOf(d))
            /\ FailCall(c)
            /\ UNCHANGED found
         \/ /\ FieldsOf(d) = {} \/ Keys(body) \subseteq FieldsOf(d)
            /\ \E n \in NextIds(d) :
                 found' = [found EXCEPT ![c] =
                   [row |-> 0, id |-> 0,
                    data |-> IF IdField \in Keys(body)
                               THEN body
                               ELSE [body EXCEPT ![IdField] = n]]]
            /\ Goto(c, "write")
            /\ UNCHANGED status
  /\ UNCHANGED <<tables, edited, req, effect, log, answer>>

(* _find_row of update and delete: the first match in the order of ids.     *)
Find(c) ==
  /\ step[c] = "find"
  /\ req[c].kind \in {"update", "delete"}
  /\ LET rows == Matching(req[c].ds, req[c].key)
     IN  \/ /\ rows = {}
            /\ FailCall(c)
            /\ UNCHANGED found
         \/ \E first \in rows :
              /\ \A r \in rows : first <= r
              /\ found' = [found EXCEPT ![c] =
                   [row |-> first, id |-> ShownId(first), data |-> live[first].data]]
              /\ Goto(c, IF req[c].kind = "update" THEN "check" ELSE "write")
              /\ UNCHANGED status
  /\ UNCHANGED <<tables, edited, req, effect, log, answer>>

(* _execute_update lists the rows a second time for the known fields.       *)
CheckFields(c) ==
  /\ step[c] = "check"
  /\ IF /\ FieldsOf(req[c].ds) # {}
        /\ ~(Keys(req[c].body) \subseteq FieldsOf(req[c].ds))
       THEN FailCall(c)
       ELSE Goto(c, "write") /\ UNCHANGED status
  /\ UNCHANGED <<tables, edited, req, found, effect, log, answer>>

\* mutant: the counter of ids stays behind
InsertRowUncounted(c) ==
  /\ req[c].kind = "create"
  /\ req[c].ds \in alive
  /\ live' = Inserted(live, req[c].ds, <<[data |-> found[c].data, tag |-> 0]>>)
  /\ UNCHANGED nextRow

(* store.add_rows; the foreign key refuses a dataset that is gone.          *)
InsertRow(c) ==
  /\ req[c].kind = "create"
  /\ req[c].ds \in alive
  /\ live' = Inserted(live, req[c].ds, <<[data |-> found[c].data, tag |-> 0]>>)
  /\ nextRow' = nextRow + 1

\* mutant: INSERT OR REPLACE, which brings a deleted row back
UpsertRow(c) ==
  /\ req[c].kind = "update"
  /\ live' = [r \in DOMAIN live \cup {found[c].id} |->
                IF r = found[c].id
                  THEN [ds |-> req[c].ds, data |-> Merged(found[c].data, req[c].body), tag |-> 0]
                  ELSE live[r]]
  /\ UNCHANGED nextRow

(* store.update_row: UPDATE ... WHERE id = ?, which may match no row.       *)
UpdateRow(c) ==
  /\ req[c].kind = "update"
  /\ live' = [r \in DOMAIN live |->
                IF r = found[c].id
                  THEN [ds |-> live[r].ds, data |-> Merged(found[c].data, req[c].body), tag |-> 0]
                  ELSE live[r]]
  /\ UNCHANGED nextRow

(* store.delete_row: DELETE ... WHERE id = ?, which may match no row.       *)
DeleteRow(c) ==
  /\ req[c].kind = "delete"
  /\ live' = Keeping(DOMAIN live \ {found[c].id})
  /\ UNCHANGED nextRow

(* What the statement has done: an UPDATE or a DELETE that matches no row   *)
(* raises nothing, and nobody looks at its row count.                       *)
Done(c) ==
  IF req[c].kind = "create" \/ found[c].id \in DOMAIN live THEN "written" ELSE "missed"

ToolWrite(c) ==
  /\ step[c] = "write"
  /\ InsertRow(c) \/ UpdateRow(c) \/ DeleteRow(c)
  /\ effect' = [effect EXCEPT ![c] = Done(c)]
  /\ Goto(c, "log")
  /\ UNCHANGED <<alive, seed, edited, req, found, status, log, answer>>

\* mutant: the exception passes call_tool by without setting status
ToolWriteFailsSilently(c) ==
  /\ step[c] = "write"
  /\ IsTool(c)
  /\ Goto(c, "log")
  /\ UNCHANGED <<tables, edited, req, found, status, effect, log, answer>>

(* The transaction is rolled back: the file is locked, or the dataset gone. *)
ToolWriteFails(c) ==
  /\ step[c] = "write"
  /\ IsTool(c)
  /\ FailCall(c)
  /\ UNCHANGED <<tables, edited, req, found, effect, log, answer>>

(* finally: store.log_call.  When that raises, so does call_tool, whatever  *)
(* the tool has done.                                                       *)
LogCall(c) ==
  /\ step[c] = "log"
  /\ log' = [log EXCEPT ![c] = Append(log[c], status[c])]
  /\ answer' = [answer EXCEPT ![c] = IF status[c] = "ok" THEN "ok" ELSE "error"]
  /\ Return(c)
  /\ UNCHANGED <<tables, edited, req, status, effect>>

LogFails(c) ==
  /\ step[c] = "log"
  /\ answer' = [answer EXCEPT ![c] = "error"]
  /\ Return(c)
  /\ UNCHANGED <<tables, edited, req, status, effect, log>>

-------------------------------------------------------------------------------
(* Admin requests: the transactions of service.py.                          *)

(* The rows that a PUT or a POST sends.                                     *)
Sent(q) == IF q.kind \in EditedKinds THEN edited ELSE q.rows

(* A statement that inserts rows fails on a dataset that is gone.           *)
Insertable(d, items) == items # <<>> => d \in alive

ReplaceRows(q) ==
  /\ q.kind \in {"replace", "replaceEdited"}
  /\ Insertable(q.ds, Sent(q))
  /\ live' = Inserted(Keeping(DOMAIN live \ RowsOf(q.ds)), q.ds, Sent(q))
  /\ nextRow' = nextRow + Len(Sent(q))
  /\ UNCHANGED <<alive, seed>>

AddRows(q) ==
  /\ q.kind \in {"add", "addEdited"}
  /\ Insertable(q.ds, Sent(q))
  /\ live' = Inserted(live, q.ds, Sent(q))
  /\ nextRow' = nextRow + Len(Sent(q))
  /\ UNCHANGED <<alive, seed>>

ResetToSeed(q) ==
  /\ q.kind = "reset"
  /\ live' = Inserted(Keeping(DOMAIN live \ RowsOf(q.ds)), q.ds, seed[q.ds])
  /\ nextRow' = nextRow + Len(seed[q.ds])
  /\ UNCHANGED <<alive, seed>>

SaveAsSeed(q) ==
  /\ q.kind = "saveSeed"
  /\ \E rows \in InOrder(q.ds) : seed' = [seed EXCEPT ![q.ds] = Copy(rows)]
  /\ UNCHANGED <<alive, live, nextRow>>

(* delete_dataset, once no endpoint uses the dataset, or delete_server: the *)
(* foreign keys cascade to its rows and its seed rows.                      *)
DropDataset(q) ==
  /\ q.kind = "drop"
  /\ alive' = alive \ {q.ds}
  /\ live' = Keeping(DOMAIN live \ RowsOf(q.ds))
  /\ seed' = [seed EXCEPT ![q.ds] = <<>>]
  /\ UNCHANGED nextRow

AdminWrite(c) ==
  /\ step[c] = "write"
  /\ \/ ReplaceRows(req[c]) \/ AddRows(req[c]) \/ ResetToSeed(req[c])
     \/ SaveAsSeed(req[c]) \/ DropDataset(req[c])
  /\ Goto(c, "confirm")
  /\ UNCHANGED <<edited, req, found, status, effect, log, answer>>

AdminWriteFails(c) ==
  /\ step[c] = "write"
  /\ ~IsTool(c)
  /\ answer' = [answer EXCEPT ![c] = "error"]
  /\ Return(c)
  /\ UNCHANGED <<tables, edited, req, status, effect, log>>

(* The handlers end with get_dataset, which raises NotFound on a dataset    *)
(* that is gone by then; delete_dataset answers nothing.                    *)
Confirm(c) ==
  /\ step[c] = "confirm"
  /\ answer' = [answer EXCEPT ![c] =
       IF req[c].kind = "drop" \/ req[c].ds \in alive THEN "ok" ELSE "error"]
  /\ Return(c)
  /\ UNCHANGED <<tables, edited, req, status, effect, log>>

(* The dataset page fills its editor with GET .../rows.                     *)
LoadEditor(d) ==
  /\ Echo
  /\ d \in alive
  /\ \E rows \in InOrder(d) : edited' = Listing(rows)
  /\ UNCHANGED <<tables, handlers>>

(* The process dies and is started again: the file is what was committed,   *)
(* the requests in flight get no answer.                                    *)
Crash ==
  /\ step' = [c \in Clients |-> "idle"]
  /\ found' = [c \in Clients |-> NothingFound]
  /\ UNCHANGED <<tables, edited, req, status, effect, log, answer>>

-------------------------------------------------------------------------------
Init ==
  /\ alive = Datasets
  /\ live = InitialLive
  /\ seed = InitialSeed
  /\ nextRow = InitialRows + 1
  /\ edited = <<>>
  /\ req = [c \in Clients |-> NoRequest]
  /\ step = [c \in Clients |-> "idle"]
  /\ found = [c \in Clients |-> NothingFound]
  /\ status = [c \in Clients |-> "ok"]
  /\ effect = [c \in Clients |-> "none"]
  /\ log = [c \in Clients |-> <<>>]
  /\ answer = [c \in Clients |-> "none"]

Tool(c) ==
  \/ List(c)
  \/ ReadFails(c)
  \/ PrepareCreate(c)
  \/ Find(c)
  \/ CheckFields(c)
  \/ ToolWrite(c)
  \/ ToolWriteFails(c)
  \/ LogCall(c)
  \/ LogFails(c)

Admin(c) ==
  \/ AdminWrite(c)
  \/ AdminWriteFails(c)
  \/ Confirm(c)

Next ==
  \/ \E c \in Clients, q \in Requests : Arrive(c, q)
  \/ \E c \in Clients : Tool(c) \/ Admin(c)
  \/ \E d \in Datasets : LoadEditor(d)
  \/ Crash

Spec == Init /\ [][Next]_vars

-------------------------------------------------------------------------------
(* Properties.                                                              *)

(* The step in which the transaction of a tool call commits.                *)
Commits(c, kind) ==
  req[c].kind = kind /\ step[c] = "write" /\ step'[c] = "log" /\ effect'[c] # "none"

Touched(r) == r \notin DOMAIN live' \/ live'[r] # live[r]

(* update and delete write by the id they read some time ago.  In between   *)
(* the row may have been deleted, its dataset reset, replaced or dropped:   *)
(* still they touch no row but the one they found, and none of another      *)
(* dataset.  This is of rows without a stored "_row_id": it is checked and  *)
(* proved for ~Echo, where nobody sends one back.                           *)
OnlyTheRowFound ==
  [][\A c \in Clients :
       Commits(c, "update") \/ Commits(c, "delete") =>
         \A r \in DOMAIN live :
           Touched(r) => r = found[c].row /\ live[r].ds = req[c].ds]_vars

(* A row id stands for one row of one dataset for ever: once the row is     *)
(* gone the id never comes back, and it never moves to another dataset.     *)
RowIdsStandForOneRow ==
  [][/\ \A r \in 1 .. nextRow - 1 : r \notin DOMAIN live => r \notin DOMAIN live'
     /\ \A r \in DOMAIN live \cap DOMAIN live' : live'[r].ds = live[r].ds]_vars

(* The row that c found is gone: its id was handed out, and is in no table. *)
RowGone(c) == found[c].row \in 1 .. nextRow - 1 /\ found[c].row \notin DOMAIN live

(* call_log tells what a tool call has done: at most one entry; an error    *)
(* only for a call that changed nothing; "ok" of a create only if the row   *)
(* was inserted, and of an update or a delete only if its transaction was   *)
(* committed; and a caller is told "ok" only with that entry.  "ok" does    *)
(* not say that a row was changed: an update or a delete that comes too     *)
(* late matches none and is logged and answered "ok" (store.py:152, 157).   *)
(* But it misses only what is gone for good: unless a "_row_id" was stored, *)
(* the row that it found has been deleted since, and will not come back.    *)
LogTellsTheTruth ==
  \A c \in Clients : IsTool(c) =>
    /\ Len(log[c]) <= 1
    /\ log[c] = <<"ok">> => effect[c] # "none" \/ req[c].kind = "list"
    /\ Len(log[c]) = 1 /\ log[c][1] # "ok" => effect[c] = "none"
    /\ answer[c] = "ok" => log[c] = <<"ok">>
    /\ effect[c] = "missed" => req[c].kind \in {"update", "delete"}
    /\ effect[c] = "missed" /\ step[c] = "log" => Echo \/ RowGone(c)

(* The row that c found was listed under its own id: no "_row_id" that an   *)
(* admin has sent back stands in for it (store.list_rows, store.py:127).    *)
ShownAsItself(c) == found[c].id = found[c].row

(* An update that commits has put the merged row into the place of the row  *)
(* that it found, and a delete has taken that row away, whatever "_row_id"s *)
(* other rows have stored, if the row found has none.  (If it has one, the  *)
(* write goes to the row of that id, and mostly to none.)                   *)
WritesTakeEffect ==
  [][\A c \in Clients :
       /\ Commits(c, "update") /\ ShownAsItself(c) =>
            /\ effect'[c] = "written"
            /\ found[c].row \in RowsOf(req[c].ds)'
            /\ live'[found[c].row].data = Merged(found[c].data, req[c].body)
       /\ Commits(c, "delete") /\ ShownAsItself(c) =>
            /\ effect'[c] = "written"
            /\ found[c].row \notin DOMAIN live']_vars

(* An update that commits changes the fields it was given and keeps all     *)
(* others, of all rows, if the row that it found has no "_row_id" stored.   *)
UpdateKeepsOtherFields ==
  [][\A c \in Clients : Commits(c, "update") /\ ShownAsItself(c) =>
       \A r \in DOMAIN live \cap DOMAIN live' :
         \A k \in Keys(live[r].data) \ Keys(req[c].body) :
           live'[r].data[k] = live[r].data[k]]_vars

(* An id that create assigns is not that of another row of the dataset.     *)
AssignedIdIsFresh ==
  [][\A c \in Clients :
       Commits(c, "create") /\ IdField \notin Keys(req[c].body) =>
         found[c].data[IdField] \notin IdsIn(req[c].ds)]_vars

-------------------------------------------------------------------------------
(* The inductive invariant behind OnlyTheRowFound and LogTellsTheTruth.     *)

(* What update and delete remember between reading and writing: a row id    *)
(* that has been handed out, and is gone or still a row of their dataset.   *)
FoundInPlace ==
  \A c \in Clients :
    step[c] \in {"check", "write"} /\ req[c].kind \in {"update", "delete"} =>
      /\ found[c].row \in 1 .. nextRow - 1
      /\ found[c].row \in DOMAIN live => live[found[c].row].ds = req[c].ds
      /\ Echo \/ found[c].id = found[c].row

(* Where clients do not send it, no "_row_id" gets into a row or a seed.    *)
Untagged ==
  \/ Echo
  \/ /\ \A r \in DOMAIN live : live[r].tag = 0
     /\ \A d \in Datasets : \A i \in 1 .. Len(seed[d]) : seed[d][i].tag = 0
     /\ \A c \in Clients : req[c].kind \notin EditedKinds

(* What holds of a tool call before its log entry is written.               *)
LogPending ==
  \A c \in Clients : IsTool(c) /\ step[c] # "idle" =>
    /\ step[c] \in {"find", "check", "write", "log"}
    /\ log[c] = <<>>
    /\ answer[c] = "none"
    /\ step[c] # "log" => effect[c] = "none" /\ status[c] = "ok"
    /\ step[c] = "log" => IF status[c] = "ok" THEN effect[c] # "none" \/ req[c].kind = "list"
                                              ELSE effect[c] = "none"

IInv ==
  /\ TypeOK
  /\ FoundInPlace
  /\ Untagged
  /\ LogPending
  /\ LogTellsTheTruth

-------------------------------------------------------------------------------
(* The inductive invariant behind WritesTakeEffect, UpdateKeepsOtherFields  *)
(* and AssignedIdIsFresh: with one client, no one writes between its read   *)
(* and its write.  (With two none of this holds.)                           *)

(* update and delete: the row is as it was found.                           *)
FoundStays(c) ==
  step[c] \in {"check", "write"} /\ req[c].kind \in {"update", "delete"} =>
    /\ found[c].row \in RowsOf(req[c].ds)
    /\ found[c].id = ShownId(found[c].row)
    /\ found[c].data = live[found[c].row].data

(* create: the id it has picked is still the next one.                      *)
PickedIsNext(c) ==
  step[c] \in {"check", "write"} /\ req[c].kind = "create" /\ IdField \notin Keys(req[c].body) =>
    found[c].data[IdField] \in NextIds(req[c].ds)

SerialInv == \A c \in Clients : FoundStays(c) /\ PickedIsNext(c)

===============================================================================
