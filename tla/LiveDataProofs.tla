---------------------------- MODULE LiveDataProofs ----------------------------
(***************************************************************************)
(* For every set of clients, datasets and requests: a row id stands for    *)
(* one row for ever, update and delete touch no row but the one they       *)
(* found, and the call log tells what a tool call has done.  For a client  *)
(* that is alone: an update or a delete that is acknowledged has happened, *)
(* fields that were not sent are kept, and assigned ids are not taken.     *)
(***************************************************************************)
EXTENDS LiveData, FiniteSetTheorems, SequenceTheorems, TLAPS

(* Some of the live rows, unchanged.                                        *)
Kept(rows) == \A r \in DOMAIN rows : r \in DOMAIN live /\ rows[r] = live[r]

(* t: the rows that were kept, and new ones made of items, with new ids.    *)
Grown(t, rows, items) ==
  /\ Len(items) \in Nat
  /\ DOMAIN t \subseteq 1 .. nextRow + Len(items) - 1
  /\ \A r \in DOMAIN t : t[r] \in Row
  /\ \A r \in DOMAIN t : r < nextRow => r \in DOMAIN rows /\ t[r] = live[r]
  /\ \A r \in DOMAIN t : r >= nextRow => \E i \in 1 .. Len(items) : t[r].tag = items[i].tag

(* What an insertion of items into dataset d makes of some of the live rows.*)
LEMMA InsertedRows ==
  ASSUME TypeOK, NEW d \in Datasets, NEW items \in Seq(Item), NEW rows, Kept(rows)
  PROVE  Grown(Inserted(rows, d, items), rows, items)
<1> DEFINE new == nextRow .. nextRow + Len(items) - 1
           t == Inserted(rows, d, items)
<1>1. Len(items) \in Nat /\ nextRow \in Nat /\ nextRow > 0
  BY LenProperties DEF TypeOK
<1>2. t = [r \in DOMAIN rows \cup new |->
             IF r \in new
               THEN [ds |-> d, data |-> items[r - nextRow + 1].data,
                     tag |-> items[r - nextRow + 1].tag]
               ELSE rows[r]]
  BY DEF Inserted, FirstFree
<1>3. \A r \in DOMAIN rows : r \in 1 .. nextRow - 1 /\ rows[r] = live[r] /\ live[r] \in Row
  BY DEF TypeOK, Kept
<1>4. \A r \in new : r - nextRow + 1 \in 1 .. Len(items)
  BY <1>1
<1>5. \A i \in 1 .. Len(items) : items[i] \in Item
  BY ElementOfSeq
<1>6. \A r \in new : /\ t[r] \in Row
                     /\ \E i \in 1 .. Len(items) : t[r].tag = items[i].tag
  <2> SUFFICES ASSUME NEW r \in new
               PROVE  /\ t[r] \in Row
                      /\ \E i \in 1 .. Len(items) : t[r].tag = items[i].tag
    OBVIOUS
  <2>1. t[r] = [ds |-> d, data |-> items[r - nextRow + 1].data,
                tag |-> items[r - nextRow + 1].tag]
    BY <1>2
  <2>2. items[r - nextRow + 1] \in Item /\ r - nextRow + 1 \in 1 .. Len(items)
    BY <1>4, <1>5
  <2>3. QED
    BY <2>1, <2>2 DEF Item, Row
<1>7. \A r \in DOMAIN rows : t[r] = live[r] /\ r < nextRow
  BY <1>1, <1>2, <1>3
<1>8. DOMAIN t = DOMAIN rows \cup new
  BY <1>2
<1> HIDE DEF t
<1>9. DOMAIN t \subseteq 1 .. nextRow + Len(items) - 1
  BY <1>1, <1>3, <1>8
<1>10. \A r \in DOMAIN t : t[r] \in Row
  BY <1>3, <1>6, <1>7, <1>8
<1>11. \A r \in DOMAIN t : r < nextRow => r \in DOMAIN rows /\ t[r] = live[r]
  BY <1>1, <1>7, <1>8
<1>12. \A r \in DOMAIN t : r >= nextRow => \E i \in 1 .. Len(items) : t[r].tag = items[i].tag
  <2> SUFFICES ASSUME NEW r \in DOMAIN t, r >= nextRow
               PROVE  r \in new
    BY <1>6
  <2>1. r \notin DOMAIN rows
    BY <1>1, <1>3
  <2>2. QED
    BY <2>1, <1>8
<1>13. QED
  BY <1>1, <1>9, <1>10, <1>11, <1>12 DEF Grown, t

(* The rows of a dataset in order, and the texts that are made of them.     *)
LEMMA OrderedRows ==
  ASSUME TypeOK, NEW d, NEW rows \in InOrder(d)
  PROVE  /\ Copy(rows) \in Seq(Item)
         /\ Listing(rows) \in Seq(Item)
         /\ \A i \in 1 .. Len(Copy(rows)) : \E r \in DOMAIN live : Copy(rows)[i].tag = live[r].tag
<1> DEFINE n == Cardinality(RowsOf(d))
<1>1. n \in Nat
  <2>1. RowsOf(d) \subseteq 1 .. nextRow - 1 /\ nextRow - 1 \in Int /\ 1 \in Int
    BY DEF RowsOf, TypeOK
  <2>2. IsFiniteSet(RowsOf(d))
    BY <2>1, FS_Interval, FS_Subset
  <2>3. QED
    BY <2>2, FS_CardinalityType
<1>2. DOMAIN rows = 1 .. n /\ \A i \in 1 .. n : rows[i] \in DOMAIN live
  BY DEF InOrder, RowsOf
<1>3. \A i \in 1 .. n : /\ rows[i] \in Nat
                        /\ live[rows[i]].data \in Data
                        /\ live[rows[i]].tag \in Nat
  <2>1. \A r \in DOMAIN live : r \in Nat /\ live[r] \in Row
    BY DEF TypeOK
  <2>2. QED
    BY <1>2, <2>1 DEF Row
<1> HIDE DEF n
<1>4. Copy(rows) \in [1 .. n -> Item]
  BY <1>2, <1>3 DEF Copy, Item
<1>5. Listing(rows) \in [1 .. n -> Item]
  BY <1>2, <1>3 DEF Listing, ShownId, Item
<1>6. Copy(rows) \in Seq(Item) /\ Listing(rows) \in Seq(Item) /\ Len(Copy(rows)) = n
  BY <1>1, <1>4, <1>5, LenProperties
<1>7. \A i \in 1 .. n : Copy(rows)[i].tag = live[rows[i]].tag
  BY <1>2 DEF Copy
<1>8. QED
  BY <1>2, <1>6, <1>7

-------------------------------------------------------------------------------
(* Steps that only move a handler on keep what the invariant says of the    *)
(* tables.                                                                  *)

LEMMA MergedData ==
  ASSUME NEW old \in Data, NEW body \in Data
  PROVE  Merged(old, body) \in Data
BY DEF Merged, Data

(* What the kind of a request says of its fields.                           *)
LEMMA RequestFields ==
  ASSUME NEW q \in Requests
  PROVE  /\ q.ds \in Datasets
         /\ q.kind = "create" => q.body \in Data
         /\ q.kind = "update" => q.body \in Data
         /\ q.kind \in {"replace", "add"} =>
              q.rows \in Seq([data : Data, tag : {0}])
         /\ q.kind \in ToolKinds \/ q.kind \in {"replace", "add", "reset", "saveSeed", "drop"}
            \/ q.kind \in EditedKinds
<1>1. q \in ToolRequest \cup AdminRequest
  BY LiveDataAssumption
<1>2. QED
  BY <1>1 DEF ToolRequest, AdminRequest, ToolKinds, EditedKinds

(* The parts of TypeOK about the handlers.                                  *)
LEMMA ArriveTypes ==
  ASSUME TypeOK, NEW c \in Clients, NEW q \in Requests, Arrive(c, q)
  PROVE  TypeOK'
<1>1. NothingFound \in Found
  BY DEF NothingFound, Found, Data
<1>2. log' \in [Clients -> Seq({"ok", "error"})]
  BY DEF TypeOK, Arrive
<1>3. QED
  BY <1>1, <1>2 DEF TypeOK, Arrive, Goto, tables

LEMMA PrepareCreateTypes ==
  ASSUME TypeOK, NEW c \in Clients, PrepareCreate(c)
  PROVE  TypeOK'
<1>1. req[c].body \in Data
  BY RequestFields DEF TypeOK, PrepareCreate, NoRequest
<1>2. NextIds(req[c].ds) \subseteq Nat
  <2>1. \A r \in DOMAIN live : live[r].data \in Data
    BY DEF TypeOK, Row
  <2>2. IdsIn(req[c].ds) \subseteq Nat
    BY <2>1, LiveDataAssumption DEF IdsIn, RowsOf, Data
  <2>3. QED
    BY <2>2 DEF NextIds
<1>3. \A n \in Nat : [req[c].body EXCEPT ![IdField] = n] \in Data
  BY <1>1 DEF Data
<1>4. found' \in [Clients -> Found]
  <2>1. CASE UNCHANGED found
    BY <2>1 DEF TypeOK
  <2>2. CASE \E n \in NextIds(req[c].ds) :
               found' = [found EXCEPT ![c] =
                 [row |-> 0, id |-> 0,
                  data |-> IF IdField \in Keys(req[c].body)
                             THEN req[c].body
                             ELSE [req[c].body EXCEPT ![IdField] = n]]]
    BY <2>2, <1>1, <1>2, <1>3 DEF TypeOK, Found
  <2>3. QED
    BY <2>1, <2>2 DEF PrepareCreate
<1>5. QED
  BY <1>4 DEF TypeOK, PrepareCreate, FailCall, Goto, tables

LEMMA FindTypes ==
  ASSUME TypeOK, NEW c \in Clients, Find(c)
  PROVE  TypeOK'
<1>1. \A r \in DOMAIN live : [row |-> r, id |-> ShownId(r), data |-> live[r].data] \in Found
  <2>1. \A r \in DOMAIN live : r \in Nat /\ live[r] \in Row
    BY DEF TypeOK
  <2>2. QED
    BY <2>1 DEF Found, ShownId, Row
<1>2. \A r \in Matching(req[c].ds, req[c].key) : r \in DOMAIN live
  BY DEF Matching, RowsOf
<1>3. found' \in [Clients -> Found]
  <2>1. CASE UNCHANGED found
    BY <2>1 DEF TypeOK
  <2>2. CASE \E r \in Matching(req[c].ds, req[c].key) :
               found' = [found EXCEPT ![c] =
                 [row |-> r, id |-> ShownId(r), data |-> live[r].data]]
    BY <2>2, <1>1, <1>2 DEF TypeOK
  <2>3. QED
    BY <2>1, <2>2 DEF Find
<1>4. QED
  BY <1>3 DEF TypeOK, Find, FailCall, Goto, tables

LEMMA HandlerTypes ==
  ASSUME TypeOK, NEW c \in Clients,
         \/ List(c) \/ ReadFails(c) \/ CheckFields(c) \/ ToolWriteFails(c) \/ LogCall(c) \/ LogFails(c)
         \/ AdminWriteFails(c) \/ Confirm(c) \/ Crash
  PROVE  TypeOK'
<1>1. NothingFound \in Found
  BY DEF NothingFound, Found, Data
<1>2. CASE List(c) \/ ReadFails(c) \/ CheckFields(c) \/ ToolWriteFails(c)
  <2>1. /\ UNCHANGED <<tables, edited, req, found, effect, log, answer>>
        /\ step' \in [Clients -> {"idle", "find", "check", "write", "log", "confirm"}]
        /\ status' \in [Clients -> {"ok", "error"}]
    BY <1>2 DEF TypeOK, List, ReadFails, CheckFields, ToolWriteFails, FailCall, Goto
  <2>2. QED
    BY <2>1 DEF TypeOK, tables
<1>3. CASE LogFails(c) \/ AdminWriteFails(c) \/ Confirm(c)
  <2>1. PICK a \in {"ok", "error"} : answer' = [answer EXCEPT ![c] = a]
    BY <1>3 DEF LogFails, AdminWriteFails, Confirm
  <2>2. answer' \in [Clients -> {"none", "ok", "error"}]
    BY <2>1 DEF TypeOK
  <2>3. /\ UNCHANGED <<tables, edited, req, status, effect, log>>
        /\ step' = [step EXCEPT ![c] = "idle"]
        /\ found' = [found EXCEPT ![c] = NothingFound]
    BY <1>3 DEF LogFails, AdminWriteFails, Confirm, Return, Goto
  <2>4. /\ step' \in [Clients -> {"idle", "find", "check", "write", "log", "confirm"}]
        /\ found' \in [Clients -> Found]
    BY <2>3, <1>1 DEF TypeOK
  <2>5. QED
    BY <2>2, <2>3, <2>4 DEF TypeOK, tables
<1>4. CASE Crash
  <2>1. /\ UNCHANGED <<tables, edited, req, status, effect, log, answer>>
        /\ step' \in [Clients -> {"idle", "find", "check", "write", "log", "confirm"}]
        /\ found' \in [Clients -> Found]
    BY <1>1, <1>4 DEF Crash
  <2>2. QED
    BY <2>1 DEF TypeOK, tables
<1>5. CASE LogCall(c)
  <2>1. Append(log[c], status[c]) \in Seq({"ok", "error"})
    BY AppendProperties DEF TypeOK
  <2>2. /\ UNCHANGED <<tables, edited, req, status, effect>>
        /\ step' \in [Clients -> {"idle", "find", "check", "write", "log", "confirm"}]
        /\ found' \in [Clients -> Found]
        /\ log' \in [Clients -> Seq({"ok", "error"})]
        /\ answer' \in [Clients -> {"none", "ok", "error"}]
    BY <1>1, <1>5, <2>1 DEF TypeOK, LogCall, Return, Goto
  <2>3. QED
    BY <2>2 DEF TypeOK, tables
<1>6. QED
  BY <1>2, <1>3, <1>4, <1>5

(* The parts about the tables; what each write does to the rows it keeps.   *)
LEMMA ToolWriteRows ==
  ASSUME TypeOK, NEW c \in Clients, ToolWrite(c)
  PROVE  /\ nextRow' \in Nat /\ nextRow' >= nextRow
         /\ DOMAIN live' \subseteq 1 .. nextRow' - 1
         /\ \A r \in DOMAIN live' : live'[r] \in Row
         /\ \A r \in DOMAIN live' : r < nextRow => r \in DOMAIN live /\ live'[r].ds = live[r].ds
         /\ \A r \in DOMAIN live' : live'[r].tag = 0 \/ (r \in DOMAIN live /\ live'[r].tag = live[r].tag)
         /\ req[c].kind \in {"update", "delete"} =>
              \A r \in DOMAIN live : Touched(r) => r = found[c].id
<1>1. /\ nextRow \in Nat \ {0}
      /\ DOMAIN live \subseteq 1 .. nextRow - 1
      /\ \A r \in DOMAIN live : live[r] \in Row
      /\ found[c].data \in Data
      /\ req[c] \in Requests \cup {NoRequest}
  BY DEF TypeOK, Found
<1>2. CASE InsertRow(c)
  <2> DEFINE items == <<[data |-> found[c].data, tag |-> 0]>>
             t == live'
  <2>1. req[c].ds \in Datasets /\ req[c].kind = "create"
    BY <1>1, <1>2, RequestFields DEF InsertRow, NoRequest
  <2>2. items \in Seq(Item) /\ Len(items) = 1 /\ items[1].tag = 0
    BY <1>1 DEF Item
  <2>3. t = Inserted(live, req[c].ds, items) /\ nextRow' = nextRow + 1
    BY <1>2 DEF InsertRow
  <2> HIDE DEF items, t
  <2>4. Grown(t, live, items)
    BY <2>1, <2>2, <2>3, InsertedRows DEF Kept
  <2>5. \A r \in DOMAIN t : t[r].tag = 0 \/ (r \in DOMAIN live /\ t[r].tag = live[r].tag)
    <3> SUFFICES ASSUME NEW r \in DOMAIN t
                 PROVE  t[r].tag = 0 \/ (r \in DOMAIN live /\ t[r].tag = live[r].tag)
      OBVIOUS
    <3>1. r \in Nat
      BY <1>1, <2>2, <2>4 DEF Grown
    <3>2. CASE r < nextRow
      BY <3>2, <2>4 DEF Grown
    <3>3. CASE r >= nextRow
      BY <3>3, <2>2, <2>4 DEF Grown
    <3>4. QED
      BY <1>1, <3>1, <3>2, <3>3
  <2>6. QED
    BY <1>1, <2>1, <2>2, <2>3, <2>4, <2>5 DEF Grown, t
<1>3. CASE UpdateRow(c)
  <2> DEFINE new == Merged(found[c].data, req[c].body)
  <2>1. new \in Data
    BY <1>1, <1>3, RequestFields, MergedData DEF UpdateRow, NoRequest
  <2> HIDE DEF new
  <2>2. /\ nextRow' = nextRow
        /\ live' = [r \in DOMAIN live |->
                      IF r = found[c].id
                        THEN [ds |-> live[r].ds, data |-> new, tag |-> 0]
                        ELSE live[r]]
    BY <1>3 DEF UpdateRow, new
  <2>3. \A r \in DOMAIN live' : /\ r \in DOMAIN live
                                /\ live'[r] \in Row
                                /\ live'[r].ds = live[r].ds
                                /\ live'[r].tag = 0 \/ live'[r].tag = live[r].tag
    BY <1>1, <2>1, <2>2 DEF Row
  <2>4. \A r \in DOMAIN live : Touched(r) => r = found[c].id
    BY <2>2 DEF Touched
  <2>5. QED
    BY <1>1, <2>2, <2>3, <2>4
<1>4. CASE DeleteRow(c)
  <2>1. /\ nextRow' = nextRow
        /\ live' = [r \in DOMAIN live \ {found[c].id} |-> live[r]]
    BY <1>4 DEF DeleteRow, Keeping
  <2>2. \A r \in DOMAIN live : Touched(r) => r = found[c].id
    BY <2>1 DEF Touched
  <2>3. QED
    BY <1>1, <2>1, <2>2
<1>5. QED
  BY <1>2, <1>3, <1>4 DEF ToolWrite

(* The rows that an admin request inserts.                                  *)
LEMMA SentRows ==
  ASSUME TypeOK, NEW q \in Requests, q.kind \in {"replace", "add"} \/ q.kind \in EditedKinds
  PROVE  /\ Sent(q) \in Seq(Item)
         /\ q.kind \notin EditedKinds => \A i \in 1 .. Len(Sent(q)) : Sent(q)[i].tag = 0
<1>1. CASE q.kind \in EditedKinds
  BY <1>1 DEF Sent, TypeOK
<1>2. CASE q.kind \notin EditedKinds
  <2>1. Sent(q) = q.rows /\ q.rows \in Seq([data : Data, tag : {0}])
    BY <1>2, RequestFields DEF Sent
  <2>2. /\ Len(q.rows) \in Nat
        /\ \A i \in 1 .. Len(q.rows) : q.rows[i] \in [data : Data, tag : {0}]
        /\ q.rows = [i \in 1 .. Len(q.rows) |-> q.rows[i]]
    BY <2>1, ElementOfSeq, LenProperties
  <2>3. \A i \in 1 .. Len(q.rows) : q.rows[i] \in Item /\ q.rows[i].tag = 0
    BY <2>2 DEF Item
  <2>4. q.rows \in Seq(Item)
    BY <2>2, <2>3
  <2>5. QED
    BY <2>1, <2>3, <2>4
<1>3. QED
  BY <1>1, <1>2

(* The tables after a step, and what they keep of those before it.          *)
RowsAfter ==
  /\ nextRow' \in Nat \ {0} /\ nextRow' >= nextRow
  /\ DOMAIN live' \subseteq 1 .. nextRow' - 1
  /\ \A r \in DOMAIN live' : live'[r] \in Row
  /\ \A r \in DOMAIN live' : r < nextRow => r \in DOMAIN live /\ live'[r] = live[r]
  /\ Echo \/ \A r \in DOMAIN live' : live'[r].tag = 0

LEMMA GrownRows ==
  ASSUME TypeOK, Untagged, NEW rows, Kept(rows), NEW items \in Seq(Item),
         Grown(live', rows, items),
         nextRow' = nextRow + Len(items),
         Echo \/ \A i \in 1 .. Len(items) : items[i].tag = 0
  PROVE  RowsAfter
<1>1. nextRow \in Nat \ {0} /\ Len(items) \in Nat /\ nextRow' \in Nat \ {0} /\ nextRow' >= nextRow
  BY LenProperties DEF TypeOK
<1>2. DOMAIN live' \subseteq 1 .. nextRow' - 1 /\ \A r \in DOMAIN live' : live'[r] \in Row
  <2>1. nextRow' - 1 = nextRow + Len(items) - 1
    BY <1>1
  <2>2. QED
    BY <2>1 DEF Grown
<1>3. \A r \in DOMAIN live' : r < nextRow => r \in DOMAIN live /\ live'[r] = live[r]
  BY DEF Grown, Kept
<1>4. Echo \/ \A r \in DOMAIN live' : live'[r].tag = 0
  <2> SUFFICES ASSUME ~Echo, NEW r \in DOMAIN live'
               PROVE  live'[r].tag = 0
    OBVIOUS
  <2>1. r \in Nat
    BY <1>1, <1>2
  <2>2. CASE r < nextRow
    BY <2>2, <1>3 DEF Untagged
  <2>3. CASE r >= nextRow
    BY <2>3 DEF Grown
  <2>4. QED
    BY <1>1, <2>1, <2>2, <2>3
<1>5. QED
  BY <1>1, <1>2, <1>3, <1>4 DEF RowsAfter

LEMMA ShrunkRows ==
  ASSUME TypeOK, Untagged, NEW S, live' = Keeping(DOMAIN live \ S), nextRow' = nextRow
  PROVE  RowsAfter
<1>1. /\ DOMAIN live' = DOMAIN live \ S
      /\ \A r \in DOMAIN live' : live'[r] = live[r]
  BY DEF Keeping
<1>2. /\ nextRow' \in Nat \ {0} /\ nextRow' >= nextRow
      /\ DOMAIN live' \subseteq 1 .. nextRow' - 1
      /\ \A r \in DOMAIN live' : live'[r] \in Row
  <2>1. /\ nextRow \in Nat \ {0}
        /\ DOMAIN live \subseteq 1 .. nextRow - 1
        /\ \A r \in DOMAIN live : live[r] \in Row
    BY DEF TypeOK
  <2>2. nextRow' \in Nat \ {0} /\ nextRow' >= nextRow
    BY <2>1
  <2>3. DOMAIN live' \subseteq 1 .. nextRow' - 1
    BY <1>1, <2>1
  <2>4. QED
    BY <1>1, <2>1, <2>2, <2>3
<1>3. Echo \/ \A r \in DOMAIN live' : live'[r].tag = 0
  BY <1>1 DEF Untagged
<1>4. QED
  BY <1>1, <1>2, <1>3 DEF RowsAfter

(* The seed rows after a step.                                              *)
SeedAfter ==
  /\ seed' \in [Datasets -> Seq(Item)]
  /\ Echo \/ \A d \in Datasets : \A i \in 1 .. Len(seed'[d]) : seed'[d][i].tag = 0

LEMMA AdminWriteTables ==
  ASSUME TypeOK, Untagged, NEW c \in Clients, AdminWrite(c)
  PROVE  RowsAfter /\ SeedAfter /\ alive' \subseteq Datasets
<1> DEFINE q == req[c]
           rest == Keeping(DOMAIN live \ RowsOf(q.ds))
<1>1. q \in Requests /\ q.ds \in Datasets
  <2>1. q # NoRequest
    BY DEF AdminWrite, ReplaceRows, AddRows, ResetToSeed, SaveAsSeed, DropDataset, NoRequest
  <2>2. QED
    BY <2>1, RequestFields DEF TypeOK
<1>2. Kept(rest) /\ Kept(live)
  BY DEF Kept, Keeping
<1>3. ASSUME UNCHANGED seed
      PROVE  SeedAfter
  BY <1>3 DEF TypeOK, Untagged, SeedAfter
<1>4. Echo \/ q.kind \notin EditedKinds
  BY DEF Untagged
<1> HIDE DEF q, rest
<1>5. CASE ReplaceRows(q)
  <2>1. /\ q.kind \in {"replace"} \/ q.kind \in EditedKinds
        /\ live' = Inserted(rest, q.ds, Sent(q))
        /\ nextRow' = nextRow + Len(Sent(q))
        /\ UNCHANGED <<alive, seed>>
    BY <1>5 DEF ReplaceRows, EditedKinds, rest
  <2>2. Sent(q) \in Seq(Item) /\ (Echo \/ \A i \in 1 .. Len(Sent(q)) : Sent(q)[i].tag = 0)
    BY <1>1, <1>4, <2>1, SentRows
  <2>3. Grown(live', rest, Sent(q))
    BY <1>1, <1>2, <2>1, <2>2, InsertedRows
  <2>4. RowsAfter
    BY <1>2, <2>1, <2>2, <2>3, GrownRows
  <2>5. QED
    BY <1>3, <2>1, <2>4 DEF TypeOK
<1>6. CASE AddRows(q)
  <2>1. /\ q.kind \in {"add"} \/ q.kind \in EditedKinds
        /\ live' = Inserted(live, q.ds, Sent(q))
        /\ nextRow' = nextRow + Len(Sent(q))
        /\ UNCHANGED <<alive, seed>>
    BY <1>6 DEF AddRows, EditedKinds
  <2>2. Sent(q) \in Seq(Item) /\ (Echo \/ \A i \in 1 .. Len(Sent(q)) : Sent(q)[i].tag = 0)
    BY <1>1, <1>4, <2>1, SentRows
  <2>3. Grown(live', live, Sent(q))
    BY <1>1, <1>2, <2>1, <2>2, InsertedRows
  <2>4. RowsAfter
    BY <1>2, <2>1, <2>2, <2>3, GrownRows
  <2>5. QED
    BY <1>3, <2>1, <2>4 DEF TypeOK
<1>7. CASE ResetToSeed(q)
  <2>1. /\ live' = Inserted(rest, q.ds, seed[q.ds])
        /\ nextRow' = nextRow + Len(seed[q.ds])
        /\ UNCHANGED <<alive, seed>>
    BY <1>7 DEF ResetToSeed, rest
  <2>2. /\ seed[q.ds] \in Seq(Item)
        /\ Echo \/ \A i \in 1 .. Len(seed[q.ds]) : seed[q.ds][i].tag = 0
    BY <1>1 DEF TypeOK, Untagged
  <2>3. Grown(live', rest, seed[q.ds])
    BY <1>1, <1>2, <2>1, <2>2, InsertedRows
  <2>4. RowsAfter
    BY <1>2, <2>1, <2>2, <2>3, GrownRows
  <2>5. QED
    BY <1>3, <2>1, <2>4 DEF TypeOK
<1>8. CASE SaveAsSeed(q)
  <2>1. PICK rows \in InOrder(q.ds) : seed' = [seed EXCEPT ![q.ds] = Copy(rows)]
    BY <1>8 DEF SaveAsSeed
  <2>2. UNCHANGED <<alive, live, nextRow>>
    BY <1>8 DEF SaveAsSeed
  <2>3. /\ Copy(rows) \in Seq(Item)
        /\ \A i \in 1 .. Len(Copy(rows)) : \E r \in DOMAIN live : Copy(rows)[i].tag = live[r].tag
    BY OrderedRows
  <2>4. Echo \/ \A i \in 1 .. Len(Copy(rows)) : Copy(rows)[i].tag = 0
    BY <2>3 DEF Untagged
  <2>5. SeedAfter
    BY <2>1, <2>3, <2>4 DEF TypeOK, Untagged, SeedAfter
  <2>6. RowsAfter
    BY <2>2 DEF TypeOK, Untagged, RowsAfter
  <2>7. QED
    BY <2>2, <2>5, <2>6 DEF TypeOK
<1>9. CASE DropDataset(q)
  <2>1. /\ alive' \subseteq alive
        /\ live' = rest
        /\ seed' = [seed EXCEPT ![q.ds] = <<>>]
        /\ nextRow' = nextRow
    BY <1>9 DEF DropDataset, rest
  <2>2. RowsAfter
    BY <2>1, ShrunkRows DEF rest
  <2>3. SeedAfter
    <3>1. seed' \in [Datasets -> Seq(Item)]
      <4>1. <<>> \in Seq(Item) /\ seed \in [Datasets -> Seq(Item)]
        BY EmptySeq DEF TypeOK
      <4>2. QED
        BY <2>1, <4>1
    <3>2. \A d \in Datasets : seed'[d] = <<>> \/ seed'[d] = seed[d]
      BY <2>1 DEF TypeOK
    <3>3. Len(<<>>) = 0
      OBVIOUS
    <3>4. Echo \/ \A d \in Datasets : \A i \in 1 .. Len(seed'[d]) : seed'[d][i].tag = 0
      BY <3>2, <3>3 DEF Untagged
    <3>5. QED
      BY <3>1, <3>4 DEF SeedAfter
  <2>4. QED
    BY <2>1, <2>2, <2>3 DEF TypeOK
<1>10. QED
  BY <1>5, <1>6, <1>7, <1>8, <1>9 DEF AdminWrite, q

-------------------------------------------------------------------------------
(* The types, for every action.                                             *)

LEMMA ToolWriteTypes ==
  ASSUME TypeOK, NEW c \in Clients, ToolWrite(c)
  PROVE  TypeOK'
<1>1. /\ nextRow' \in Nat /\ nextRow' >= nextRow
      /\ DOMAIN live' \subseteq 1 .. nextRow' - 1
      /\ \A r \in DOMAIN live' : live'[r] \in Row
  BY ToolWriteRows
<1>2. nextRow' \in Nat \ {0}
  BY <1>1 DEF TypeOK
<1>3. /\ step' \in [Clients -> {"idle", "find", "check", "write", "log", "confirm"}]
      /\ effect' \in [Clients -> {"none", "missed", "written"}]
      /\ UNCHANGED <<alive, seed, edited, req, found, status, log, answer>>
  BY DEF TypeOK, ToolWrite, Goto, Done
<1>4. QED
  BY <1>1, <1>2, <1>3 DEF TypeOK

LEMMA AdminWriteTypes ==
  ASSUME TypeOK, Untagged, NEW c \in Clients, AdminWrite(c)
  PROVE  TypeOK'
<1>1. RowsAfter /\ SeedAfter /\ alive' \subseteq Datasets
  BY AdminWriteTables
<1>2. /\ step' \in [Clients -> {"idle", "find", "check", "write", "log", "confirm"}]
      /\ UNCHANGED <<edited, req, found, status, effect, log, answer>>
  BY DEF TypeOK, AdminWrite, Goto
<1>3. QED
  BY <1>1, <1>2 DEF TypeOK, RowsAfter, SeedAfter

LEMMA LoadEditorTypes ==
  ASSUME TypeOK, NEW d \in Datasets, LoadEditor(d)
  PROVE  TypeOK'
<1>1. PICK rows \in InOrder(d) : edited' = Listing(rows)
  BY DEF LoadEditor
<1>2. edited' \in Seq(Item)
  BY <1>1, OrderedRows
<1>3. UNCHANGED <<tables, handlers>>
  BY DEF LoadEditor
<1>4. QED
  BY <1>2, <1>3 DEF TypeOK, tables, handlers

LEMMA TypeStep ==
  ASSUME TypeOK, Untagged, [Next]_vars
  PROVE  TypeOK'
<1>1. CASE \E c \in Clients, q \in Requests : Arrive(c, q)
  BY <1>1, ArriveTypes
<1>2. CASE \E c \in Clients : Tool(c)
  <2> PICK c \in Clients : Tool(c)
    BY <1>2
  <2>1. CASE PrepareCreate(c)
    BY <2>1, PrepareCreateTypes
  <2>2. CASE Find(c)
    BY <2>2, FindTypes
  <2>3. CASE ToolWrite(c)
    BY <2>3, ToolWriteTypes
  <2>4. CASE List(c) \/ ReadFails(c) \/ CheckFields(c) \/ ToolWriteFails(c) \/ LogCall(c) \/ LogFails(c)
    BY <2>4, HandlerTypes
  <2>5. QED
    BY <2>1, <2>2, <2>3, <2>4 DEF Tool
<1>3. CASE \E c \in Clients : Admin(c)
  <2> PICK c \in Clients : Admin(c)
    BY <1>3
  <2>1. CASE AdminWrite(c)
    BY <2>1, AdminWriteTypes
  <2>2. CASE AdminWriteFails(c) \/ Confirm(c)
    BY <2>2, HandlerTypes
  <2>3. QED
    BY <2>1, <2>2 DEF Admin
<1>4. CASE \E d \in Datasets : LoadEditor(d)
  BY <1>4, LoadEditorTypes
<1>5. CASE Crash
  BY <1>5 DEF TypeOK, Crash, NothingFound, Found, Data, tables
<1>6. CASE UNCHANGED vars
  BY <1>6 DEF TypeOK, vars, tables, handlers
<1>7. QED
  BY <1>1, <1>2, <1>3, <1>4, <1>5, <1>6 DEF Next

-------------------------------------------------------------------------------
(* Row ids.                                                                 *)

(* No step gives an id that was handed out before to another row.           *)
LEMMA RowIdStep ==
  ASSUME TypeOK, Untagged, [Next]_vars
  PROVE  /\ nextRow' \in Nat /\ nextRow' >= nextRow
         /\ \A r \in DOMAIN live' : r < nextRow => r \in DOMAIN live /\ live'[r].ds = live[r].ds
<1>1. CASE UNCHANGED <<live, nextRow>>
  BY <1>1 DEF TypeOK
<1>2. CASE \E c \in Clients : ToolWrite(c)
  BY <1>2, ToolWriteRows
<1>3. CASE \E c \in Clients : AdminWrite(c)
  BY <1>3, AdminWriteTables DEF RowsAfter
<1>4. QED
  <2>1. \/ UNCHANGED tables
        \/ \E c \in Clients : ToolWrite(c)
        \/ \E c \in Clients : AdminWrite(c)
    BY DEF Next, vars, Tool, Admin, Arrive, List, ReadFails, PrepareCreate, Find, CheckFields,
           ToolWriteFails, LogCall, LogFails, AdminWriteFails, Confirm, LoadEditor, Crash
  <2>2. QED
    BY <1>1, <1>2, <1>3, <2>1 DEF tables

LEMMA FoundInPlaceStep ==
  ASSUME TypeOK, Untagged, FoundInPlace, [Next]_vars
  PROVE  FoundInPlace'
<1>1. /\ nextRow \in Nat /\ nextRow' \in Nat /\ nextRow' >= nextRow
      /\ \A r \in DOMAIN live' : r < nextRow => r \in DOMAIN live /\ live'[r].ds = live[r].ds
  BY RowIdStep DEF TypeOK
<1> SUFFICES ASSUME NEW c \in Clients,
                    step'[c] \in {"check", "write"}, req'[c].kind \in {"update", "delete"}
             PROVE  /\ found'[c].row \in 1 .. nextRow' - 1
                    /\ found'[c].row \in DOMAIN live' => live'[found'[c].row].ds = req'[c].ds
                    /\ Echo \/ found'[c].id = found'[c].row
  BY DEF FoundInPlace
<1>2. CASE /\ step[c] \in {"check", "write"} /\ req'[c] = req[c] /\ found'[c] = found[c]
  <2>1. /\ found[c].row \in 1 .. nextRow - 1
        /\ found[c].row \in DOMAIN live => live[found[c].row].ds = req[c].ds
        /\ Echo \/ found[c].id = found[c].row
    BY <1>2 DEF FoundInPlace
  <2>2. found[c].row \in Nat /\ found[c].row < nextRow
    BY <1>1, <2>1
  <2>3. QED
    BY <1>1, <1>2, <2>1, <2>2
<1>3. CASE Find(c)
  <2>1. PICK r \in Matching(req[c].ds, req[c].key) :
          found' = [found EXCEPT ![c] = [row |-> r, id |-> ShownId(r), data |-> live[r].data]]
    BY <1>3 DEF Find, FailCall, Goto, TypeOK
  <2>2. UNCHANGED <<live, nextRow, req>>
    BY <1>3 DEF Find, tables
  <2>3. r \in DOMAIN live /\ live[r].ds = req[c].ds
    BY DEF Matching, RowsOf
  <2>4. r \in 1 .. nextRow - 1
    BY <2>3 DEF TypeOK
  <2>5. found'[c].row = r /\ found'[c].id = ShownId(r)
    BY <2>1 DEF TypeOK
  <2>6. Echo \/ ShownId(r) = r
    BY <2>3 DEF Untagged, ShownId
  <2>7. QED
    BY <2>2, <2>3, <2>4, <2>5, <2>6
<1>4. QED
  <2>1. CASE \E b \in Clients, q \in Requests : Arrive(b, q)
    <3> PICK b \in Clients, q \in Requests : Arrive(b, q)
      BY <2>1
    <3>1. CASE b = c
      BY <3>1 DEF Arrive, Goto, TypeOK, ToolKinds
    <3>2. CASE b # c
      BY <3>2, <1>2 DEF Arrive, Goto, TypeOK
    <3>3. QED
      BY <3>1, <3>2
  <2>2. CASE \E b \in Clients : Tool(b) \/ Admin(b)
    <3> PICK b \in Clients : Tool(b) \/ Admin(b)
      BY <2>2
    <3>1. CASE b # c
      <4>1. step'[c] = step[c] /\ req'[c] = req[c] /\ found'[c] = found[c]
        BY <3>1 DEF TypeOK, Tool, Admin, List, ReadFails, PrepareCreate, Find, CheckFields, ToolWrite,
              ToolWriteFails, LogCall, LogFails, AdminWrite, AdminWriteFails, Confirm, Goto,
              Return, FailCall
      <4>2. QED
        BY <4>1, <1>2
    <3>2. CASE b = c
      <4>1. Find(c) \/ CheckFields(c)
        BY <3>2 DEF TypeOK, Tool, Admin, List, ReadFails, PrepareCreate, ToolWrite,
              ToolWriteFails, LogCall, LogFails, AdminWrite, AdminWriteFails, Confirm, Goto,
              Return, FailCall
      <4>2. CASE CheckFields(c)
        BY <4>2, <1>2 DEF CheckFields
      <4>3. QED
        BY <4>1, <4>2, <1>3
    <3>3. QED
      BY <3>1, <3>2
  <2>3. CASE \E d \in Datasets : LoadEditor(d)
    BY <2>3, <1>2 DEF LoadEditor, handlers
  <2>4. CASE Crash
    BY <2>4 DEF Crash
  <2>5. CASE UNCHANGED vars
    BY <2>5, <1>2 DEF vars, handlers
  <2>6. QED
    BY <2>1, <2>2, <2>3, <2>4, <2>5 DEF Next

LEMMA UntaggedStep ==
  ASSUME TypeOK, Untagged, [Next]_vars
  PROVE  Untagged'
<1> SUFFICES ASSUME ~Echo
             PROVE  /\ \A r \in DOMAIN live' : live'[r].tag = 0
                    /\ \A d \in Datasets : \A i \in 1 .. Len(seed'[d]) : seed'[d][i].tag = 0
                    /\ \A c \in Clients : req'[c].kind \notin EditedKinds
  BY DEF Untagged
<1>1. \A c \in Clients : req'[c].kind \notin EditedKinds
  <2>1. CASE \E b \in Clients, q \in Requests : Arrive(b, q)
    <3> PICK b \in Clients, q \in Requests : Arrive(b, q)
      BY <2>1
    <3>1. q.kind \notin EditedKinds /\ req' = [req EXCEPT ![b] = q]
      BY DEF Arrive
    <3>2. QED
      BY <3>1 DEF Untagged, TypeOK
  <2>2. CASE UNCHANGED req
    BY <2>2 DEF Untagged
  <2>3. QED
    BY <2>1, <2>2 DEF Next, vars, handlers, Tool, Admin, List, ReadFails, PrepareCreate, Find, CheckFields,
          ToolWrite, ToolWriteFails, LogCall, LogFails, AdminWrite, AdminWriteFails, Confirm,
          LoadEditor, Crash
<1>2. CASE UNCHANGED <<live, seed>>
  BY <1>1, <1>2 DEF Untagged
<1>3. CASE \E c \in Clients : ToolWrite(c)
  <2>1. UNCHANGED seed
    BY <1>3 DEF ToolWrite
  <2>2. \A r \in DOMAIN live' : live'[r].tag = 0 \/ (r \in DOMAIN live /\ live'[r].tag = live[r].tag)
    BY <1>3, ToolWriteRows
  <2>3. QED
    BY <1>1, <2>1, <2>2 DEF Untagged
<1>4. CASE \E c \in Clients : AdminWrite(c)
  BY <1>1, <1>4, AdminWriteTables DEF RowsAfter, SeedAfter
<1>5. QED
  <2>1. \/ UNCHANGED tables
        \/ \E c \in Clients : ToolWrite(c)
        \/ \E c \in Clients : AdminWrite(c)
    BY DEF Next, vars, Tool, Admin, Arrive, List, ReadFails, PrepareCreate, Find, CheckFields,
           ToolWriteFails, LogCall, LogFails, AdminWriteFails, Confirm, LoadEditor, Crash
  <2>2. QED
    BY <1>2, <1>3, <1>4, <2>1 DEF tables

-------------------------------------------------------------------------------
(* The call log.                                                            *)

(* What LogPending and LogTellsTheTruth say of the call of one client, and  *)
(* apart from them what an UPDATE or a DELETE that matched no row has missed.*)
PendingOf(c) ==
  IsTool(c) /\ step[c] # "idle" =>
    /\ step[c] \in {"find", "check", "write", "log"}
    /\ log[c] = <<>>
    /\ answer[c] = "none"
    /\ step[c] # "log" => effect[c] = "none" /\ status[c] = "ok"
    /\ step[c] = "log" => IF status[c] = "ok" THEN effect[c] # "none" \/ req[c].kind = "list"
                                              ELSE effect[c] = "none"

TruthOf(c) ==
  IsTool(c) =>
    /\ Len(log[c]) <= 1
    /\ log[c] = <<"ok">> => effect[c] # "none" \/ req[c].kind = "list"
    /\ Len(log[c]) = 1 /\ log[c][1] # "ok" => effect[c] = "none"
    /\ answer[c] = "ok" => log[c] = <<"ok">>
    /\ effect[c] = "missed" => req[c].kind \in {"update", "delete"}

MissedOf(c) ==
  IsTool(c) /\ effect[c] = "missed" /\ step[c] = "log" => Echo \/ RowGone(c)

(* A step of another client, or of none, changes nothing of this.           *)
LEMMA LogFrame ==
  ASSUME NEW c \in Clients, PendingOf(c), TruthOf(c),
         \/ step'[c] = step[c]
         \/ step'[c] = "idle",
         req'[c] = req[c], status'[c] = status[c], effect'[c] = effect[c],
         log'[c] = log[c], answer'[c] = answer[c]
  PROVE  PendingOf(c)' /\ TruthOf(c)'
BY DEF PendingOf, TruthOf, IsTool

(* The request that arrives has left nothing in the log yet.                *)
LEMMA LogArrive ==
  ASSUME TypeOK, NEW c \in Clients, NEW q \in Requests, Arrive(c, q)
  PROVE  PendingOf(c)' /\ TruthOf(c)'
<1>1. /\ req'[c] = q /\ effect'[c] = "none" /\ log'[c] = <<>>
      /\ Len(<<>>) = 0 /\ <<>> # <<"ok">>
  BY DEF Arrive, TypeOK
<1>2. q.kind \in ToolKinds =>
        /\ answer'[c] = "none"
        /\ \/ step'[c] = "find" /\ status'[c] = "ok"
           \/ step'[c] = "log" /\ status'[c] = "error"
  BY DEF Arrive, TypeOK, Goto
<1>3. QED
  BY <1>1, <1>2 DEF PendingOf, TruthOf, IsTool

(* A step of the call itself.                                               *)
LEMMA LogOwnStep ==
  ASSUME TypeOK, NEW c \in Clients, PendingOf(c), TruthOf(c), Tool(c) \/ Admin(c)
  PROVE  PendingOf(c)' /\ TruthOf(c)'
<1>1. Len(<<>>) = 0 /\ <<>> # <<"ok">>
  OBVIOUS
<1>2. UNCHANGED req /\ (IsTool(c)' <=> IsTool(c))
  BY DEF Tool, Admin, List, ReadFails, PrepareCreate, Find, CheckFields, ToolWrite, ToolWriteFails, LogCall,
         LogFails, AdminWrite, AdminWriteFails, Confirm, IsTool
<1>3. CASE ~IsTool(c)
  BY <1>2, <1>3 DEF PendingOf, TruthOf
<1>4. CASE IsTool(c) /\ Admin(c)
  <2>1. FALSE
    BY <1>4 DEF Admin, AdminWrite, AdminWriteFails, Confirm, ReplaceRows, AddRows, ResetToSeed,
          SaveAsSeed, DropDataset, IsTool, ToolKinds, PendingOf
  <2>2. QED
    BY <2>1
<1>5. CASE IsTool(c) /\ (List(c) \/ ReadFails(c) \/ PrepareCreate(c) \/ Find(c) \/ CheckFields(c))
  <2>1. /\ UNCHANGED <<effect, log, answer>>
        /\ \/ step'[c] \in {"check", "write"} /\ status'[c] = status[c]
           \/ step'[c] = "log" /\ status'[c] = "error"
           \/ step'[c] = "log" /\ status'[c] = status[c] /\ req[c].kind = "list"
        /\ step[c] \in {"find", "check"}
    BY <1>5 DEF List, ReadFails, PrepareCreate, Find, CheckFields, FailCall, Goto, TypeOK
  <2>2. QED
    BY <1>1, <1>2, <1>5, <2>1 DEF PendingOf, TruthOf, IsTool
<1>6. CASE IsTool(c) /\ ToolWrite(c)
  <2>1. /\ UNCHANGED <<status, log, answer>>
        /\ step[c] = "write" /\ step'[c] = "log" /\ effect'[c] = Done(c)
        /\ req[c].kind \in {"create", "update", "delete"}
    BY <1>6 DEF ToolWrite, InsertRow, UpdateRow, DeleteRow, Goto, TypeOK
  <2>2. /\ effect'[c] \in {"missed", "written"}
        /\ effect'[c] = "missed" => req[c].kind \in {"update", "delete"}
    BY <2>1 DEF Done
  <2>3. QED
    BY <1>1, <1>2, <1>6, <2>1, <2>2 DEF PendingOf, TruthOf, IsTool
<1>7. CASE IsTool(c) /\ ToolWriteFails(c)
  <2>1. /\ UNCHANGED <<effect, log, answer>>
        /\ step[c] = "write" /\ step'[c] = "log" /\ status'[c] = "error"
    BY <1>7 DEF ToolWriteFails, FailCall, Goto, TypeOK
  <2>2. QED
    BY <1>1, <1>2, <1>7, <2>1 DEF PendingOf, TruthOf, IsTool
<1>8. CASE IsTool(c) /\ LogCall(c)
  <2>1. /\ UNCHANGED <<status, effect>>
        /\ step[c] = "log" /\ step'[c] = "idle"
        /\ log'[c] = Append(log[c], status[c])
        /\ answer'[c] = IF status[c] = "ok" THEN "ok" ELSE "error"
    BY <1>8 DEF LogCall, Return, Goto, TypeOK
  <2>2. log'[c] = <<status[c]>>
    <3>1. log[c] = <<>>
      BY <1>8, <2>1 DEF PendingOf
    <3>2. Append(<<>>, status[c]) = <<status[c]>>
      OBVIOUS
    <3>3. QED
      BY <2>1, <3>1, <3>2
  <2>3. Len(<<status[c]>>) = 1 /\ <<status[c]>>[1] = status[c]
    OBVIOUS
  <2>4. status[c] = "ok" => effect[c] # "none" \/ req[c].kind = "list"
    BY <1>8, <2>1 DEF PendingOf
  <2>5. status[c] # "ok" => effect[c] = "none" /\ <<status[c]>> # <<"ok">> /\ answer'[c] = "error"
    BY <1>8, <2>1 DEF PendingOf
  <2>6. QED
    BY <1>2, <2>1, <2>2, <2>3, <2>4, <2>5 DEF PendingOf, TruthOf
<1>9. CASE IsTool(c) /\ LogFails(c)
  <2>1. /\ UNCHANGED <<status, effect, log>>
        /\ step'[c] = "idle" /\ answer'[c] = "error"
    BY <1>9 DEF LogFails, Return, Goto, TypeOK
  <2>2. QED
    BY <1>2, <2>1 DEF PendingOf, TruthOf
<1>10. QED
  BY <1>3, <1>4, <1>5, <1>6, <1>7, <1>8, <1>9 DEF Tool

(* A row that was missed is gone, and ids do not come back (RowIdStep).     *)
LEMMA MissedStep ==
  ASSUME TypeOK, FoundInPlace, Untagged, NEW c \in Clients, PendingOf(c), MissedOf(c), [Next]_vars
  PROVE  MissedOf(c)'
<1> SUFFICES ASSUME IsTool(c)', effect'[c] = "missed", step'[c] = "log", ~Echo
             PROVE  RowGone(c)'
  BY DEF MissedOf
<1>1. /\ nextRow \in Nat /\ nextRow' \in Nat /\ nextRow' >= nextRow
      /\ \A r \in DOMAIN live' : r < nextRow => r \in DOMAIN live
  BY RowIdStep DEF TypeOK
<1>2. ASSUME found'[c] = found[c], RowGone(c)
      PROVE  RowGone(c)'
  <2>1. found[c].row \in 1 .. nextRow - 1 /\ found[c].row \notin DOMAIN live
    BY <1>2 DEF RowGone
  <2>2. found[c].row \in 1 .. nextRow' - 1 /\ found[c].row < nextRow
    BY <1>1, <2>1
  <2>3. QED
    BY <1>1, <1>2, <2>1, <2>2 DEF RowGone
<1>3. CASE step'[c] = step[c] /\ effect'[c] = effect[c] /\ found'[c] = found[c] /\ req'[c] = req[c]
  BY <1>2, <1>3 DEF MissedOf, IsTool
<1>4. CASE ToolWrite(c)
  <2>1. /\ found' = found /\ effect'[c] = Done(c) /\ req' = req /\ step[c] = "write"
    BY <1>4 DEF ToolWrite, TypeOK
  <2>2. req[c].kind # "create" /\ found[c].id \notin DOMAIN live
    BY <2>1 DEF Done
  <2>3. req[c].kind \in {"update", "delete"}
    BY <1>4, <2>2 DEF ToolWrite, InsertRow, UpdateRow, DeleteRow
  <2>4. found[c].row \in 1 .. nextRow - 1 /\ found[c].id = found[c].row
    BY <2>1, <2>3 DEF FoundInPlace
  <2>5. QED
    BY <1>2, <2>1, <2>2, <2>4 DEF RowGone
<1>5. CASE ~ToolWrite(c)
  <2>1. CASE \E q \in Requests : Arrive(c, q)
    BY <2>1 DEF Arrive, TypeOK
  <2>2. CASE \E b \in Clients \ {c} : Tool(b) \/ Admin(b) \/ \E q \in Requests : Arrive(b, q)
    <3>1. step'[c] = step[c] /\ effect'[c] = effect[c] /\ found'[c] = found[c] /\ req'[c] = req[c]
      BY <2>2 DEF TypeOK, Tool, Admin, Arrive, List, ReadFails, PrepareCreate, Find, CheckFields, ToolWrite,
            ToolWriteFails, LogCall, LogFails, AdminWrite, AdminWriteFails, Confirm, Goto,
            Return, FailCall
    <3>2. QED
      BY <3>1, <1>3
  <2>3. CASE Tool(c) \/ Admin(c)
    <3>1. UNCHANGED <<effect, req>> /\ IsTool(c)
      BY <1>5, <2>3 DEF Tool, Admin, List, ReadFails, PrepareCreate, Find, CheckFields,
            ToolWriteFails, LogCall, LogFails, AdminWrite, AdminWriteFails, Confirm, IsTool
    <3>2. step[c] \in {"find", "check", "write"} => effect[c] = "none"
      BY <3>1 DEF PendingOf
    <3>3. step'[c] # "log" \/ step[c] \in {"find", "check", "write"}
      BY <1>5, <2>3 DEF TypeOK, Tool, Admin, List, ReadFails, PrepareCreate, Find, CheckFields,
            ToolWriteFails, LogCall, LogFails, AdminWrite, AdminWriteFails, Confirm, Goto,
            Return, FailCall
    <3>4. QED
      BY <3>1, <3>2, <3>3
  <2>4. CASE Crash
    BY <2>4 DEF Crash
  <2>5. CASE UNCHANGED handlers
    BY <2>5, <1>3 DEF handlers
  <2>6. QED
    BY <2>1, <2>2, <2>3, <2>4, <2>5 DEF Next, LoadEditor, vars
<1>6. QED
  BY <1>4, <1>5

LEMMA LogStep ==
  ASSUME TypeOK, FoundInPlace, Untagged, LogPending, LogTellsTheTruth, [Next]_vars
  PROVE  LogPending' /\ LogTellsTheTruth'
<1> SUFFICES ASSUME NEW c \in Clients
             PROVE  PendingOf(c)' /\ TruthOf(c)' /\ MissedOf(c)'
  BY DEF LogPending, LogTellsTheTruth, PendingOf, TruthOf, MissedOf
<1>1. PendingOf(c) /\ TruthOf(c) /\ MissedOf(c)
  BY DEF LogPending, LogTellsTheTruth, PendingOf, TruthOf, MissedOf
<1>7. MissedOf(c)'
  BY <1>1, MissedStep
<1>2. CASE \E b \in Clients, q \in Requests : Arrive(b, q)
  <2> PICK b \in Clients, q \in Requests : Arrive(b, q)
    BY <1>2
  <2>1. CASE b = c
    BY <1>7, <2>1, LogArrive
  <2>2. CASE b # c
    BY <1>7, <2>2, <1>1, LogFrame DEF Arrive, Goto, TypeOK
  <2>3. QED
    BY <2>1, <2>2
<1>3. CASE \E b \in Clients : Tool(b) \/ Admin(b)
  <2> PICK b \in Clients : Tool(b) \/ Admin(b)
    BY <1>3
  <2>1. CASE b = c
    BY <1>7, <2>1, <1>1, LogOwnStep
  <2>2. CASE b # c
    <3>1. /\ step'[c] = step[c] /\ req'[c] = req[c] /\ status'[c] = status[c]
          /\ effect'[c] = effect[c] /\ log'[c] = log[c] /\ answer'[c] = answer[c]
      BY <2>2 DEF TypeOK, Tool, Admin, List, ReadFails, PrepareCreate, Find, CheckFields, ToolWrite,
            ToolWriteFails, LogCall, LogFails, AdminWrite, AdminWriteFails, Confirm, Goto,
            Return, FailCall
    <3>2. QED
      BY <1>7, <3>1, <1>1, LogFrame
  <2>3. QED
    BY <2>1, <2>2
<1>4. CASE Crash
  BY <1>7, <1>4, <1>1, LogFrame DEF Crash
<1>5. CASE UNCHANGED handlers
  BY <1>7, <1>5, <1>1, LogFrame DEF handlers
<1>6. QED
  BY <1>2, <1>3, <1>4, <1>5 DEF Next, LoadEditor, vars

-------------------------------------------------------------------------------
(* The theorems.                                                            *)

LEMMA InitIInv == Init => IInv
<1> SUFFICES ASSUME Init
             PROVE  IInv
  OBVIOUS
<1>1. TypeOK
  <2>1. \A r \in 1 .. InitialRows : InitialLive[r] \in Row
    BY LiveDataAssumption DEF Row
  <2>2. /\ live = InitialLive /\ DOMAIN live = 1 .. InitialRows
        /\ nextRow = InitialRows + 1 /\ InitialRows \in Nat
    BY LiveDataAssumption DEF Init
  <2>3. seed \in [Datasets -> Seq(Item)]
    <3>1. \A d \in Datasets : InitialSeed[d] \in Seq(Item)
      <4> SUFFICES ASSUME NEW d \in Datasets
                   PROVE  InitialSeed[d] \in Seq(Item)
        OBVIOUS
      <4>1. InitialSeed[d] \in Seq([data : Data, tag : {0}])
        BY LiveDataAssumption
      <4>2. /\ Len(InitialSeed[d]) \in Nat
            /\ \A i \in 1 .. Len(InitialSeed[d]) : InitialSeed[d][i] \in [data : Data, tag : {0}]
            /\ InitialSeed[d] = [i \in 1 .. Len(InitialSeed[d]) |-> InitialSeed[d][i]]
        BY <4>1, ElementOfSeq, LenProperties
      <4>3. \A i \in 1 .. Len(InitialSeed[d]) : InitialSeed[d][i] \in Item
        BY <4>2 DEF Item
      <4>4. QED
        BY <4>2, <4>3
    <3>2. QED
      BY <3>1, LiveDataAssumption DEF Init
  <2>4. edited \in Seq(Item) /\ <<>> \in Seq({"ok", "error"})
    BY EmptySeq DEF Init
  <2>5. NothingFound \in Found
    BY DEF NothingFound, Found, Data
  <2>6. QED
    BY <2>1, <2>2, <2>3, <2>4, <2>5 DEF Init, TypeOK
<1>2. FoundInPlace
  BY DEF Init, FoundInPlace
<1>3. Untagged
  <2>1. \A r \in DOMAIN live : live[r].tag = 0
    BY LiveDataAssumption DEF Init
  <2>2. \A d \in Datasets : \A i \in 1 .. Len(seed[d]) : seed[d][i].tag = 0
    <3> SUFFICES ASSUME NEW d \in Datasets, NEW i \in 1 .. Len(InitialSeed[d])
                 PROVE  InitialSeed[d][i].tag = 0
      BY DEF Init
    <3>1. InitialSeed[d] \in Seq([data : Data, tag : {0}])
      BY LiveDataAssumption
    <3>2. InitialSeed[d][i] \in [data : Data, tag : {0}]
      BY <3>1, ElementOfSeq
    <3>3. QED
      BY <3>2
  <2>3. \A c \in Clients : req[c].kind \notin EditedKinds
    BY DEF Init, NoRequest, EditedKinds
  <2>4. QED
    BY <2>1, <2>2, <2>3 DEF Untagged
<1>4. LogPending /\ LogTellsTheTruth
  BY DEF Init, LogPending, LogTellsTheTruth, IsTool, NoRequest, ToolKinds
<1>5. QED
  BY <1>1, <1>2, <1>3, <1>4 DEF IInv

LEMMA NextIInv == IInv /\ [Next]_vars => IInv'
BY TypeStep, FoundInPlaceStep, UntaggedStep, LogStep DEF IInv

(* The step in which a tool call commits is its write and no other.         *)
LEMMA TheWrite ==
  ASSUME IInv, [Next]_vars, NEW c \in Clients, req[c].kind \in {"create", "update", "delete"},
         step[c] = "write", step'[c] = "log", effect'[c] # "none"
  PROVE  ToolWrite(c)
<1>1. effect[c] = "none" /\ TypeOK
  <2>1. IsTool(c)
    BY DEF IsTool, ToolKinds
  <2>2. TypeOK /\ LogPending
    BY DEF IInv
  <2>3. QED
    BY <2>1, <2>2 DEF LogPending, TypeOK
<1>2. PICK b \in Clients : Tool(b) \/ Admin(b)
  <2>1. ~UNCHANGED vars
    BY DEF vars, handlers
  <2>2. ~Crash /\ \A d \in Datasets : ~LoadEditor(d)
    BY DEF Crash, LoadEditor, handlers
  <2>3. \A b \in Clients, q \in Requests : ~Arrive(b, q)
    BY <1>1 DEF Arrive, TypeOK, Goto
  <2>4. QED
    BY <2>1, <2>2, <2>3 DEF Next
<1>3. b = c
  BY <1>1, <1>2 DEF TypeOK, Tool, Admin, List, ReadFails, PrepareCreate, Find, CheckFields, ToolWrite,
        ToolWriteFails, LogCall, LogFails, AdminWrite, AdminWriteFails, Confirm, Goto,
        Return, FailCall
<1>4. QED
  BY <1>1, <1>2, <1>3 DEF TypeOK, Tool, Admin, List, ReadFails, PrepareCreate, Find, CheckFields,
        ToolWriteFails, LogCall, LogFails, AdminWrite, AdminWriteFails, Confirm, Goto,
        Return, FailCall, IsTool, ToolKinds, ReplaceRows, AddRows, ResetToSeed, SaveAsSeed,
        DropDataset

(* The invariant that the other theorems rest on: the types, what an update *)
(* or a delete remembers of the row it found, and what a tool call has done *)
(* before its log entry is written.                                         *)
THEOREM Inductive == Spec => []IInv
BY InitIInv, NextIInv, PTL DEF Spec

(* Type correctness.                                                        *)
THEOREM TypeCorrect == Spec => []TypeOK
<1>1. IInv => TypeOK
  BY DEF IInv
<1>2. QED
  BY <1>1, Inductive, PTL

(* call_log says "ok" of no tool call whose transaction did not commit, an  *)
(* error of none whose did, and nothing twice; no caller is told "ok"       *)
(* without an entry.  "ok" of an update or a delete that changed no row is  *)
(* possible, but only when the row that it found has been deleted since, or *)
(* rows may hold a "_row_id" (Echo).                                        *)
THEOREM TruthfulLog == Spec => []LogTellsTheTruth
<1>1. IInv => LogTellsTheTruth
  BY DEF IInv
<1>2. QED
  BY <1>1, Inductive, PTL

(* AUTOINCREMENT: the id of a row that is gone never comes back, so an      *)
(* update or a delete that comes too late finds nothing to write to.        *)
THEOREM RowIdentity == Spec => RowIdsStandForOneRow
<1>1. IInv /\ [Next]_vars =>
        /\ \A r \in 1 .. nextRow - 1 : r \notin DOMAIN live => r \notin DOMAIN live'
        /\ \A r \in DOMAIN live \cap DOMAIN live' : live'[r].ds = live[r].ds
  <2> SUFFICES ASSUME IInv, [Next]_vars
               PROVE  /\ \A r \in 1 .. nextRow - 1 : r \notin DOMAIN live => r \notin DOMAIN live'
                      /\ \A r \in DOMAIN live \cap DOMAIN live' : live'[r].ds = live[r].ds
    OBVIOUS
  <2>1. TypeOK /\ Untagged
    BY DEF IInv
  <2>2. \A r \in DOMAIN live' : r < nextRow => r \in DOMAIN live /\ live'[r].ds = live[r].ds
    BY <2>1, RowIdStep
  <2>3. nextRow \in Nat /\ DOMAIN live \subseteq 1 .. nextRow - 1
    BY <2>1 DEF TypeOK
  <2>4. QED
    BY <2>2, <2>3
<1>2. QED
  BY <1>1, Inductive, PTL DEF Spec, RowIdsStandForOneRow

(* Where no client sends "_row_id" back, update and delete touch no row but *)
(* the one they found, whatever happened since they found it.               *)
THEOREM OnlyTheRow == ~Echo => (Spec => OnlyTheRowFound)
<1> SUFFICES ASSUME ~Echo
             PROVE  Spec => OnlyTheRowFound
  OBVIOUS
<1> DEFINE Safe == \A c \in Clients :
                     Commits(c, "update") \/ Commits(c, "delete") =>
                       \A r \in DOMAIN live :
                         Touched(r) => r = found[c].row /\ live[r].ds = req[c].ds
<1>1. IInv /\ [Next]_vars => Safe
  <2> SUFFICES ASSUME IInv, [Next]_vars,
                      NEW c \in Clients, Commits(c, "update") \/ Commits(c, "delete"),
                      NEW r \in DOMAIN live, Touched(r)
               PROVE  r = found[c].row /\ live[r].ds = req[c].ds
    OBVIOUS
  <2>1. /\ TypeOK
        /\ step[c] = "write" /\ step'[c] = "log" /\ effect'[c] # "none"
        /\ req[c].kind \in {"update", "delete"}
    BY DEF IInv, Commits
  <2>2. ToolWrite(c)
    BY <2>1, TheWrite
  <2>3. r = found[c].id
    BY <2>1, <2>2, ToolWriteRows
  <2>4. /\ found[c].row \in DOMAIN live => live[found[c].row].ds = req[c].ds
        /\ found[c].id = found[c].row
    BY <2>1 DEF IInv, FoundInPlace
  <2>5. QED
    BY <2>3, <2>4
<1>2. QED
  BY <1>1, Inductive, PTL DEF Spec, OnlyTheRowFound

-------------------------------------------------------------------------------
(* One client at a time.                                                    *)

(* Between the read of a tool call and its write only the call itself moves.*)
LEMMA NobodyBetween ==
  ASSUME TypeOK, NEW client, Clients = {client}, [Next]_vars,
         step'[client] \in {"check", "write"}, req'[client].kind \in ToolKinds
  PROVE  \/ UNCHANGED <<live, req, found>> /\ step[client] \in {"check", "write"}
         \/ Find(client)
         \/ PrepareCreate(client)
<1>1. client \in Clients
  OBVIOUS
<1>2. CASE \E c \in Clients, q \in Requests : Arrive(c, q)
  <2>1. PICK q \in Requests : Arrive(client, q)
    BY <1>2
  <2>2. req'[client] = q /\ step'[client] \in {"find", "log", "idle", "write"}
        /\ (step'[client] = "write" => q.kind \notin ToolKinds)
    BY <1>1, <2>1 DEF Arrive, TypeOK, Goto
  <2>3. QED
    BY <2>2
<1>3. CASE \E c \in Clients : Tool(c)
  <2>1. Tool(client)
    BY <1>3
  <2>2. CASE CheckFields(client)
    BY <2>2 DEF CheckFields, tables
  <2>3. CASE List(client) \/ ReadFails(client) \/ ToolWrite(client) \/ ToolWriteFails(client)
             \/ LogCall(client) \/ LogFails(client)
    BY <1>1, <2>3 DEF List, ReadFails, ToolWrite, ToolWriteFails, LogCall, LogFails, FailCall, Return,
                      Goto, TypeOK
  <2>4. QED
    BY <2>1, <2>2, <2>3 DEF Tool
<1>4. CASE \E c \in Clients : Admin(c)
  <2>1. Admin(client)
    BY <1>4
  <2>2. QED
    BY <1>1, <2>1 DEF Admin, AdminWrite, AdminWriteFails, Confirm, Return, Goto, TypeOK
<1>5. CASE \E d \in Datasets : LoadEditor(d)
  BY <1>5 DEF LoadEditor, tables, handlers
<1>6. CASE Crash
  BY <1>1, <1>6 DEF Crash
<1>7. CASE UNCHANGED vars
  BY <1>7 DEF vars, tables, handlers
<1>8. QED
  BY <1>2, <1>3, <1>4, <1>5, <1>6, <1>7 DEF Next

(* What update and delete have found is what they overwrite.                *)
LEMMA FoundStaysStep ==
  ASSUME TypeOK, NEW client, Clients = {client}, FoundStays(client), [Next]_vars
  PROVE  FoundStays(client)'
<1> SUFFICES ASSUME step'[client] \in {"check", "write"},
                    req'[client].kind \in {"update", "delete"}
             PROVE  /\ found'[client].row \in RowsOf(req[client].ds)'
                    /\ found'[client].id = ShownId(found[client].row)'
                    /\ found'[client].data = live'[found'[client].row].data
  BY DEF FoundStays
<1>1. client \in Clients
  OBVIOUS
<1>2. CASE UNCHANGED <<live, req, found>> /\ step[client] \in {"check", "write"}
  BY <1>2 DEF FoundStays, RowsOf, ShownId
<1>3. CASE Find(client)
  <2>1. step'[client] # "log" /\ UNCHANGED <<live, req>>
    BY <1>3 DEF Find, tables
  <2>2. PICK r \in Matching(req[client].ds, req[client].key) :
          found' = [found EXCEPT ![client] = [row |-> r, id |-> ShownId(r), data |-> live[r].data]]
    BY <1>1, <1>3, <2>1 DEF Find, FailCall, Goto, TypeOK
  <2>3. found'[client] = [row |-> r, id |-> ShownId(r), data |-> live[r].data]
    BY <1>1, <2>2 DEF TypeOK
  <2>4. r \in RowsOf(req[client].ds)
    BY DEF Matching
  <2>5. QED
    BY <2>1, <2>3, <2>4 DEF RowsOf, ShownId
<1>4. CASE PrepareCreate(client)
  BY <1>4 DEF PrepareCreate
<1>5. QED
  BY <1>2, <1>3, <1>4, NobodyBetween DEF ToolKinds

(* The id that create has picked is still one more than the largest.        *)
LEMMA PickedIsNextStep ==
  ASSUME TypeOK, NEW client, Clients = {client}, PickedIsNext(client), [Next]_vars
  PROVE  PickedIsNext(client)'
<1> SUFFICES ASSUME step'[client] \in {"check", "write"},
                    req'[client].kind = "create",
                    IdField \notin Keys(req'[client].body)
             PROVE  found'[client].data[IdField] \in NextIds(req[client].ds)'
  BY DEF PickedIsNext, Keys
<1>1. client \in Clients
  OBVIOUS
<1>2. CASE UNCHANGED <<live, req, found>> /\ step[client] \in {"check", "write"}
  BY <1>2 DEF PickedIsNext, NextIds, IdsIn, RowsOf, Keys
<1>3. CASE PrepareCreate(client)
  <2>1. step'[client] # "log" /\ UNCHANGED <<live, req>>
    BY <1>3 DEF PrepareCreate, tables
  <2>2. PICK n \in NextIds(req[client].ds) :
          found' = [found EXCEPT ![client] =
            [row |-> 0, id |-> 0, data |-> [req[client].body EXCEPT ![IdField] = n]]]
    BY <1>1, <1>3, <2>1 DEF PrepareCreate, FailCall, Goto, TypeOK
  <2>3. found'[client].data = [req[client].body EXCEPT ![IdField] = n]
    BY <1>1, <2>2 DEF TypeOK
  <2>4. req[client] \in Requests /\ req[client].kind = "create"
    BY <1>1, <1>3 DEF PrepareCreate, TypeOK, NoRequest
  <2>5. req[client].body \in Data
    BY <2>4, RequestFields
  <2>6. found'[client].data[IdField] = n
    BY <2>3, <2>5, LiveDataAssumption DEF Data
  <2>7. NextIds(req[client].ds)' = NextIds(req[client].ds)
    BY <2>1 DEF NextIds, IdsIn, RowsOf
  <2>8. QED
    BY <2>6, <2>7
<1>4. CASE Find(client)
  BY <1>4 DEF Find
<1>5. QED
  BY <1>2, <1>3, <1>4, NobodyBetween DEF ToolKinds

(* With one client, what a call has read holds until it writes.             *)
THEOREM SerialInductive ==
  ASSUME NEW client, Clients = {client}
  PROVE  Spec => []SerialInv
<1>1. Init => SerialInv
  BY DEF Init, SerialInv, FoundStays, PickedIsNext
<1>2. IInv /\ SerialInv /\ [Next]_vars => SerialInv'
  BY FoundStaysStep, PickedIsNextStep DEF IInv, SerialInv
<1>3. QED
  BY <1>1, <1>2, Inductive, PTL DEF Spec

(* The write of an update or a delete to a row that was listed under its    *)
(* own id: it is the row that was found.                                    *)
LEMMA WriteToTheRowFound ==
  ASSUME IInv, SerialInv, [Next]_vars, NEW c \in Clients,
         Commits(c, "update") \/ Commits(c, "delete"), ShownAsItself(c)
  PROVE  /\ found[c].id = found[c].row
         /\ found[c].row \in DOMAIN live
         /\ live[found[c].row].ds = req[c].ds
         /\ found[c].data = live[found[c].row].data
         /\ effect'[c] = "written"
         /\ Commits(c, "update") => UpdateRow(c)
         /\ Commits(c, "delete") => DeleteRow(c)
<1>1. ToolWrite(c)
  BY TheWrite DEF Commits
<1>2. FoundStays(c) /\ step[c] = "write" /\ req[c].kind \in {"update", "delete"}
  BY DEF SerialInv, Commits
<1>3. found[c].row \in RowsOf(req[c].ds) /\ found[c].id = ShownId(found[c].row)
      /\ found[c].data = live[found[c].row].data
  BY <1>2 DEF FoundStays
<1>4. effect'[c] = "written"
  BY <1>1, <1>3 DEF ToolWrite, Done, ShownAsItself, RowsOf, IInv, TypeOK
<1>5. QED
  BY <1>1, <1>3, <1>4 DEF ToolWrite, InsertRow, UpdateRow, DeleteRow, ShownAsItself, RowsOf, Commits

(* With one client at a time, an update that commits has put the merged row *)
(* into the place of the row it found, and a delete has taken that row away,*)
(* if the row it found was listed under its own id.  (A row that an admin   *)
(* has sent back with its "_row_id" is not: README, section 5.)             *)
THEOREM AcknowledgedIsWritten ==
  ASSUME NEW client, Clients = {client}
  PROVE  Spec => WritesTakeEffect
<1> DEFINE Shown(c) ==
             /\ Commits(c, "update") /\ ShownAsItself(c) =>
                  /\ effect'[c] = "written"
                  /\ found[c].row \in RowsOf(req[c].ds)'
                  /\ live'[found[c].row].data = Merged(found[c].data, req[c].body)
             /\ Commits(c, "delete") /\ ShownAsItself(c) =>
                  /\ effect'[c] = "written"
                  /\ found[c].row \notin DOMAIN live'
<1>1. IInv /\ SerialInv /\ [Next]_vars => \A c \in Clients : Shown(c)
  <2> SUFFICES ASSUME IInv, SerialInv, [Next]_vars, NEW c \in Clients, ShownAsItself(c)
               PROVE  /\ Commits(c, "update") =>
                           /\ effect'[c] = "written"
                           /\ found[c].row \in RowsOf(req[c].ds)'
                           /\ live'[found[c].row].data = Merged(found[c].data, req[c].body)
                      /\ Commits(c, "delete") =>
                           /\ effect'[c] = "written"
                           /\ found[c].row \notin DOMAIN live'
    OBVIOUS
  <2>1. CASE Commits(c, "update")
    <3>1. /\ UpdateRow(c) /\ found[c].id = found[c].row /\ found[c].row \in DOMAIN live
          /\ live[found[c].row].ds = req[c].ds /\ effect'[c] = "written"
      BY <2>1, WriteToTheRowFound
    <3>2. UNCHANGED req
      BY <2>1, TheWrite DEF Commits, ToolWrite
    <3>3. /\ found[c].row \in DOMAIN live'
          /\ live'[found[c].row].ds = req[c].ds
          /\ live'[found[c].row].data = Merged(found[c].data, req[c].body)
      BY <3>1 DEF UpdateRow
    <3>4. found[c].row \in RowsOf(req[c].ds)'
      BY <3>2, <3>3 DEF RowsOf
    <3>5. ~Commits(c, "delete")
      BY <2>1 DEF Commits
    <3>6. QED
      BY <3>1, <3>3, <3>4, <3>5
  <2>2. CASE Commits(c, "delete")
    <3>1. DeleteRow(c) /\ found[c].id = found[c].row /\ effect'[c] = "written"
      BY <2>2, WriteToTheRowFound
    <3>2. ~Commits(c, "update")
      BY <2>2 DEF Commits
    <3>3. QED
      BY <3>1, <3>2 DEF DeleteRow, Keeping
  <2>3. QED
    BY <2>1, <2>2
<1>2. QED
  BY <1>1, Inductive, SerialInductive, PTL DEF Spec, WritesTakeEffect

(* With one client at a time, an update of a row that was listed under its  *)
(* own id keeps every field it was not given, in every row.                 *)
THEOREM OtherFieldsStay ==
  ASSUME NEW client, Clients = {client}
  PROVE  Spec => UpdateKeepsOtherFields
<1> DEFINE Keeps(c) ==
             Commits(c, "update") /\ ShownAsItself(c) =>
               \A r \in DOMAIN live \cap DOMAIN live' :
                 \A k \in Keys(live[r].data) \ Keys(req[c].body) :
                   live'[r].data[k] = live[r].data[k]
<1>1. IInv /\ SerialInv /\ [Next]_vars => \A c \in Clients : Keeps(c)
  <2> SUFFICES ASSUME IInv, SerialInv, [Next]_vars, NEW c \in Clients,
                      Commits(c, "update"), ShownAsItself(c),
                      NEW r \in DOMAIN live \cap DOMAIN live',
                      NEW k \in Keys(live[r].data) \ Keys(req[c].body)
               PROVE  live'[r].data[k] = live[r].data[k]
    OBVIOUS
  <2>1. /\ UpdateRow(c) /\ found[c].id = found[c].row
        /\ found[c].data = live[found[c].row].data
    BY WriteToTheRowFound
  <2>2. CASE r = found[c].row
    <3>1. live'[r].data = Merged(live[r].data, req[c].body)
      BY <2>1, <2>2 DEF UpdateRow
    <3>2. k \in Fields
      BY DEF Keys
    <3>3. QED
      BY <3>1, <3>2 DEF Merged
  <2>3. CASE r # found[c].row
    BY <2>1, <2>3 DEF UpdateRow
  <2>4. QED
    BY <2>2, <2>3
<1>2. QED
  BY <1>1, Inductive, SerialInductive, PTL DEF Spec, UpdateKeepsOtherFields

(* With one client at a time, an id that create assigns is not taken: it is *)
(* one more than the largest of the ids that the rows still have.           *)
THEOREM AssignedIdsAreFree ==
  ASSUME NEW client, Clients = {client}
  PROVE  Spec => AssignedIdIsFresh
<1>1. IInv => \A d : \A n \in NextIds(d) : n \notin IdsIn(d)
  <2> SUFFICES ASSUME IInv, NEW d, NEW n \in NextIds(d)
               PROVE  n \notin IdsIn(d)
    OBVIOUS
  <2>1. IdsIn(d) \subseteq Nat
    <3>1. \A r \in DOMAIN live : live[r].data \in Data
      BY DEF IInv, TypeOK, Row
    <3>2. QED
      BY <3>1, LiveDataAssumption DEF IdsIn, RowsOf, Data
  <2>2. CASE IdsIn(d) = {}
    BY <2>2
  <2>3. CASE IdsIn(d) # {}
    <3>1. PICK m \in IdsIn(d) : n = m + 1 /\ \A k \in IdsIn(d) : k <= m
      BY <2>3 DEF NextIds
    <3>2. QED
      BY <2>1, <3>1
  <2>4. QED
    BY <2>2, <2>3
<1> DEFINE Free(c) == Commits(c, "create") /\ IdField \notin Keys(req[c].body) =>
                        found[c].data[IdField] \notin IdsIn(req[c].ds)
<1>2. IInv /\ SerialInv => \A c \in Clients : Free(c)
  BY <1>1 DEF SerialInv, PickedIsNext, Commits
<1>3. QED
  BY <1>2, Inductive, SerialInductive, PTL DEF Spec, AssignedIdIsFresh

===============================================================================
