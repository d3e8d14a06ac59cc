--------------------------------- MODULE MCMcp --------------------------------
(***************************************************************************)
(* Small instances of what reads several tables while they change.         *)
(*                                                                         *)
(* Mcp: a request while an editor changes the server; or, in another       *)
(* scene, a client that is also the editor, with one tool and one dataset, *)
(* all shapes, and all sets of fields and arguments.  Paths have {id}, or  *)
(* {order}, {expand} or {unit-price}, and so may rows have fields but for  *)
(* expand; "unit-price" cannot name a parameter, and "from" is a keyword.  *)
(* Expand: orders and customers, joined on a number or on the string of    *)
(* the same digits, with nulls, missing fields and keys that two rows      *)
(* share; an order may also stand for another order, or be joined to       *)
(* customers twice, on different fields.                                   *)
(*                                                                         *)
(* The first state chooses which of them runs, the scene.                  *)
(***************************************************************************)
EXTENDS Mcp, Sequences

CONSTANTS
  orders, customers, number, digits, other,
  Datasets, Columns, ExpandNames, Null, NoField, Values, Str(_), NoName,
  RelSets, RowSets, Reads, MaxNames, MaxChanges   (* of module Expand       *)

VARIABLES
  scene, rels, gone, rows, expand, expand_step, given, avail, forward, inverse,
  expand_todo, out, expand_seen, changes

-------------------------------------------------------------------------------
(* Mcp *)

Item(t, p) == [type |-> t, param |-> p]

MCShapes ==
  {[type |-> t, param |-> Nothing] : t \in {"list", "search", "create"}} \cup
  {Item(t, p) : t \in ItemTypes, p \in {"id", "order", "expand", "unit-price"}}

FewShapes ==
  Shapes \cap {[type |-> "create", param |-> Nothing], Item("get", "id"), Item("delete", "order")}

MCFields == SUBSET (Names \ {"expand", "q"})

Calls(ts, argss) == {Listing} \cup {[tool |-> t, args |-> s] : t \in ts, s \in argss}

MCAsks == {Listing} \cup [tool : Tools, args : SUBSET (Names \ {"q"})]

FewFields == {f \in Fields : f \subseteq {"id"}}

FewAsks == {a \in Asks : a # Listing => a.args = {"id"}}

AsksForOne == {a \in Asks : a # Listing => a.tool = "a"}

OneTool == endpoints["b"] = Absent /\ datasets[2] = Absent

-------------------------------------------------------------------------------
(* Expand *)

Order(c, p) == [f \in {"id", "ref"} |-> IF f = "id" THEN c ELSE p]

Join(t, f, e, i) ==
  [src |-> orders, srcField |-> "ref", tgt |-> t, tgtField |-> f, expand |-> e, inverse |-> i]

(* A second relationship of the same datasets, on other fields.            *)
OtherJoin ==
  [src |-> orders, srcField |-> "id", tgt |-> customers, tgtField |-> "ref",
   expand |-> "payer", inverse |-> "payer"]

Read(d, names) == [base |-> d, names |-> names]

(* str(1) = str("1"); Null and NoField are never looked up in this way     *)
(* but by ForwardIndex, which has a key for null.                          *)
MCStr(v) == IF v \in {number, digits} THEN digits ELSE v

MCRelSets ==
  {<<Join(customers, "id", "customer", "lines")>>,
   <<Join(customers, "id", "customer", NoName), Join(orders, "id", "payer", "lines")>>,
   <<Join(customers, "id", "customer", "lines"), OtherJoin>>}

MCRowSets ==
  {[d \in {orders, customers} |->
      IF d = orders THEN <<Order(number, a), Order(other, b)>>
                    ELSE <<Order(x, other), Order(y, number)>>] :
     a \in {digits, other, NoField}, b \in {number, Null},
     x \in {number, other}, y \in {digits, number, Null}}

MCReads ==
  {Read(orders, <<"customer", "customer">>), Read(customers, <<"lines">>),
   Read(orders, <<"payer", "lines">>), Read(orders, <<"customer", "payer", "lines">>),
   Read(orders, <<"customer", "payer">>), Read(customers, <<"lines", "payer">>)}

Expands == INSTANCE Expand WITH
  ask <- expand, step <- expand_step, todo <- expand_todo, seen <- expand_seen,
  Fields <- Columns, Names <- ExpandNames, Requests <- Reads

ASSUME ExpandsAssumption == Expands!ExpandAssumption

-------------------------------------------------------------------------------

expansion == <<rels, gone, rows, expand, expand_step, given, avail, forward, inverse,
               expand_todo, out, expand_seen, changes>>

NoExpansion ==
  /\ rels = Nothing /\ gone = Nothing /\ rows = Nothing /\ expand = Nothing
  /\ expand_step = Nothing /\ given = Nothing /\ avail = Nothing /\ forward = Nothing
  /\ inverse = Nothing /\ expand_todo = Nothing /\ out = Nothing /\ expand_seen = Nothing
  /\ changes = Nothing

MCInit ==
  /\ Init
  /\ \/ scene = "mcp" /\ NoExpansion
     \/ scene = "one client" /\ OneTool /\ NoExpansion
     \/ scene = "expand" /\ (\A d \in Ids : datasets[d] = Absent) /\ Expands!Init

(* A response that is sent stays as it is. *)
Answered == expand_step \in {"done", "refused"} /\ UNCHANGED expansion

MCNext ==
  /\ UNCHANGED scene
  /\ \/ /\ scene = "mcp" /\ UNCHANGED expansion
        /\ (\E c \in Clients : Serve(c, FewAsks)) \/ Edits(FewShapes, FewFields)
     \/ /\ scene = "one client" /\ UNCHANGED expansion
        /\ \E c \in Clients : Serve(c, AsksForOne) \/ (~Busy(c) /\ Edits(Shapes, Fields))
        /\ OneTool'
     \/ scene = "expand" /\ (Expands!Next \/ Answered) /\ UNCHANGED vars

MCSpec == MCInit /\ [][MCNext]_<<scene, vars, expansion>>

-------------------------------------------------------------------------------

(* A client alone gets every endpoint as a tool, or a 500 for an endpoint  *)
(* that cannot be one, and the calls that pass the signature of a tool are *)
(* those that the executor takes (Mcp).                                    *)
ExposedAsDeclared ==
  [][scene = "one client" => \A c \in Clients : ExposesAllOrNone(c) /\ DeclaresWhatRuns(c)]_
    <<scene, vars, expansion>>

(* "A FastMCP server exposing every endpoint of slug as a tool": whatever  *)
(* the rows have for fields, the request of a client alone fails only for  *)
(* what an endpoint itself is (Mcp).                                       *)
ExposedWhateverTheRowsHold ==
  [][scene = "one client" => \A c \in Clients : ExposedWhateverFields(c)]_
    <<scene, vars, expansion>>

(* Names that agree on the field of an index expand to what relationships  *)
(* stand for while nobody writes, and the integrity report agrees with     *)
(* that.  Whoever writes, what is attached are rows of the related dataset,*)
(* for such names rows that the relationship joins (Expand).               *)
ExpandsWhatIsRelated ==
  scene = "expand" =>
    /\ Expands!TypeOK /\ Expands!ExpandsAsDocumented
    /\ Expands!NothingMixedUp /\ Expands!OrphansAreNulls

===============================================================================
