-------------------------------- MODULE McpProofs --------------------------------
(***************************************************************************)
(* Whatever is edited while a request builds its tools, it serves all the  *)
(* endpoints of one moment: InSync, for every set of clients, of endpoints *)
(* and of fields, from the inductive invariant TypeOK /\ Tracked.          *)
(*                                                                         *)
(* And a client alone gets every endpoint as a tool unless one cannot be,  *)
(* and no signature that the executor refuses, whatever the shapes, fields *)
(* and arguments: ExposedAsDeclared of MCMcp, from UpToDate.               *)
(*                                                                         *)
(* And expand_rows attaches what the relationships stand for, whatever the *)
(* rows and the requests: ExpandsWhatIsRelated of MCMcp, from the inductive*)
(* invariant of Expand.                                                    *)
(***************************************************************************)
EXTENDS MCMcp, FiniteSetTheorems, WellFoundedInduction, TLAPS

(* TypeOK in two parts, which different steps disturb.                      *)
ServerOK ==
  /\ alive \in BOOLEAN
  /\ endpoints \in [Tools -> EndpointRows \cup {Absent}]
  /\ datasets \in [Ids -> (SUBSET Names) \cup {Absent}]
  /\ \A t \in Named : endpoints[t].dataset \in Stored
  /\ ~alive => Named = {} /\ Stored = {}

RequestsOK ==
  /\ step \in [Clients -> Steps]
  /\ ask \in [Clients -> Asks \cup {Nothing}]
  /\ todo \in [Clients -> SUBSET [tool : Tools, of : Supported]]
  /\ built \in [Clients -> SUBSET [tool : Tools, params : SUBSET Names, required : SUBSET Names]]
  /\ sent \in [Clients -> SUBSET Names]
  /\ seen \in [Clients -> SUBSET SUBSET Tools]
  /\ \A c \in Clients :
       /\ (ask[c] # Nothing) = Busy(c)
       /\ (seen[c] # {}) = Busy(c)
       /\ todo[c] # {} => step[c] = "build"
       /\ built[c] # {} => step[c] \in {"build", "serve", "call"}
       /\ sent[c] # {} => step[c] = "call"

LEMMA TypeParts ==
  /\ TypeOK <=> ServerOK /\ RequestsOK
  /\ TypeOK' <=> ServerOK' /\ RequestsOK'
BY DEF TypeOK, ServerOK, RequestsOK

ToolsOf(S) == {e.tool : e \in S}

(* A request in progress has seen the endpoints of now, and those that it  *)
(* listed: what is left of them, and what it has built of them.            *)
Tracked ==
  \A c \in Clients :
    /\ Busy(c) => Named \in seen[c]
    /\ step[c] \in {"build", "serve", "call"} => ToolsOf(todo[c]) \cup ToolsOf(built[c]) \in seen[c]

IInv == TypeOK /\ Tracked

LEMMA TrackedGivesInSync == IInv => InSync
<1> SUFFICES ASSUME TypeOK, Tracked, NEW c \in Clients, step[c] = "serve"
             PROVE  {t.tool : t \in built[c]} \in seen[c]
  BY DEF IInv, InSync
<1>1. todo[c] = {}
  BY TypeParts DEF RequestsOK
<1>2. ToolsOf(todo[c]) \cup ToolsOf(built[c]) = {t.tool : t \in built[c]}
  BY <1>1 DEF ToolsOf
<1>3. QED
  BY <1>2 DEF Tracked

-------------------------------------------------------------------------------
LEMMA InitHolds == Init => IInv
<1> SUFFICES ASSUME Init PROVE IInv
  OBVIOUS
<1>1. ServerOK
  <2>1. IdField \in Names
    BY McpAssumption
  <2>2. Named = {}
    BY DEF Init, Named
  <2>3. datasets \in [Ids -> (SUBSET Names) \cup {Absent}]
    BY <2>1 DEF Init
  <2>4. QED
    BY <2>2, <2>3 DEF Init, ServerOK
<1>2. RequestsOK
  BY DEF Init, RequestsOK, Steps, Busy
<1>3. Tracked
  BY DEF Init, Tracked, Busy
<1>4. QED
  BY <1>1, <1>2, <1>3, TypeParts DEF IInv

(* The parameters of a tool are names.                                      *)
LEMMA ParamsAreNames ==
  ASSUME NEW e \in Supported, NEW fields \in SUBSET Names
  PROVE  Params(e, fields) \in SUBSET Names /\ Required(e) \in SUBSET Names
<1>1. Required(e) \in SUBSET Names
  BY DEF Required, Supported, EndpointRows
<1>2. Usable(fields) \in SUBSET Names
  BY DEF Usable
<1>3. {"limit", "q", "expand"} \subseteq Names
  BY McpAssumption DEF ReservedParams
<1>4. e.type \in {"list", "search", "get", "create", "update", "delete"}
  BY DEF Supported, EndpointRows, Types
<1>5. CASE e.type = "list"
  BY <1>1, <1>2, <1>3, <1>5 DEF Params
<1>6. CASE e.type = "search"
  BY <1>1, <1>2, <1>3, <1>6 DEF Params
<1>7. CASE e.type = "get"
  BY <1>1, <1>2, <1>3, <1>7 DEF Params
<1>8. CASE e.type \in {"create", "update"}
  BY <1>1, <1>2, <1>8 DEF Params
<1>9. CASE e.type = "delete"
  BY <1>1, <1>9 DEF Params
<1>10. QED
  BY <1>4, <1>5, <1>6, <1>7, <1>8, <1>9

-------------------------------------------------------------------------------
(* An edit: requests in progress see it, others have seen nothing.          *)
LEMMA EditTracks ==
  ASSUME IInv, Edit
  PROVE  RequestsOK' /\ Tracked'
<1> DEFINE now == {t \in Tools : endpoints'[t] # Absent}
<1>1. Named' = now
  BY DEF Named
<1>2. RequestsOK /\ Tracked
  BY TypeParts DEF IInv
<1>3. /\ UNCHANGED <<step, ask, todo, built, sent>>
      /\ \A c \in Clients : Busy(c)' = Busy(c)
  BY DEF Edit, Busy
<1>4. \A c \in Clients : seen'[c] = IF Busy(c) THEN seen[c] \cup {now} ELSE {}
  BY DEF Edit
<1>5. seen' \in [Clients -> SUBSET SUBSET Tools]
  BY <1>2, <1>4 DEF Edit, RequestsOK
<1>6. RequestsOK'
  BY <1>2, <1>3, <1>4, <1>5 DEF RequestsOK
<1>7. ASSUME NEW c \in Clients
      PROVE  /\ Busy(c)' => Named' \in seen'[c]
             /\ step'[c] \in {"build", "serve", "call"} =>
                  ToolsOf(todo'[c]) \cup ToolsOf(built'[c]) \in seen'[c]
  <2>1. Busy(c)' => Named' \in seen'[c]
    BY <1>1, <1>3, <1>4
  <2>2. step[c] \in {"build", "serve", "call"} => Busy(c)
    BY DEF Busy
  <2>3. QED
    BY <1>2, <1>3, <1>4, <2>1, <2>2 DEF Tracked
<1>8. Tracked'
  BY <1>7 DEF Tracked, ToolsOf
<1>9. QED
  BY <1>6, <1>8

(* A request that ends has nothing left.                                    *)
LEMMA EndTracks ==
  ASSUME RequestsOK, Tracked, Named' = Named, NEW c \in Clients,
         NEW how \in Steps \ {"begin", "list", "build", "serve", "call"}, End(c, how)
  PROVE  RequestsOK' /\ Tracked'
<1>1. /\ step' = [step EXCEPT ![c] = how]
      /\ ask' = [ask EXCEPT ![c] = Nothing] /\ todo' = [todo EXCEPT ![c] = {}]
      /\ built' = [built EXCEPT ![c] = {}] /\ sent' = [sent EXCEPT ![c] = {}]
      /\ seen' = [seen EXCEPT ![c] = {}]
  BY DEF End, Goto
<1>2. RequestsOK'
  BY <1>1 DEF RequestsOK, Busy
<1>3. Tracked'
  BY <1>1 DEF Tracked, Busy, RequestsOK, ToolsOf
<1>4. QED
  BY <1>2, <1>3

(* Editors keep the server whole.                                           *)
LEMMA EditsKeepServer ==
  ASSUME ServerOK, Edits(Shapes, Fields)
  PROVE  ServerOK' /\ Edit
<1>1. alive /\ Edit
  BY DEF Edits, Edit, SetRows, DeleteDataset, SetEndpoint, BlankEndpoint, DeleteEndpoint,
           DeleteServer
<1>2. ASSUME NEW d \in Ids, NEW fields \in Fields, SetRows(d, fields)
      PROVE  ServerOK'
  <2>1. fields \in SUBSET Names /\ fields # Absent
    BY McpAssumption
  <2>2. Stored \subseteq Stored' /\ Named' = Named
    BY <1>2, <2>1 DEF SetRows, Stored, Named, ServerOK
  <2>3. QED
    BY <1>1, <1>2, <2>1, <2>2 DEF SetRows, ServerOK
<1>3. ASSUME NEW d \in Ids, DeleteDataset(d)
      PROVE  ServerOK'
  <2>1. Named' = Named /\ Stored \ {d} \subseteq Stored'
    BY <1>3 DEF DeleteDataset, Stored, Named, ServerOK
  <2>2. \A u \in Named : endpoints[u].dataset \in Stored \ {d}
    BY <1>3 DEF DeleteDataset, ServerOK
  <2>3. QED
    BY <1>1, <1>3, <2>1, <2>2 DEF DeleteDataset, ServerOK
<1>4. ASSUME NEW t \in Tools, NEW s \in Shapes, NEW d \in Ids, SetEndpoint(t, s, d)
      PROVE  ServerOK'
  <2> DEFINE row == [type |-> s.type, param |-> s.param, dataset |-> d]
  <2>1. s.type \in Types /\ IF s.type \in ItemTypes THEN s.param \in Names ELSE s.param = Nothing
    BY McpAssumption
  <2>2. row \in EndpointRows
    BY <2>1 DEF EndpointRows
  <2>3. /\ endpoints' = [endpoints EXCEPT ![t] = row]
        /\ Stored' = Stored /\ d \in Stored
        /\ Named' \subseteq Named \cup {t}
    BY <1>4 DEF SetEndpoint, Stored, Named, ServerOK
  <2>4. \A u \in Named' : endpoints'[u].dataset \in Stored'
    BY <2>3 DEF ServerOK, Named
  <2>5. QED
    BY <1>1, <1>4, <2>2, <2>3, <2>4 DEF SetEndpoint, ServerOK
<1>5. ASSUME NEW t \in Tools, DeleteEndpoint(t)
      PROVE  ServerOK'
  <2>1. Named' \subseteq Named \ {t} /\ Stored' = Stored
    BY <1>5 DEF DeleteEndpoint, Named, Stored, ServerOK
  <2>2. QED
    BY <1>1, <1>5, <2>1 DEF DeleteEndpoint, ServerOK, Named
<1>6. ASSUME NEW t \in Tools, NEW d \in Ids, BlankEndpoint(t, d)
      PROVE  ServerOK'
  <2> DEFINE row == [type |-> Nothing, param |-> Nothing, dataset |-> d]
  <2>1. row \in EndpointRows
    <3>1. Nothing \notin ItemTypes
      BY McpAssumption DEF ItemTypes, Types
    <3>2. QED
      BY <3>1 DEF EndpointRows
  <2>2. /\ endpoints' = [endpoints EXCEPT ![t] = row]
        /\ Stored' = Stored /\ d \in Stored
        /\ Named' \subseteq Named
    BY <1>6 DEF BlankEndpoint, Stored, Named, ServerOK
  <2>3. \A u \in Named' : endpoints'[u].dataset \in Stored'
    BY <2>2 DEF ServerOK, Named
  <2>4. QED
    BY <1>1, <1>6, <2>1, <2>2, <2>3 DEF BlankEndpoint, ServerOK
<1>7. CASE DeleteServer
  BY <1>7 DEF DeleteServer, ServerOK, Named, Stored
<1>8. QED
  BY <1>1, <1>2, <1>3, <1>4, <1>5, <1>6, <1>7 DEF Edits

-------------------------------------------------------------------------------
(* The steps of a request up to the call.                                   *)
LEMMA RequestKeeps ==
  ASSUME IInv, NEW c \in Clients, NEW a \in Asks, Request(c, a)
  PROVE  IInv'
<1>1. ServerOK /\ RequestsOK /\ Tracked
  BY TypeParts DEF IInv
<1>2. ServerOK' /\ Named' = Named
  BY <1>1 DEF Request, server, ServerOK, Named, Stored
<1>3. RequestsOK'
  <2>1. a # Nothing /\ a \in Asks
    BY McpAssumption
  <2>2. {Named} \in SUBSET SUBSET Tools
    BY DEF Named
  <2>3. /\ todo[c] = {} /\ built[c] = {} /\ sent[c] = {}
    BY <1>1 DEF Request, RequestsOK, Busy
  <2>4. QED
    BY <1>1, <2>1, <2>2, <2>3 DEF Request, RequestsOK, Goto, Busy, Steps
<1>4. Tracked'
  BY <1>1, <1>2 DEF Request, Tracked, Goto, Busy, RequestsOK, ToolsOf
<1>5. QED
  BY <1>2, <1>3, <1>4, TypeParts DEF IInv

(* The server is left alone by the others, but for a call that runs.        *)
LEMMA FindKeeps ==
  ASSUME IInv, NEW c \in Clients, Find(c)
  PROVE  IInv'
<1>1. ServerOK /\ RequestsOK /\ Tracked
  BY TypeParts DEF IInv
<1>2. ServerOK' /\ Named' = Named
  BY <1>1 DEF Find, server, ServerOK, Named, Stored
<1>3. RequestsOK' /\ Tracked'
  <2>1. CASE End(c, "unknown")
    BY <1>1, <1>2, <2>1, EndTracks DEF Steps
  <2>2. CASE step[c] = "begin" /\ Goto(c, "list") /\ UNCHANGED <<ask, todo, built, sent, seen>>
    <3>1. RequestsOK'
      BY <1>1, <2>2 DEF RequestsOK, Goto, Busy, Steps
    <3>2. Tracked'
      BY <1>1, <1>2, <2>2 DEF Tracked, RequestsOK, Goto, Busy, ToolsOf
    <3>3. QED
      BY <3>1, <3>2
  <2>3. QED
    BY <2>1, <2>2 DEF Find
<1>4. QED
  BY <1>2, <1>3, TypeParts DEF IInv

LEMMA ListEndpointsKeeps ==
  ASSUME IInv, NEW c \in Clients, ListEndpoints(c)
  PROVE  IInv'
<1> DEFINE listed == {[tool |-> t, of |-> endpoints[t]] : t \in Named}
<1>1. ServerOK /\ RequestsOK /\ Tracked
  BY TypeParts DEF IInv
<1>2. ServerOK' /\ Named' = Named
  BY <1>1 DEF ListEndpoints, server, ServerOK, Named, Stored
<1>3. CASE End(c, "error")
  <2>1. RequestsOK' /\ Tracked'
    BY <1>1, <1>2, <1>3, EndTracks DEF Steps
  <2>2. QED
    BY <1>2, <2>1, TypeParts DEF IInv
<1>4. CASE /\ step[c] = "list" /\ \A t \in Named : endpoints[t].type # Nothing
           /\ todo' = [todo EXCEPT ![c] = listed]
           /\ Goto(c, "build")
           /\ UNCHANGED <<ask, built, sent, seen>>
  <2>1. listed \in SUBSET [tool : Tools, of : Supported]
    BY <1>1, <1>4 DEF Named, ServerOK, Supported
  <2>2. RequestsOK'
    BY <1>1, <1>4, <2>1 DEF RequestsOK, Goto, Busy, Steps
  <2>3. built[c] = {} /\ Named \in seen[c]
    BY <1>1, <1>4 DEF RequestsOK, Tracked, Busy
  <2>4. ToolsOf(listed) = Named /\ ToolsOf(built[c]) = {}
    <3>1. \A t \in Named : [tool |-> t, of |-> endpoints[t]] \in listed
      OBVIOUS
    <3>2. Named \subseteq ToolsOf(listed)
      <4>1. SUFFICES ASSUME NEW t \in Named PROVE \E e \in listed : e.tool = t
        BY DEF ToolsOf
      <4>2. WITNESS [tool |-> t, of |-> endpoints[t]] \in listed
      <4>3. QED
        OBVIOUS
    <3>3. ToolsOf(listed) \subseteq Named
      BY DEF ToolsOf
    <3>4. QED
      BY <2>3, <3>2, <3>3 DEF ToolsOf
  <2>5. ToolsOf(todo'[c]) \cup ToolsOf(built'[c]) \in seen'[c]
    BY <1>1, <1>4, <2>3, <2>4 DEF RequestsOK
  <2>6. Tracked'
    BY <1>1, <1>2, <1>4, <2>3, <2>5 DEF Tracked, RequestsOK, Goto, Busy, ToolsOf
  <2>7. QED
    BY <1>2, <2>2, <2>6, TypeParts DEF IInv
<1>5. QED
  BY <1>3, <1>4 DEF ListEndpoints

LEMMA OneMoreTool ==
  ASSUME NEW S, NEW x
  PROVE  ToolsOf(S \cup {x}) = ToolsOf(S) \cup {x.tool}
BY DEF ToolsOf

(* A row that becomes a tool keeps its name among those of the request.     *)
LEMMA AddToolKeeps ==
  ASSUME IInv, NEW c \in Clients, NEW e \in todo[c], AddTool(c, e)
  PROVE  IInv'
<1> DEFINE fields == datasets[e.of.dataset]
           made == [tool |-> e.tool, params |-> Params(e.of, fields), required |-> Required(e.of)]
<1>1. ServerOK /\ RequestsOK /\ Tracked
  BY TypeParts DEF IInv
<1>2. ServerOK' /\ Named' = Named
  BY <1>1 DEF AddTool, server, ServerOK, Named, Stored
<1>3. /\ step[c] = "build"
      /\ todo' = [todo EXCEPT ![c] = todo[c] \ {e}]
      /\ built' = [built EXCEPT ![c] = built[c] \cup {made}]
      /\ UNCHANGED <<step, ask, sent, seen>>
  BY DEF AddTool
<1>4. e \in [tool : Tools, of : Supported]
  BY <1>1 DEF RequestsOK
<1>5. made \in [tool : Tools, params : SUBSET Names, required : SUBSET Names]
  <2>1. e.of.dataset \in Ids /\ e.of \in Supported
    BY <1>4 DEF Supported, EndpointRows
  <2>2. fields \in SUBSET Names
    BY <1>1, <2>1 DEF AddTool, Stored, ServerOK
  <2>3. QED
    BY <1>4, <2>1, <2>2, ParamsAreNames
<1>6. RequestsOK'
  BY <1>1, <1>3, <1>5 DEF RequestsOK, Busy
<1>7. ToolsOf(todo'[c]) \cup ToolsOf(built'[c]) = ToolsOf(todo[c]) \cup ToolsOf(built[c])
  <2>1. todo'[c] = todo[c] \ {e} /\ built'[c] = built[c] \cup {made}
    BY <1>1, <1>3 DEF RequestsOK
  <2>2. ToolsOf(built'[c]) = ToolsOf(built[c]) \cup {e.tool}
    <3>1. made.tool = e.tool
      OBVIOUS
    <3> HIDE DEF made
    <3>2. ToolsOf(built[c] \cup {made}) = ToolsOf(built[c]) \cup {made.tool}
      BY OneMoreTool
    <3>3. QED
      BY <2>1, <3>1, <3>2
  <2>3. ToolsOf(todo'[c]) \cup {e.tool} = ToolsOf(todo[c])
    BY <2>1 DEF ToolsOf
  <2>4. QED
    BY <2>2, <2>3
<1>8. Tracked'
  <2>1. SUFFICES ASSUME NEW o \in Clients
                 PROVE  /\ Busy(o)' => Named' \in seen'[o]
                        /\ step'[o] \in {"build", "serve", "call"} =>
                             ToolsOf(todo'[o]) \cup ToolsOf(built'[o]) \in seen'[o]
    BY DEF Tracked, ToolsOf
  <2>2. Busy(o)' => Named' \in seen'[o]
    BY <1>1, <1>2, <1>3 DEF Tracked, Busy
  <2>3. CASE o = c
    BY <1>1, <1>3, <1>7, <2>2, <2>3 DEF Tracked
  <2>4. CASE o # c
    <3>1. todo'[o] = todo[o] /\ built'[o] = built[o]
      BY <1>1, <1>3, <2>4 DEF RequestsOK
    <3>2. QED
      BY <1>1, <1>3, <2>2, <3>1 DEF Tracked
  <2>5. QED
    BY <2>3, <2>4
<1>9. QED
  BY <1>2, <1>6, <1>8, TypeParts DEF IInv

LEMMA BuiltKeeps ==
  ASSUME IInv, NEW c \in Clients, Built(c)
  PROVE  IInv'
<1>1. ServerOK /\ RequestsOK /\ Tracked
  BY TypeParts DEF IInv
<1>2. ServerOK' /\ Named' = Named
  BY <1>1 DEF Built, server, ServerOK, Named, Stored
<1>3. RequestsOK'
  BY <1>1 DEF Built, RequestsOK, Goto, Busy, Steps
<1>4. Tracked'
  BY <1>1, <1>2 DEF Built, Tracked, RequestsOK, Goto, Busy, ToolsOf
<1>5. QED
  BY <1>2, <1>3, <1>4, TypeParts DEF IInv

LEMMA AcceptKeeps ==
  ASSUME IInv, NEW c \in Clients, Accept(c)
  PROVE  IInv'
<1>1. ServerOK /\ RequestsOK /\ Tracked
  BY TypeParts DEF IInv
<1>2. ServerOK' /\ Named' = Named
  BY <1>1 DEF Accept, server, ServerOK, Named, Stored
<1>3. PICK t \in built[c] : sent' = [sent EXCEPT ![c] = ask[c].args \cap t.params]
  BY DEF Accept, Asked
<1>4. ask[c].args \cap t.params \in SUBSET Names
  BY <1>1 DEF RequestsOK
<1>5. RequestsOK'
  BY <1>1, <1>3, <1>4 DEF Accept, RequestsOK, Goto, Busy, Steps
<1>6. Tracked'
  BY <1>1, <1>2 DEF Accept, Tracked, RequestsOK, Goto, Busy, ToolsOf
<1>7. QED
  BY <1>2, <1>5, <1>6, TypeParts DEF IInv

-------------------------------------------------------------------------------
(* The endings.                                                             *)
LEMMA EndingKeeps ==
  ASSUME IInv, NEW c \in Clients, UNCHANGED server,
         NEW how \in Steps \ {"begin", "list", "build", "serve", "call"}, End(c, how)
  PROVE  IInv'
<1>1. ServerOK /\ RequestsOK /\ Tracked
  BY TypeParts DEF IInv
<1>2. ServerOK' /\ Named' = Named
  BY <1>1 DEF server, ServerOK, Named, Stored
<1>3. RequestsOK' /\ Tracked'
  BY <1>1, <1>2, EndTracks
<1>4. QED
  BY <1>2, <1>3, TypeParts DEF IInv

LEMMA RunKeeps ==
  ASSUME IInv, NEW c \in Clients, Run(c)
  PROVE  IInv'
<1> DEFINE e == endpoints[ask[c].tool]
           fields == datasets[e.dataset]
<1>1. ServerOK /\ RequestsOK /\ Tracked
  BY TypeParts DEF IInv
<1>2. ask[c].tool \in Named /\ e.dataset \in Stored
  BY <1>1 DEF Run, ServerOK
<1>3. e.dataset \in Ids /\ fields \in SUBSET Names
  BY <1>1, <1>2 DEF Stored, ServerOK
<1>4. PICK after \in After(e, fields, sent[c]) :
        datasets' = [datasets EXCEPT ![e.dataset] = after]
  BY DEF Run
<1>5. after \in SUBSET Names
  <2>1. sent[c] \in SUBSET Names /\ IdField \in Names
    BY <1>1, McpAssumption DEF RequestsOK
  <2>2. CASE e.type = "create"
    BY <1>3, <1>4, <2>1, <2>2 DEF After
  <2>3. CASE e.type = "delete"
    BY <1>3, <1>4, <2>3 DEF After
  <2>4. CASE e.type \notin {"create", "delete"}
    BY <1>3, <1>4, <2>4 DEF After
  <2>5. QED
    BY <2>2, <2>3, <2>4
<1>6. after # Absent
  BY <1>5, McpAssumption
<1>7. UNCHANGED <<alive, endpoints>> /\ End(c, "ran")
  BY DEF Run
<1>8. Named' = Named
  BY <1>7 DEF Named
<1>9. ServerOK'
  <2>1. Stored \subseteq Stored'
    BY <1>1, <1>4, <1>6 DEF Stored, ServerOK
  <2>2. alive
    BY <1>1, <1>2 DEF ServerOK
  <2>3. QED
    BY <1>1, <1>4, <1>5, <1>7, <1>8, <2>1, <2>2 DEF ServerOK
<1>10. RequestsOK' /\ Tracked'
  BY <1>1, <1>7, <1>8, EndTracks DEF Steps
<1>11. QED
  BY <1>9, <1>10, TypeParts DEF IInv

-------------------------------------------------------------------------------
LEMMA ServeKeeps ==
  ASSUME IInv, NEW c \in Clients, Serve(c, Asks)
  PROVE  IInv'
<1>1. CASE ListTools(c) \/ Reject(c) \/ Missing(c) \/ Refuse(c)
  <2>1. /\ UNCHANGED server
        /\ \E how \in {"listed", "rejected", "missing", "invalid"} : End(c, how)
    BY <1>1 DEF ListTools, Reject, Missing, Refuse
  <2>2. {"listed", "rejected", "missing", "invalid"} \subseteq
          Steps \ {"begin", "list", "build", "serve", "call"}
    BY DEF Steps
  <2>3. QED
    BY <2>1, <2>2, EndingKeeps
<1>2. ASSUME NEW e \in todo[c], AddToolFails(c, e)
      PROVE  IInv'
  <2>1. UNCHANGED server /\ End(c, "error")
    BY <1>2 DEF AddToolFails
  <2>2. "error" \in Steps \ {"begin", "list", "build", "serve", "call"}
    BY DEF Steps
  <2>3. QED
    BY <2>1, <2>2, EndingKeeps
<1>3. QED
  BY <1>1, <1>2, RequestKeeps, FindKeeps, ListEndpointsKeeps, AddToolKeeps,
     BuiltKeeps, AcceptKeeps, RunKeeps DEF Serve

LEMMA EditsKeep ==
  ASSUME IInv, Edits(Shapes, Fields)
  PROVE  IInv'
<1>1. ServerOK
  BY TypeParts DEF IInv
<1>2. ServerOK' /\ Edit
  BY <1>1, EditsKeepServer
<1>3. QED
  BY <1>2, EditTracks, TypeParts DEF IInv

LEMMA StepKeeps == IInv /\ [Next]_vars => IInv'
<1> SUFFICES ASSUME IInv, [Next]_vars PROVE IInv'
  OBVIOUS
<1>1. CASE UNCHANGED vars
  BY <1>1 DEF vars, IInv, TypeOK, Tracked, Named, Stored, Busy, ToolsOf
<1>2. QED
  BY <1>1, ServeKeeps, EditsKeep DEF Next

LEMMA Invariance == Spec => []IInv
BY InitHolds, StepKeeps, PTL DEF Spec

(* Types, and what holds of the server and of the requests at every step:  *)
(* a request never keeps anything of a former one.                         *)
THEOREM TypeCorrect == Spec => []TypeOK
<1>1. IInv => TypeOK
  BY DEF IInv
<1>2. QED
  BY <1>1, Invariance, PTL

(* However the server is edited while its tools are built (dispatch builds *)
(* them for each request), the tools served are all the endpoints of some  *)
(* moment of the request.                                                  *)
THEOREM ServesOneMoment == Spec => []InSync
BY Invariance, TrackedGivesInSync, PTL

-------------------------------------------------------------------------------
(* A client alone.                                                          *)

(* The tool of an endpoint can be built exactly if it can be exposed.       *)
LEMMA BuildableIfExposable ==
  ASSUME NEW e \in Supported, NEW fields \in SUBSET Names
  PROVE  Unbuildable(e, fields) <=> ~Exposable(e, fields)
<1>1. {"limit", "q", "expand"} \cap Unnameable = {}
  BY McpAssumption DEF ReservedParams
<1>2. e.type \in {"list", "search", "get", "create", "update", "delete"} /\ e.type # Nothing
  BY DEF Supported, EndpointRows, Types
<1>3. CASE e.type = "list"
  BY <1>1, <1>2, <1>3 DEF Params, Required, Unbuildable, Exposable, ItemTypes
<1>4. CASE e.type = "search"
  BY <1>1, <1>2, <1>4 DEF Params, Required, Unbuildable, Exposable, ItemTypes
<1>5. CASE e.type = "get"
  BY <1>1, <1>2, <1>5 DEF Params, Required, Unbuildable, Exposable, ItemTypes
<1>6. CASE e.type = "create"
  BY <1>1, <1>2, <1>6 DEF Params, Required, Unbuildable, Exposable, ItemTypes
<1>7. CASE e.type = "update"
  BY <1>1, <1>2, <1>7 DEF Params, Required, Unbuildable, Exposable, ItemTypes
<1>8. CASE e.type = "delete"
  BY <1>1, <1>2, <1>8 DEF Params, Required, Unbuildable, Exposable, ItemTypes
<1>9. QED
  BY <1>2, <1>3, <1>4, <1>5, <1>6, <1>7, <1>8

(* The arguments that a tool takes of a call are good enough for execute.   *)
LEMMA SuitsTheExecutor ==
  ASSUME NEW e \in Supported, NEW fields \in SUBSET Names, NEW args,
         e.param # "expand", Required(e) \subseteq args
  PROVE  ~Invalid(e, fields, args \cap Params(e, fields))
<1> DEFINE taken == args \cap Params(e, fields)
<1>1. "expand" \notin Usable(fields) /\ Usable(fields) \subseteq fields
  BY DEF Usable, ReservedParams
<1>2. e.type \in {"create", "update", "delete"} => "expand" \notin taken
  <2>1. "expand" \notin Required(e)
    BY DEF Required
  <2>2. CASE e.type \in {"create", "update"}
    BY <1>1, <2>1, <2>2 DEF Params
  <2>3. CASE e.type = "delete"
    BY <2>1, <2>3 DEF Params
  <2>4. QED
    BY <2>2, <2>3
<1>3. e.type \in ItemTypes => e.param \in taken \ {"expand"}
  <2>1. e.type \in ItemTypes => Required(e) = {e.param}
    BY DEF Required
  <2>2. Required(e) \subseteq Params(e, fields)
    BY DEF Params
  <2>3. QED
    BY <2>1, <2>2
<1>4. e.type = "create" => taken \subseteq fields
  BY <1>1 DEF Params, Required, ItemTypes
<1>5. e.type = "update" => taken \ {e.param} \subseteq fields
  BY <1>1 DEF Params, Required, ItemTypes
<1>6. e.type # Nothing
  BY DEF Supported
<1>7. QED
  BY <1>2, <1>3, <1>4, <1>5, <1>6 DEF Invalid

(* Between requests, an editor changes what no request has looked at.       *)
LEMMA EditsDisturbNobody ==
  ASSUME NEW c \in Clients, IInv, ~Busy(c), Edits(Shapes, Fields)
  PROVE  UpToDate(c)' /\ step' = step
<1>1. RequestsOK
  BY TypeParts DEF IInv
<1>2. UNCHANGED <<step, ask, todo, built, sent>>
  BY DEF Edits, Edit, SetRows, DeleteDataset, SetEndpoint, BlankEndpoint, DeleteEndpoint,
         DeleteServer
<1>3. todo[c] = {} /\ built[c] = {} /\ step[c] \notin {"list", "build", "serve", "call"}
  BY <1>1 DEF RequestsOK, Busy
<1>4. QED
  BY <1>2, <1>3 DEF UpToDate

(* A request that is over has nothing that could be stale.                  *)
LEMMA EndsUpToDate ==
  ASSUME NEW c \in Clients, IInv,
         NEW how \in Steps \ {"begin", "list", "build", "serve", "call"}, End(c, how)
  PROVE  UpToDate(c)' /\ step'[c] = how
<1>1. RequestsOK
  BY TypeParts DEF IInv
<1>2. step'[c] = how /\ todo'[c] = {} /\ built'[c] = {}
  BY <1>1 DEF End, Goto, RequestsOK
<1>3. QED
  BY <1>2 DEF UpToDate

(* The endpoints that are listed and built, as they are now.                *)
LEMMA WhatIsListed ==
  ASSUME NEW c \in Clients, IInv, UpToDate(c), NEW e \in todo[c]
  PROVE  /\ e.tool \in Named /\ e.of = endpoints[e.tool] /\ e.of \in Supported
         /\ e.of.dataset \in Stored /\ datasets[e.of.dataset] \in SUBSET Names
         /\ Unbuildable(e.of, datasets[e.of.dataset]) <=> ~ExposableNow(e.tool)
<1>1. RequestsOK /\ ServerOK
  BY TypeParts DEF IInv
<1>2. e.tool \in Named /\ e.of = endpoints[e.tool] /\ e.of \in Supported
  BY <1>1 DEF UpToDate, RequestsOK
<1>3. e.of.dataset \in Stored
  BY <1>1, <1>2 DEF ServerOK
<1>4. datasets[e.of.dataset] \in SUBSET Names
  BY <1>1, <1>3 DEF ServerOK, Stored
<1>5. QED
  BY <1>2, <1>3, <1>4, BuildableIfExposable DEF ExposableNow

(* What a step does for what the client is promised.                        *)
Kept(c) == UpToDate(c)' /\ ExposesAllOrNone(c) /\ DeclaresWhatRuns(c)

LEMMA RequestServes ==
  ASSUME NEW c \in Clients, IInv, UpToDate(c), NEW a \in Asks, Request(c, a)
  PROVE  Kept(c)
<1>1. RequestsOK
  BY TypeParts DEF IInv
<1>2. /\ todo[c] = {} /\ built[c] = {} /\ UNCHANGED <<todo, built>> /\ step'[c] = "begin"
      /\ step[c] \notin {"list", "build", "serve", "call"}
  BY <1>1 DEF Request, Goto, RequestsOK, Busy
<1>3. UpToDate(c)'
  BY <1>2 DEF UpToDate
<1>4. QED
  BY <1>2, <1>3 DEF Kept, ExposesAllOrNone, DeclaresWhatRuns

LEMMA FindServes ==
  ASSUME NEW c \in Clients, IInv, UpToDate(c), Find(c)
  PROVE  Kept(c)
<1>1. RequestsOK
  BY TypeParts DEF IInv
<1>2. UpToDate(c)'
  <2>1. CASE End(c, "unknown")
    BY <2>1, EndsUpToDate DEF Steps
  <2>2. CASE step[c] = "begin" /\ alive /\ Goto(c, "list") /\ UNCHANGED <<ask, todo, built, sent, seen>>
    <3>1. todo[c] = {} /\ built[c] = {} /\ UNCHANGED <<todo, built>> /\ step'[c] = "list" /\ alive'
      BY <1>1, <2>2 DEF Find, Goto, RequestsOK, server
    <3>2. QED
      BY <3>1 DEF UpToDate
  <2>3. QED
    BY <2>1, <2>2 DEF Find
<1>3. step[c] = "begin"
  BY DEF Find
<1>4. QED
  BY <1>2, <1>3 DEF Kept, ExposesAllOrNone, DeclaresWhatRuns

LEMMA ListEndpointsServes ==
  ASSUME NEW c \in Clients, IInv, UpToDate(c), ListEndpoints(c)
  PROVE  Kept(c)
<1> DEFINE listed == {[tool |-> t, of |-> endpoints[t]] : t \in Named}
<1>1. RequestsOK
  BY TypeParts DEF IInv
<1>2. step[c] = "list" /\ alive /\ endpoints' = endpoints /\ Named' = Named
  BY DEF ListEndpoints, UpToDate, server, Named
<1>3. CASE (\E t \in Named : endpoints[t].type = Nothing) /\ End(c, "error")
  <2>1. UpToDate(c)'
    BY <1>3, EndsUpToDate DEF Steps
  <2>2. ExposesAllOrNone(c)
    BY <1>2, <1>3 DEF ExposesAllOrNone, ExposableNow, Exposable
  <2>3. QED
    BY <1>2, <2>1, <2>2 DEF Kept, DeclaresWhatRuns
<1>4. CASE todo' = [todo EXCEPT ![c] = listed] /\ Goto(c, "build") /\ UNCHANGED <<ask, built, sent, seen>>
  <2>1. todo'[c] = listed /\ built'[c] = {} /\ step'[c] = "build"
    BY <1>1, <1>2, <1>4 DEF Goto, RequestsOK
  <2>2. \A e \in listed : e.tool \in Named /\ e.of = endpoints[e.tool]
    OBVIOUS
  <2>3. \A t \in Named : \E e \in listed : e.tool = t
    <3>1. SUFFICES ASSUME NEW t \in Named PROVE \E e \in listed : e.tool = t
      OBVIOUS
    <3>2. WITNESS [tool |-> t, of |-> endpoints[t]] \in listed
    <3>3. QED
      OBVIOUS
  <2> HIDE DEF listed
  <2>4. UpToDate(c)'
    BY <1>2, <2>1, <2>2, <2>3 DEF UpToDate
  <2>5. QED
    BY <1>2, <2>1, <2>4 DEF Kept, ExposesAllOrNone, DeclaresWhatRuns
<1>5. QED
  BY <1>2, <1>3, <1>4 DEF ListEndpoints

LEMMA AddToolServes ==
  ASSUME NEW c \in Clients, IInv, UpToDate(c), NEW e \in todo[c], AddTool(c, e)
  PROVE  Kept(c)
<1> DEFINE fields == datasets[e.of.dataset]
           made == [tool |-> e.tool, params |-> Params(e.of, fields), required |-> Required(e.of)]
<1>1. RequestsOK
  BY TypeParts DEF IInv
<1>2. /\ step[c] = "build" /\ todo'[c] = todo[c] \ {e} /\ built'[c] = built[c] \cup {made}
      /\ UNCHANGED <<alive, endpoints, datasets, step>> /\ Named' = Named
      /\ ~Unbuildable(e.of, fields)
  BY <1>1 DEF AddTool, RequestsOK, server, Named
<1>3. e.tool \in Named /\ e.of = endpoints[e.tool] /\ ExposableNow(e.tool)
  BY <1>2, WhatIsListed
<1>4. /\ made.tool = e.tool /\ made.tool \in Named /\ ExposableNow(made.tool)
      /\ made.params = Params(endpoints[made.tool], datasets[endpoints[made.tool].dataset])
      /\ made.required = Required(endpoints[made.tool])
  BY <1>3
<1> HIDE DEF made
<1>5. \A b \in built'[c] :
        /\ b.tool \in Named /\ ExposableNow(b.tool)
        /\ b.params = Params(endpoints[b.tool], datasets[endpoints[b.tool].dataset])
        /\ b.required = Required(endpoints[b.tool])
  BY <1>2, <1>4 DEF UpToDate
<1>6. \A b \in built'[c] :
        /\ b.tool \in Named' /\ ExposableNow(b.tool)'
        /\ b.params = Params(endpoints'[b.tool], datasets'[endpoints'[b.tool].dataset])
        /\ b.required = Required(endpoints'[b.tool])
  BY <1>2, <1>5 DEF ExposableNow
<1>7. \A x \in todo'[c] : x.tool \in Named /\ x.of = endpoints[x.tool]
  BY <1>2 DEF UpToDate
<1>8. \A t \in Named : (\E x \in todo'[c] : x.tool = t) \/ (\E b \in built'[c] : b.tool = t)
  BY <1>2, <1>4 DEF UpToDate
<1>9. UpToDate(c)'
  BY <1>2, <1>6, <1>7, <1>8 DEF UpToDate
<1>10. QED
  BY <1>2, <1>9 DEF Kept, ExposesAllOrNone, DeclaresWhatRuns

LEMMA AddToolFailsServes ==
  ASSUME NEW c \in Clients, IInv, UpToDate(c), NEW e \in todo[c], AddToolFails(c, e)
  PROVE  Kept(c)
<1>1. UpToDate(c)'
  BY EndsUpToDate DEF AddToolFails, Steps
<1>2. step[c] = "build" /\ e.tool \in Named /\ ~ExposableNow(e.tool)
  BY WhatIsListed DEF AddToolFails
<1>3. RequestsOK
  BY TypeParts DEF IInv
<1>4. step'[c] = "error"
  BY <1>3 DEF AddToolFails, End, Goto, RequestsOK
<1>5. QED
  BY <1>1, <1>2, <1>4 DEF Kept, ExposesAllOrNone, DeclaresWhatRuns

LEMMA BuiltServes ==
  ASSUME NEW c \in Clients, IInv, UpToDate(c), Built(c)
  PROVE  Kept(c)
<1>1. RequestsOK
  BY TypeParts DEF IInv
<1>2. /\ UNCHANGED <<alive, endpoints, datasets, todo, built>> /\ Named' = Named
      /\ step[c] = "build" /\ todo[c] = {} /\ step'[c] = "serve"
  BY <1>1 DEF Built, Goto, RequestsOK, server, Named
<1>3. UpToDate(c)'
  BY <1>2 DEF UpToDate, ExposableNow
<1>4. \A t \in Named : \E b \in built[c] : b.tool = t
  BY <1>2 DEF UpToDate
<1>5. \A b \in built[c] : b.tool \in Named /\ ExposableNow(b.tool)
  BY DEF UpToDate
<1>6. ExposesAllOrNone(c)
  BY <1>2, <1>4, <1>5 DEF ExposesAllOrNone
<1>7. QED
  BY <1>2, <1>3, <1>6 DEF Kept, DeclaresWhatRuns

(* The tool that is called, if there is one, declares what its endpoint is. *)
LEMMA WhatIsCalled ==
  ASSUME NEW c \in Clients, IInv, UpToDate(c), step[c] \in {"serve", "call"}, ask[c] # Listing
  PROVE  /\ ask[c].tool \in Named => \E b \in Asked(c) : TRUE
         /\ \A b \in Asked(c) :
              LET e == endpoints[ask[c].tool] IN
              /\ ask[c].tool \in Named /\ e \in Supported /\ datasets[e.dataset] \in SUBSET Names
              /\ b.params = Params(e, datasets[e.dataset]) /\ b.required = Required(e)
              /\ b.required \subseteq ask[c].args <=> Fits(e, ask[c].args)
<1>1. RequestsOK /\ ServerOK
  BY TypeParts DEF IInv
<1>2. todo[c] = {}
  BY <1>1 DEF RequestsOK
<1>3. ask[c].tool \in Named => \E b \in Asked(c) : TRUE
  BY <1>2 DEF UpToDate, Asked
<1>4. ASSUME NEW b \in Asked(c)
      PROVE  LET e == endpoints[ask[c].tool] IN
             /\ ask[c].tool \in Named /\ e \in Supported /\ datasets[e.dataset] \in SUBSET Names
             /\ b.params = Params(e, datasets[e.dataset]) /\ b.required = Required(e)
             /\ b.required \subseteq ask[c].args <=> Fits(e, ask[c].args)
  <2> DEFINE e == endpoints[ask[c].tool]
  <2>1. b \in built[c] /\ b.tool = ask[c].tool
    BY DEF Asked
  <2>2. /\ ask[c].tool \in Named /\ ExposableNow(ask[c].tool)
        /\ b.params = Params(e, datasets[e.dataset]) /\ b.required = Required(e)
    BY <2>1 DEF UpToDate
  <2>3. e \in EndpointRows /\ e.dataset \in Stored
    BY <1>1, <2>2 DEF ServerOK, Named
  <2>4. e \in Supported
    BY <2>2, <2>3 DEF ExposableNow, Exposable, Supported
  <2>5. datasets[e.dataset] \in SUBSET Names
    BY <1>1, <2>3 DEF ServerOK, Stored
  <2>6. b.required \subseteq ask[c].args <=> Fits(e, ask[c].args)
    BY <2>2 DEF Required, Fits
  <2>7. QED
    BY <2>2, <2>4, <2>5, <2>6
<1>5. QED
  BY <1>3, <1>4

LEMMA RejectServes ==
  ASSUME NEW c \in Clients, IInv, UpToDate(c), Reject(c)
  PROVE  Kept(c)
<1>1. UpToDate(c)'
  BY EndsUpToDate DEF Reject, Steps
<1>2. step[c] = "serve" /\ ask[c] # Listing
  BY DEF Reject
<1>3. ~(ask[c].tool \in Named /\ Fits(endpoints[ask[c].tool], ask[c].args))
  BY <1>2, WhatIsCalled DEF Reject
<1>4. RequestsOK
  BY TypeParts DEF IInv
<1>5. step'[c] = "rejected"
  BY <1>4 DEF Reject, End, Goto, RequestsOK
<1>6. QED
  BY <1>1, <1>2, <1>3, <1>5 DEF Kept, ExposesAllOrNone, DeclaresWhatRuns

LEMMA AcceptServes ==
  ASSUME NEW c \in Clients, IInv, UpToDate(c), Accept(c)
  PROVE  Kept(c)
<1>1. RequestsOK
  BY TypeParts DEF IInv
<1>2. /\ UNCHANGED <<alive, endpoints, datasets, todo, built, ask>> /\ Named' = Named
      /\ step'[c] = "call" /\ step[c] = "serve" /\ ask[c] # Listing
  BY <1>1 DEF Accept, Goto, RequestsOK, server, Named
<1>3. PICK b \in Asked(c) :
        b.required \subseteq ask[c].args /\ sent' = [sent EXCEPT ![c] = ask[c].args \cap b.params]
  BY DEF Accept
<1>4. sent'[c] = ask[c].args \cap b.params /\ Asked(c)' = Asked(c)
  BY <1>1, <1>2, <1>3 DEF RequestsOK, Asked
<1>5. UpToDate(c)'
  BY <1>2, <1>3, <1>4 DEF UpToDate, ExposableNow
<1>6. ask[c].tool \in Named /\ Fits(endpoints[ask[c].tool], ask[c].args)
  BY <1>2, <1>3, WhatIsCalled
<1>7. QED
  BY <1>2, <1>5, <1>6 DEF Kept, ExposesAllOrNone, DeclaresWhatRuns

(* Calls, as what the endpoint is now.                                      *)
LEMMA CallServes ==
  ASSUME NEW c \in Clients, IInv, UpToDate(c), Missing(c) \/ Refuse(c) \/ Run(c)
  PROVE  Kept(c)
<1> DEFINE e == endpoints[ask[c].tool]
           fields == datasets[e.dataset]
<1>1. RequestsOK
  BY TypeParts DEF IInv
<1>2. step[c] = "call" /\ \E how \in {"missing", "invalid", "ran"} : End(c, how)
  BY DEF Missing, Refuse, Run
<1>3. PICK b \in Asked(c) : b.required \subseteq ask[c].args /\ sent[c] = ask[c].args \cap b.params
  BY <1>2 DEF UpToDate
<1>4. b.tool \in Named /\ b.tool = ask[c].tool
  BY <1>3 DEF Asked, UpToDate
<1>5. ~Missing(c)
  BY <1>4 DEF Missing
<1>6. ASSUME Refuse(c)
      PROVE  e.param = "expand"
  <2>1. Invalid(e, fields, sent[c])
    BY <1>6 DEF Refuse
  <2>2. e \in Supported /\ fields \in SUBSET Names /\ b.params = Params(e, fields) /\ b.required = Required(e)
    <3>1. ServerOK
      BY TypeParts DEF IInv
    <3>2. ExposableNow(ask[c].tool) /\ b.params = Params(e, fields) /\ b.required = Required(e)
      BY <1>3, <1>4 DEF Asked, UpToDate
    <3>3. e \in EndpointRows /\ e.dataset \in Stored
      BY <1>4, <3>1 DEF ServerOK, Named
    <3>4. QED
      BY <3>1, <3>2, <3>3 DEF ExposableNow, Exposable, Supported, ServerOK, Stored
  <2> HIDE DEF e, fields
  <2>3. QED
    BY <1>3, <2>1, <2>2, SuitsTheExecutor
<1>7. UpToDate(c)'
  BY <1>2, EndsUpToDate DEF Steps
<1>8. step'[c] # "missing" /\ (step'[c] = "invalid" => Refuse(c))
  BY <1>1, <1>5 DEF Missing, Refuse, Run, End, Goto, RequestsOK
<1>9. QED
  BY <1>2, <1>6, <1>7, <1>8 DEF Kept, ExposesAllOrNone, DeclaresWhatRuns

LEMMA ServeKeepsUp ==
  ASSUME NEW c \in Clients, IInv, UpToDate(c), Serve(c, Asks)
  PROVE  Kept(c)
<1>1. CASE ListTools(c)
  <2>1. RequestsOK
    BY TypeParts DEF IInv
  <2>2. step[c] = "serve" /\ step'[c] = "listed"
    BY <1>1, <2>1 DEF ListTools, End, Goto, RequestsOK
  <2>3. UpToDate(c)'
    BY <1>1, EndsUpToDate DEF ListTools, Steps
  <2>4. QED
    BY <2>2, <2>3 DEF Kept, ExposesAllOrNone, DeclaresWhatRuns
<1>2. QED
  BY <1>1, RequestServes, FindServes, ListEndpointsServes, AddToolServes, AddToolFailsServes,
     BuiltServes, RejectServes, AcceptServes, CallServes DEF Serve

-------------------------------------------------------------------------------
(* The scenes of MCMcp keep the invariants.                                 *)
LEMMA SceneSteps ==
  ASSUME NEW client, Clients = {client}, [MCNext]_<<scene, vars, expansion>>
  PROVE  /\ \/ UNCHANGED vars
            \/ Serve(client, Asks)
            \/ Edits(Shapes, Fields)
         /\ scene' = scene
         /\ scene = "one client" =>
              UNCHANGED vars \/ Serve(client, Asks) \/ (~Busy(client) /\ Edits(Shapes, Fields))
<1>1. CASE UNCHANGED <<scene, vars, expansion>>
  BY <1>1
<1>2. CASE MCNext
  <2>1. \A asks \in SUBSET Asks : Serve(client, asks) => Serve(client, Asks)
    BY DEF Serve
  <2>2. \A shapes \in SUBSET Shapes, fieldSets \in SUBSET Fields :
          Edits(shapes, fieldSets) => Edits(Shapes, Fields)
    BY DEF Edits
  <2>3. /\ FewAsks \in SUBSET Asks /\ AsksForOne \in SUBSET Asks
        /\ FewShapes \in SUBSET Shapes /\ FewFields \in SUBSET Fields
    BY DEF FewAsks, AsksForOne, FewShapes, FewFields
  <2>4. CASE scene = "mcp" /\ ((\E c \in Clients : Serve(c, FewAsks)) \/ Edits(FewShapes, FewFields))
    BY <1>2, <2>1, <2>2, <2>3, <2>4 DEF MCNext
  <2>5. CASE /\ scene = "one client"
             /\ \E c \in Clients : Serve(c, AsksForOne) \/ (~Busy(c) /\ Edits(Shapes, Fields))
    BY <1>2, <2>1, <2>3, <2>5 DEF MCNext
  <2>6. CASE scene = "expand" /\ UNCHANGED vars
    BY <1>2, <2>6 DEF MCNext
  <2>7. QED
    BY <1>2, <2>4, <2>5, <2>6 DEF MCNext
<1>3. QED
  BY <1>1, <1>2

(* A client alone gets every endpoint of the server as a tool, or a 500 for *)
(* one that cannot be a tool, for every set of shapes, names and fields;    *)
(* and the calls that pass the signature of a tool are those that execute   *)
(* takes: mcp_builder and executor, which derive the parameters of a tool   *)
(* each in its own way, agree on them.                                      *)
THEOREM Exposed ==
  ASSUME NEW client, Clients = {client}
  PROVE  MCSpec => ExposedAsDeclared
<1> DEFINE Still == IInv /\ (scene = "one client" => UpToDate(client))
           Step == scene = "one client" => \A c \in Clients : ExposesAllOrNone(c) /\ DeclaresWhatRuns(c)
<1>1. MCInit => Still
  <2>1. Init => UpToDate(client)
    BY DEF Init, UpToDate
  <2>2. QED
    BY <2>1, InitHolds DEF MCInit
<1>2. Still /\ [MCNext]_<<scene, vars, expansion>> => Still' /\ [Step]_<<scene, vars, expansion>>
  <2> SUFFICES ASSUME Still, [MCNext]_<<scene, vars, expansion>>
               PROVE  Still' /\ [Step]_<<scene, vars, expansion>>
    OBVIOUS
  <2>1. IInv'
    <3>1. CASE UNCHANGED vars
      BY <3>1, StepKeeps
    <3>2. CASE Serve(client, Asks)
      BY <3>2, ServeKeeps
    <3>3. CASE Edits(Shapes, Fields)
      BY <3>3, EditsKeep
    <3>4. QED
      BY <3>1, <3>2, <3>3, SceneSteps
  <2>2. ASSUME scene = "one client"
        PROVE  UpToDate(client)' /\ ExposesAllOrNone(client) /\ DeclaresWhatRuns(client)
    <3>1. CASE UNCHANGED vars
      <4>1. UpToDate(client)'
        BY <2>2, <3>1 DEF vars, UpToDate, Named, Asked, ExposableNow
      <4>2. step' = step
        BY <3>1 DEF vars
      <4>3. QED
        BY <4>1, <4>2 DEF ExposesAllOrNone, DeclaresWhatRuns
    <3>2. CASE Serve(client, Asks)
      BY <2>2, <3>2, ServeKeepsUp DEF Kept
    <3>3. CASE ~Busy(client) /\ Edits(Shapes, Fields)
      BY <3>3, EditsDisturbNobody DEF ExposesAllOrNone, DeclaresWhatRuns, Busy
    <3>4. QED
      BY <2>2, <3>1, <3>2, <3>3, SceneSteps
  <2>3. scene' = scene
    BY SceneSteps
  <2>4. QED
    BY <2>1, <2>2, <2>3
<1>3. QED
  BY <1>1, <1>2, PTL DEF MCSpec, ExposedAsDeclared

-------------------------------------------------------------------------------
(* Expansion.                                                               *)

LEMMA SameCardinality == \A S : Expands!Cardinality(S) = Cardinality(S)
BY Zenon DEF Expands!Cardinality, Cardinality

LEMMA SeqOf ==
  ASSUME NEW S, NEW s \in Seq(S)
  PROVE  /\ Len(s) \in Nat /\ DOMAIN s = 1 .. Len(s)
         /\ \A i \in DOMAIN s : s[i] \in S /\ i \in Nat
         /\ Expands!RowsIn(s) \subseteq S
BY DEF Expands!RowsIn

(* Every bounded set of positions has a last one.                           *)
LEMMA LastPosition ==
  ASSUME NEW n \in Nat, NEW I, I \subseteq 1 .. n, I # {}
  PROVE  Expands!Max(I) \in I /\ \A i \in I : i <= Expands!Max(I)
<1> DEFINE Left == {n - i : i \in I}
<1>1. Left \subseteq Nat /\ Left # {}
  <2>1. \A i \in I : n - i \in Nat
    OBVIOUS
  <2>2. PICK i \in I : TRUE
    OBVIOUS
  <2>3. QED
    BY <2>1, <2>2
<1> HIDE DEF Left
<1>2. PICK m \in Left : \A l \in Left : ~(<<l, m>> \in OpToRel(<, Nat))
  BY <1>1, NatLessThanWellFounded, WFMin
<1>3. \A l \in Left : ~(l < m)
  BY <1>1, <1>2 DEF OpToRel
<1>4. PICK i \in I : m = n - i
  BY <1>2 DEF Left
<1>5. ASSUME NEW j \in I
      PROVE  i >= j
  <2>1. n - j \in Left /\ ~(n - j < m)
    BY <1>3 DEF Left
  <2>2. QED
    BY <1>4, <2>1
<1>6. Expands!Max(I) \in I /\ \A j \in I : Expands!Max(I) >= j
  BY <1>4, <1>5 DEF Expands!Max
<1>7. QED
  BY <1>6

(* Every position has a rank of its own, and every rank its position.       *)
LEMMA Ranks ==
  ASSUME NEW n \in Nat, NEW I, I \subseteq 1 .. n
  PROVE  /\ IsFiniteSet(I) /\ Cardinality(I) \in Nat
         /\ \A i \in I : Expands!Rank(I, i) \in 0 .. Cardinality(I) - 1
         /\ \A i, h \in I : Expands!Rank(I, i) = Expands!Rank(I, h) => i = h
         /\ \A k \in 0 .. Cardinality(I) - 1 : \E i \in I : Expands!Rank(I, i) = k
<1> DEFINE Below(i) == {j \in I : j < i}
<1>1. IsFiniteSet(1 .. n)
  BY FS_Interval
<1>2. IsFiniteSet(I) /\ Cardinality(I) \in Nat
  BY <1>1, FS_Subset, FS_CardinalityType
<1>3. ASSUME NEW i \in I
      PROVE  /\ IsFiniteSet(Below(i)) /\ Cardinality(Below(i)) \in Nat
             /\ Cardinality(Below(i)) < Cardinality(I)
  <2>1. Below(i) \in SUBSET I /\ Below(i) # I
    OBVIOUS
  <2> HIDE DEF Below
  <2>2. IsFiniteSet(Below(i)) /\ Cardinality(Below(i)) \in Nat
    BY <1>2, <2>1, FS_Subset, FS_CardinalityType
  <2>3. Cardinality(Below(i)) <= Cardinality(I) /\ Cardinality(Below(i)) # Cardinality(I)
    BY <1>2, <2>1, FS_Subset
  <2>4. QED
    BY <1>2, <2>2, <2>3
<1>4. ASSUME NEW i \in I, NEW h \in I, i < h
      PROVE  Cardinality(Below(i)) # Cardinality(Below(h))
  <2>1. \A j \in I : j < i => j < h
    BY <1>4
  <2>2. Below(i) \in SUBSET Below(h)
    BY <2>1
  <2>3. i \in Below(h) /\ i \notin Below(i)
    BY <1>4
  <2> HIDE DEF Below
  <2>4. QED
    BY <1>3, <2>2, <2>3, FS_Subset
<1> DEFINE n0 == Cardinality(I) - 1
           rank == [i \in I |-> Cardinality(Below(i))]
<1>5. \A i \in I : Cardinality(Below(i)) \in 0 .. n0
  <2> HIDE DEF Below
  <2>1. QED
    BY <1>2, <1>3
<1>6. \A i, h \in I : Cardinality(Below(i)) = Cardinality(Below(h)) => i = h
  <2> SUFFICES ASSUME NEW i \in I, NEW h \in I, i # h
               PROVE  Cardinality(Below(i)) # Cardinality(Below(h))
    OBVIOUS
  <2>1. i < h \/ h < i
    OBVIOUS
  <2> HIDE DEF Below
  <2>2. QED
    BY <1>4, <2>1
<1>7. rank \in Injection(I, 0 .. n0)
  <2> HIDE DEF Below, n0
  <2>1. QED
    BY <1>5, <1>6 DEF Injection, IsInjective
<1>8. IsFiniteSet(0 .. n0) /\ Cardinality(0 .. n0) = Cardinality(I)
  <2>1. n0 \in Int /\ n0 >= -1 /\ n0 - 0 + 1 = Cardinality(I) /\ (0 > n0 => Cardinality(I) = 0)
    BY <1>2
  <2> HIDE DEF n0
  <2>2. QED
    BY <2>1, FS_Interval
<1>9. rank \in Surjection(I, 0 .. n0)
  <2> HIDE DEF rank, n0
  <2>1. QED
    BY <1>7, <1>8, FS_Injection
<1>10. \A k \in 0 .. n0 : \E i \in I : Cardinality(Below(i)) = k
  <2> HIDE DEF Below, n0
  <2>1. QED
    BY <1>9 DEF Surjection
<1>11. \A i \in I : Expands!Rank(I, i) = Cardinality(Below(i))
  BY SameCardinality DEF Expands!Rank
<1> HIDE DEF Below
<1>12. QED
  BY <1>2, <1>5, <1>6, <1>10, <1>11

(* Entries is a sequence of what stands at the positions.                   *)
LEMMA EntriesOf ==
  ASSUME NEW S, NEW s \in Seq(S), NEW I, I \subseteq DOMAIN s
  PROVE  /\ Expands!Entries(s, I) \in Seq(S)
         /\ Expands!RowsIn(Expands!Entries(s, I)) = {s[i] : i \in I}
         /\ I = {} => Expands!Entries(s, I) = <<>>
<1> DEFINE n == Cardinality(I)
           at(k) == CHOOSE i \in I : Expands!Rank(I, i) = k - 1
<1>1. Len(s) \in Nat /\ I \subseteq 1 .. Len(s) /\ \A i \in I : s[i] \in S
  OBVIOUS
<1>2. n \in Nat /\ \A i \in I : Expands!Rank(I, i) + 1 \in 1 .. n /\ (Expands!Rank(I, i) + 1) - 1 = Expands!Rank(I, i)
  <2>1. n \in Nat /\ \A i \in I : Expands!Rank(I, i) \in 0 .. n - 1
    BY <1>1, Ranks
  <2> HIDE DEF n
  <2>2. \A a \in 0 .. n - 1 : a + 1 \in 1 .. n /\ (a + 1) - 1 = a
    BY <2>1
  <2>3. QED
    BY <2>1, <2>2
<1>3. \A k \in 1 .. n : at(k) \in I /\ Expands!Rank(I, at(k)) = k - 1
  <2> SUFFICES ASSUME NEW k \in 1 .. n
               PROVE  \E i \in I : Expands!Rank(I, i) = k - 1
    OBVIOUS
  <2>1. k - 1 \in 0 .. n - 1
    BY <1>2
  <2>2. QED
    BY <1>1, <2>1, Ranks
<1>4. \A i \in I : at(Expands!Rank(I, i) + 1) = i
  <2> SUFFICES ASSUME NEW i \in I
               PROVE  at(Expands!Rank(I, i) + 1) = i
    OBVIOUS
  <2>1. at(Expands!Rank(I, i) + 1) \in I /\ Expands!Rank(I, at(Expands!Rank(I, i) + 1)) = Expands!Rank(I, i)
    BY <1>2, <1>3
  <2> HIDE DEF at
  <2>2. QED
    BY <1>1, <2>1, Ranks
<1>5. Expands!Entries(s, I) = [k \in 1 .. n |-> s[at(k)]]
  BY SameCardinality, Zenon DEF Expands!Entries
<1> HIDE DEF at
<1>6. [k \in 1 .. n |-> s[at(k)]] \in Seq(S)
  <2>1. \A k \in 1 .. n : s[at(k)] \in S
    BY <1>1, <1>3
  <2>2. n \in Nat
    BY <1>2
  <2> HIDE DEF n
  <2>3. QED
    BY <2>1, <2>2
<1>7. Expands!RowsIn([k \in 1 .. n |-> s[at(k)]]) = {s[i] : i \in I}
  <2>1. ASSUME NEW i \in I
        PROVE  \E k \in 1 .. n : s[at(k)] = s[i]
    BY <1>2, <1>4
  <2>2. QED
    BY <1>3, <2>1 DEF Expands!RowsIn
<1>8. I = {} => n = 0
  BY FS_EmptySet
<1>9. n = 0 => [k \in 1 .. n |-> s[at(k)]] = <<>>
  OBVIOUS
<1>10. QED
  BY <1>5, <1>6, <1>7, <1>8, <1>9


(* parse_expand keeps every name.                                           *)
LEMMA ParsedOf ==
  ASSUME NEW S, NEW s \in Seq(S)
  PROVE  Expands!Parsed(s) \in Seq(S) /\ Expands!RowsIn(Expands!Parsed(s)) = Expands!RowsIn(s)
<1> DEFINE First == {i \in DOMAIN s : \A j \in 1 .. i - 1 : s[j] # s[i]}
<1>1. Expands!Parsed(s) \in Seq(S) /\ Expands!RowsIn(Expands!Parsed(s)) = {s[i] : i \in First}
  <2>1. First \subseteq DOMAIN s /\ Expands!Parsed(s) = Expands!Entries(s, First)
    BY DEF Expands!Parsed
  <2> HIDE DEF First
  <2>2. QED
    BY <2>1, EntriesOf
<1>2. ASSUME NEW h \in DOMAIN s
      PROVE  \E i \in First : s[i] = s[h]
  <2> DEFINE Same == {i \in DOMAIN s : s[i] = s[h]}
  <2>1. Same \subseteq Nat /\ Same # {}
    BY SeqOf
  <2> HIDE DEF Same
  <2>2. PICK i \in Same : \A j \in Same : ~(<<j, i>> \in OpToRel(<, Nat))
    BY <2>1, NatLessThanWellFounded, WFMin
  <2>3. \A j \in Same : ~(j < i)
    BY <2>1, <2>2 DEF OpToRel
  <2>4. i \in DOMAIN s /\ s[i] = s[h] /\ i \in 1 .. Len(s) /\ Len(s) \in Nat
    BY <2>2, SeqOf DEF Same
  <2>5. ASSUME NEW j \in 1 .. i - 1, s[j] = s[i]
        PROVE  FALSE
    <3>1. j \in 1 .. Len(s) /\ j < i
      BY <2>4
    <3>2. j \in Same
      BY <2>4, <2>5, <3>1, SeqOf DEF Same
    <3>3. QED
      BY <2>3, <3>1, <3>2
  <2>6. QED
    BY <2>4, <2>5
<1>3. {s[i] : i \in First} = {s[i] : i \in DOMAIN s}
  <2>1. First \subseteq DOMAIN s
    OBVIOUS
  <2> HIDE DEF First
  <2>2. QED
    BY <1>2, <2>1
<1>4. QED
  BY <1>1, <1>3 DEF Expands!RowsIn

-------------------------------------------------------------------------------
(* The indexes.                                                             *)

(* A key of a forward index has a row with that key, which is there.        *)
LEMMA ForwardOf ==
  ASSUME NEW s \in Seq(Expands!Row), NEW f, NEW k
  PROVE  /\ k \in DOMAIN Expands!ForwardIndex(s, f) <=>
              \E i \in DOMAIN s : s[i][f] # NoField /\ Str(s[i][f]) = k
         /\ k \in DOMAIN Expands!ForwardIndex(s, f) =>
              \E i \in DOMAIN s : /\ Expands!ForwardIndex(s, f)[k] = s[i]
                                  /\ s[i][f] # NoField /\ Str(s[i][f]) = k
<1> DEFINE I == Expands!Having(s, f)
           A == Expands!At(s, f, I, k)
<1>1. k \in Expands!KeysAt(s, f, I) <=> \E i \in DOMAIN s : s[i][f] # NoField /\ Str(s[i][f]) = k
  BY DEF Expands!KeysAt, Expands!Having
<1>2. DOMAIN Expands!ForwardIndex(s, f) = Expands!KeysAt(s, f, I)
  BY DEF Expands!ForwardIndex
<1>3. ASSUME k \in Expands!KeysAt(s, f, I)
      PROVE  Expands!ForwardIndex(s, f)[k] = s[Expands!Max(A)]
  BY <1>3 DEF Expands!ForwardIndex
<1>4. ASSUME k \in Expands!KeysAt(s, f, I)
      PROVE  Expands!Max(A) \in DOMAIN s /\ s[Expands!Max(A)][f] # NoField /\ Str(s[Expands!Max(A)][f]) = k
  <2>1. A \subseteq DOMAIN s /\ \A i \in A : s[i][f] # NoField /\ Str(s[i][f]) = k
    BY DEF Expands!At, Expands!Having
  <2>2. A # {}
    BY <1>1, <1>4 DEF Expands!At, Expands!Having
  <2> HIDE DEF A
  <2>3. Expands!Max(A) \in A
    BY <2>1, <2>2, SeqOf, LastPosition
  <2>4. QED
    BY <2>1, <2>3
<1> HIDE DEF I, A
<1>5. QED
  BY <1>1, <1>2, <1>3, <1>4

(* An inverse index has under a key all rows with that key.                 *)
LEMMA InverseOf ==
  ASSUME NEW s \in Seq(Expands!Row), NEW f, NEW k
  PROVE  /\ k \in DOMAIN Expands!InverseIndex(s, f) <=>
              \E i \in DOMAIN s : s[i][f] \notin {Null, NoField} /\ Str(s[i][f]) = k
         /\ k \in DOMAIN Expands!InverseIndex(s, f) =>
              Expands!InverseIndex(s, f)[k] =
                Expands!Entries(s, {i \in DOMAIN s : s[i][f] \notin {Null, NoField} /\ Str(s[i][f]) = k})
<1> DEFINE I == Expands!NotNull(s, f)
           A == {i \in DOMAIN s : s[i][f] \notin {Null, NoField} /\ Str(s[i][f]) = k}
<1>1. k \in Expands!KeysAt(s, f, I) <=>
        \E i \in DOMAIN s : s[i][f] \notin {Null, NoField} /\ Str(s[i][f]) = k
  BY DEF Expands!KeysAt, Expands!NotNull
<1>2. DOMAIN Expands!InverseIndex(s, f) = Expands!KeysAt(s, f, I)
  BY DEF Expands!InverseIndex
<1>3. Expands!At(s, f, I, k) = A
  BY DEF Expands!At, Expands!NotNull
<1>4. k \in Expands!KeysAt(s, f, I) => Expands!InverseIndex(s, f)[k] = Expands!Entries(s, Expands!At(s, f, I, k))
  BY DEF Expands!InverseIndex
<1> HIDE DEF I, A
<1>5. k \in Expands!KeysAt(s, f, I) => Expands!InverseIndex(s, f)[k] = Expands!Entries(s, A)
  BY <1>3, <1>4
<1>6. QED
  BY <1>1, <1>2, <1>5 DEF A

-------------------------------------------------------------------------------
(* What available_expands offers.                                           *)

LEMMA SomeOffer ==
  ASSUME rels \in Seq(Expands!Rel), NEW d, NEW n, Expands!Offers(d, n) # {}
  PROVE  Expands!LastOffer(Expands!Offers(d, n)) \in Expands!Offers(d, n)
<1> DEFINE S == Expands!Offers(d, n)
           Better(o) == \A p \in S : \/ p.rel < o.rel
                                     \/ p.rel = o.rel /\ (p = o \/ o.dir = "inverse")
<1> DEFINE R == {o.rel : o \in S}
<1>1. \A o \in S : /\ o.rel \in DOMAIN rels
                   /\ \/ o = [rel |-> o.rel, dir |-> "forward", of |-> rels[o.rel].tgt]
                      \/ o = [rel |-> o.rel, dir |-> "inverse", of |-> rels[o.rel].src]
  BY DEF Expands!Offers, Expands!Live
<1>2. Len(rels) \in Nat /\ R \subseteq 1 .. Len(rels) /\ R # {}
  <2>1. Len(rels) \in Nat /\ DOMAIN rels = 1 .. Len(rels)
    BY SeqOf
  <2> HIDE DEF S
  <2>2. S # {}
    BY DEF S
  <2>3. QED
    BY <1>1, <2>1, <2>2
<1>3. Expands!Max(R) \in R /\ \A i \in R : i <= Expands!Max(R)
  <2> HIDE DEF R
  <2>1. QED
    BY <1>2, LastPosition
<1>4. \E o \in S : Better(o)
  <2> DEFINE m == Expands!Max(R)
  <2>1. m \in Int /\ m \in R /\ \A p \in S : p.rel \in Int /\ p.rel <= m
    <3>1. \A p \in S : p.rel \in R
      OBVIOUS
    <3> HIDE DEF S, R
    <3>2. \A i \in R : i \in Int
      BY <1>2
    <3>3. m \in R /\ \A i \in R : i <= m
      BY <1>3
    <3> HIDE DEF m
    <3>4. QED
      BY <3>1, <3>2, <3>3
  <2> HIDE DEF m, S
  <2>2. CASE \E o \in S : o.rel = m /\ o.dir = "inverse"
    BY <2>1, <2>2
  <2>3. CASE ~ \E o \in S : o.rel = m /\ o.dir = "inverse"
    <3>1. PICK o \in S : o.rel = m
      BY <2>1 DEF R
    <3>2. ASSUME NEW p \in S, p.rel = m
          PROVE  p = o
      BY <1>1, <2>3, <3>1, <3>2
    <3>3. \A p \in S : p.rel < o.rel \/ p = o
      BY <2>1, <3>1, <3>2
    <3>4. QED
      BY <3>3
  <2>4. QED
    BY <2>2, <2>3
<1>5. Expands!LastOffer(S) = CHOOSE o \in S : Better(o)
  BY DEF Expands!LastOffer
<1> HIDE DEF Better, S
<1>6. Expands!LastOffer(S) \in S
  BY <1>4, <1>5
<1>7. QED
  BY <1>6 DEF S

(* What is offered for the dataset that is read is of its relationships.    *)
LEMMA AvailableOf ==
  ASSUME rels \in Seq(Expands!Rel)
  PROVE  \A n \in DOMAIN Expands!Available(expand.base) : Expands!Available(expand.base)[n] \in Expands!Offered
<1> SUFFICES ASSUME NEW n \in DOMAIN Expands!Available(expand.base)
             PROVE  Expands!Available(expand.base)[n] \in Expands!Offered
  OBVIOUS
<1>1. /\ Expands!Offers(expand.base, n) # {}
      /\ Expands!Available(expand.base)[n] = Expands!LastOffer(Expands!Offers(expand.base, n))
  BY DEF Expands!Available
<1>2. Expands!LastOffer(Expands!Offers(expand.base, n)) \in Expands!Offers(expand.base, n)
  BY <1>1, SomeOffer
<1>3. Expands!Offers(expand.base, n) \subseteq Expands!Offered
  BY DEF Expands!Offers, Expands!Offered, Expands!Live
<1>4. QED
  BY <1>1, <1>2, <1>3

(* An offer leads from the dataset that is read to another.                 *)
LEMMA OfferOf ==
  ASSUME Expands!Shaped, NEW o \in Expands!Offered
  PROVE  /\ o.rel \in DOMAIN rels /\ rels[o.rel] \in Expands!Rel
         /\ o.dir \in {"forward", "inverse"} /\ o.of \in Datasets
         /\ o.dir = "forward" => /\ o.of = rels[o.rel].tgt /\ rels[o.rel].src = expand.base
                                 /\ Expands!OwnField(o) = rels[o.rel].srcField
                                 /\ Expands!KeyField(o) = rels[o.rel].tgtField
         /\ o.dir = "inverse" => /\ o.of = rels[o.rel].src /\ rels[o.rel].tgt = expand.base
                                 /\ Expands!OwnField(o) = rels[o.rel].tgtField
                                 /\ Expands!KeyField(o) = rels[o.rel].srcField
<1>1. o.rel \in DOMAIN rels
      /\ \/ o.dir = "forward" /\ o.of = rels[o.rel].tgt /\ rels[o.rel].src = expand.base
         \/ o.dir = "inverse" /\ o.of = rels[o.rel].src /\ rels[o.rel].tgt = expand.base
  BY DEF Expands!Offered
<1>2. rels \in Seq(Expands!Rel)
  BY ExpandsAssumption DEF Expands!ExpandAssumption, Expands!Shaped
<1>3. rels[o.rel] \in Expands!Rel
  BY <1>1, <1>2, SeqOf
<1>4. rels[o.rel].src \in Datasets /\ rels[o.rel].tgt \in Datasets
  BY <1>3 DEF Expands!Rel
<1>5. QED
  BY <1>1, <1>3, <1>4 DEF Expands!OwnField, Expands!KeyField

(* Who agrees with whom depends on what was asked and offered alone.        *)
LEMMA AgreeStays ==
  ASSUME UNCHANGED <<rels, expand, avail>>
  PROVE  \A n : Expands!Agree(n)' <=> Expands!Agree(n)
BY DEF Expands!Agree, Expands!Asked, Expands!SameIndex, Expands!KeyField

-------------------------------------------------------------------------------
(* The invariant, step by step.                                             *)

LEMMA WithOf ==
  ASSUME NEW f, NEW x, NEW y
  PROVE  /\ DOMAIN Expands!With(f, x, y) = DOMAIN f \cup {x}
         /\ Expands!With(f, x, y)[x] = y
         /\ \A z \in DOMAIN f \ {x} : Expands!With(f, x, y)[z] = f[z]
BY DEF Expands!With

LEMMA EmptyOf ==
  DOMAIN Expands!Empty = {} /\ Expands!RowsIn(<<>>) = {} /\ \A S : <<>> \in Seq(S)
BY DEF Expands!Empty, Expands!RowsIn

LEMMA RowsOf ==
  ASSUME Expands!TypeOK, Expands!Shaped, NEW d \in Datasets
  PROVE  /\ rows[d] \in Seq(Expands!Row) /\ expand_seen[d] \subseteq Expands!Row
         /\ \A i \in DOMAIN rows[d] : rows[d][i] \in expand_seen[d]
<1>1. rows[d] \in Seq(Expands!Row) /\ expand_seen[d] \subseteq Expands!Row
  BY DEF Expands!TypeOK, Expands!Shaped
<1>2. Expands!RowsIn(rows[d]) \subseteq expand_seen[d]
  BY DEF Expands!Shaped
<1>3. QED
  BY <1>1, <1>2 DEF Expands!RowsIn

LEMMA ReadOf ==
  ASSUME Expands!Shaped
  PROVE  /\ rels \in Seq(Expands!Rel) /\ expand.base \in Datasets
         /\ Expands!Parsed(expand.names) \in Seq(ExpandNames)
         /\ Expands!RowsIn(Expands!Parsed(expand.names)) = Expands!RowsIn(expand.names)
<1>1. /\ rels \in Seq(Expands!Rel) /\ expand.base \in Datasets
      /\ expand.names \in Seq(ExpandNames)
  BY ExpandsAssumption DEF Expands!ExpandAssumption, Expands!Shaped
<1>2. QED
  BY <1>1, ParsedOf

(* A request starts with nothing read.                                      *)
LEMMA ExpandsInit ==
  ASSUME Expands!Init
  PROVE  Expands!IInv
<1>1. rows \in [Datasets -> Seq(Expands!Row)]
  BY ExpandsAssumption DEF Expands!ExpandAssumption, Expands!Init
<1>2. Expands!TypeOK
  BY <1>1 DEF Expands!TypeOK, Expands!Init
<1>3. Expands!Shaped
  <2>1. \A d \in Datasets : Expands!RowsIn(rows[d]) \subseteq Expands!Row
    BY <1>1, SeqOf
  <2>2. expand_seen \in [Datasets -> SUBSET Expands!Row]
        /\ \A d \in Datasets : expand_seen[d] = Expands!RowsIn(rows[d])
    BY <2>1 DEF Expands!Init
  <2>3. DOMAIN avail = {} /\ given = <<>> /\ expand_todo = <<>> /\ out = <<>>
    BY EmptyOf DEF Expands!Init
  <2>4. QED
    BY <2>2, <2>3, EmptyOf DEF Expands!Init, Expands!Shaped
<1>4. Expands!Progress
  BY DEF Expands!Progress, Expands!Init
<1>5. DOMAIN avail = {} /\ DOMAIN out = {}
  BY EmptyOf DEF Expands!Init
<1>6. Expands!IndexesHold /\ Expands!NothingMixedUp
  BY <1>5 DEF Expands!IndexesHold, Expands!NothingMixedUp
<1>7. Expands!Undisturbed
  BY <1>5 DEF Expands!Undisturbed, Expands!Init
<1>8. QED
  BY <1>2, <1>3, <1>4, <1>6, <1>7 DEF Expands!IInv

LEMMA StartKeeps ==
  ASSUME Expands!IInv, Expands!Start
  PROVE  Expands!IInv'
<1>1. Expands!TypeOK /\ Expands!Shaped /\ Expands!Progress /\ Expands!Undisturbed
  BY DEF Expands!IInv
<1>2. /\ rels \in Seq(Expands!Rel) /\ expand.base \in Datasets
      /\ Expands!Parsed(expand.names) \in Seq(ExpandNames)
      /\ rows[expand.base] \in Seq(Expands!Row)
  BY <1>1, ReadOf, RowsOf
<1>3. /\ UNCHANGED <<rels, gone, rows, expand, forward, inverse, expand_seen, changes>>
      /\ given' = rows[expand.base] /\ avail' = Expands!Available(expand.base)
      /\ expand_todo' = Expands!Parsed(expand.names)
      /\ out' = [i \in DOMAIN rows[expand.base] |-> Expands!Empty]
      /\ expand_step = "start"
  BY DEF Expands!Start
<1>4. expand_step' \in {"index", "refused"}
      /\ (expand_step' = "index" => Expands!RowsIn(expand_todo') \subseteq DOMAIN avail')
  BY DEF Expands!Start, Expands!RowsIn
<1>5. DOMAIN out' = DOMAIN given' /\ \A i \in DOMAIN out' : DOMAIN out'[i] = {}
  BY <1>3, EmptyOf
<1>6. forward = Expands!Empty /\ inverse = Expands!Empty
  BY <1>1, <1>3 DEF Expands!Progress
<1>7. Expands!TypeOK'
  BY <1>1, <1>3, <1>4, <1>5 DEF Expands!TypeOK
<1>8. Expands!Shaped'
  <2>1. \A n \in DOMAIN avail' : avail'[n] \in Expands!Offered
    BY <1>2, <1>3, AvailableOf
  <2>2. Expands!Offered' = Expands!Offered
    BY <1>3 DEF Expands!Offered
  <2>3. QED
    BY <1>1, <1>2, <1>3, <1>5, <2>1, <2>2 DEF Expands!Shaped
<1>9. Expands!Progress'
  <2>1. Expands!RowsIn(Expands!Parsed(expand'.names)) = Expands!RowsIn(expand_todo')
    BY <1>3
  <2>2. QED
    BY <1>4, <1>5, <2>1 DEF Expands!Progress
<1>10. Expands!IndexesHold' /\ Expands!NothingMixedUp'
  <2>1. Expands!NothingMixedUp'
    BY <1>5 DEF Expands!NothingMixedUp
  <2>2. \A n \in DOMAIN avail' : DOMAIN Expands!IndexOf(Expands!CacheOf(avail[n]), avail[n].of)' = {}
    BY <1>3, <1>6, EmptyOf DEF Expands!IndexOf, Expands!CacheOf
  <2>3. QED
    BY <2>1, <2>2 DEF Expands!IndexesHold
<1>11. Expands!Undisturbed'
  <2>1. changes = 0 => gone = {}
    BY <1>1 DEF Expands!Undisturbed
  <2>2. \A n \in DOMAIN avail' : DOMAIN Expands!CacheOf(avail[n])' = {}
    BY <1>3, <1>6, EmptyOf DEF Expands!CacheOf
  <2>3. QED
    BY <1>3, <1>5, <2>1, <2>2 DEF Expands!Undisturbed
<1>12. QED
  BY <1>7, <1>8, <1>9, <1>10, <1>11 DEF Expands!IInv

(* What an index has under its keys, when it is built from the rows.        *)
LEMMA IndexOfRows ==
  ASSUME Expands!TypeOK, Expands!Shaped, NEW o \in Expands!Offered, NEW k
  PROVE  /\ k \in DOMAIN Expands!ForwardIndex(rows[o.of], Expands!KeyField(o)) =>
              /\ Expands!ForwardIndex(rows[o.of], Expands!KeyField(o))[k] \in expand_seen[o.of]
              /\ Expands!Keyed(Expands!ForwardIndex(rows[o.of], Expands!KeyField(o))[k], o, k)
         /\ k \in DOMAIN Expands!InverseIndex(rows[o.of], Expands!KeyField(o)) =>
              /\ Expands!InverseIndex(rows[o.of], Expands!KeyField(o))[k] \in Seq(Expands!Row)
              /\ \A r \in Expands!RowsIn(Expands!InverseIndex(rows[o.of], Expands!KeyField(o))[k]) :
                   r \in expand_seen[o.of] /\ Expands!Keyed(r, o, k) /\ r[Expands!KeyField(o)] # Null
<1> DEFINE s == rows[o.of]
           f == Expands!KeyField(o)
<1>1. s \in Seq(Expands!Row) /\ \A i \in DOMAIN s : s[i] \in expand_seen[o.of]
  BY OfferOf, RowsOf
<1>2. \A r : Expands!Keyed(r, o, k) <=> r[f] # NoField /\ Str(r[f]) = k
  BY DEF Expands!Keyed
<1> HIDE DEF s, f
<1>3. ASSUME k \in DOMAIN Expands!ForwardIndex(s, f)
      PROVE  /\ Expands!ForwardIndex(s, f)[k] \in expand_seen[o.of]
             /\ Expands!Keyed(Expands!ForwardIndex(s, f)[k], o, k)
  <2>1. PICK i \in DOMAIN s : Expands!ForwardIndex(s, f)[k] = s[i] /\ s[i][f] # NoField /\ Str(s[i][f]) = k
    BY <1>1, <1>3, ForwardOf
  <2>2. QED
    BY <1>1, <1>2, <2>1
<1>4. ASSUME k \in DOMAIN Expands!InverseIndex(s, f)
      PROVE  /\ Expands!InverseIndex(s, f)[k] \in Seq(Expands!Row)
             /\ \A r \in Expands!RowsIn(Expands!InverseIndex(s, f)[k]) :
                  r \in expand_seen[o.of] /\ Expands!Keyed(r, o, k) /\ r[f] # Null
  <2> DEFINE I == {i \in DOMAIN s : s[i][f] \notin {Null, NoField} /\ Str(s[i][f]) = k}
  <2>1. Expands!InverseIndex(s, f)[k] = Expands!Entries(s, I)
    BY <1>1, <1>4, InverseOf
  <2>2. I \subseteq DOMAIN s /\ \A i \in I : s[i][f] \notin {Null, NoField} /\ Str(s[i][f]) = k
    OBVIOUS
  <2> HIDE DEF I
  <2>3. Expands!Entries(s, I) \in Seq(Expands!Row) /\ Expands!RowsIn(Expands!Entries(s, I)) = {s[i] : i \in I}
    BY <1>1, <2>2, EntriesOf
  <2>4. \A i \in I : s[i] \in expand_seen[o.of] /\ Expands!Keyed(s[i], o, k) /\ s[i][f] # Null
    BY <1>1, <1>2, <2>2
  <2>5. QED
    BY <2>1, <2>3, <2>4
<1>5. QED
  BY <1>3, <1>4 DEF s, f

LEMMA BuildIndexKeeps ==
  ASSUME Expands!IInv, Expands!BuildIndex
  PROVE  Expands!IInv'
<1>1. Expands!TypeOK /\ Expands!Shaped /\ Expands!Progress /\ Expands!IndexesHold /\ Expands!NothingMixedUp /\ Expands!Undisturbed
  BY DEF Expands!IInv
<1>2. /\ UNCHANGED <<rels, gone, rows, expand, expand_step, given, avail, out, expand_seen, changes>>
      /\ expand_step = "index" /\ expand_todo # <<>> /\ expand_todo' = Tail(expand_todo)
  BY DEF Expands!BuildIndex
<1> DEFINE h == Head(expand_todo)
           p == avail[h]
           fresh == IF p.rel \in gone THEN Expands!Empty
                    ELSE IF p.dir = "forward" THEN Expands!ForwardIndex(rows[p.of], Expands!KeyField(p))
                    ELSE Expands!InverseIndex(rows[p.of], Expands!KeyField(p))
           names == Expands!RowsIn(Expands!Parsed(expand.names))
<1>3. /\ expand_todo' \in Seq(ExpandNames)
      /\ Expands!RowsIn(expand_todo) = Expands!RowsIn(expand_todo') \cup {h}
  <2>1. expand_todo \in Seq(ExpandNames) /\ expand_todo # <<>>
    BY <1>1, <1>2 DEF Expands!Shaped
  <2>2. \A i \in DOMAIN expand_todo :
          i = 1 \/ (i - 1 \in DOMAIN Tail(expand_todo) /\ expand_todo[i] = Tail(expand_todo)[i - 1])
    BY <2>1
  <2>3. \A i \in DOMAIN Tail(expand_todo) :
          i + 1 \in DOMAIN expand_todo /\ Tail(expand_todo)[i] = expand_todo[i + 1]
    BY <2>1
  <2>4. 1 \in DOMAIN expand_todo /\ h = expand_todo[1]
    BY <2>1
  <2>5. Expands!RowsIn(expand_todo) \subseteq Expands!RowsIn(Tail(expand_todo)) \cup {h}
    <3>1. \A i \in DOMAIN expand_todo :
            expand_todo[i] \in {Tail(expand_todo)[j] : j \in DOMAIN Tail(expand_todo)} \cup {h}
      BY <2>2, <2>4
    <3>2. QED
      BY <3>1 DEF Expands!RowsIn
  <2>6. Expands!RowsIn(Tail(expand_todo)) \cup {h} \subseteq Expands!RowsIn(expand_todo)
    BY <2>3, <2>4 DEF Expands!RowsIn
  <2>7. Tail(expand_todo) \in Seq(ExpandNames)
    BY <2>1
  <2>8. QED
    BY <1>2, <2>5, <2>6, <2>7
<1>4. h \in names /\ names \subseteq DOMAIN avail /\ h \in DOMAIN avail /\ p \in Expands!Offered
  BY <1>1, <1>2, <1>3 DEF Expands!Progress, Expands!Shaped
<1>5. ASSUME NEW o \in Expands!Offered
      PROVE  IF o.dir = p.dir /\ p.of \notin DOMAIN Expands!CacheOf(p)
               THEN Expands!CacheOf(o)' = Expands!With(Expands!CacheOf(o), p.of, fresh)
               ELSE Expands!CacheOf(o)' = Expands!CacheOf(o)
  <2>1. o.dir \in {"forward", "inverse"} /\ p.dir \in {"forward", "inverse"}
    BY <1>1, <1>4, OfferOf
  <2>2. /\ Expands!CacheOf(o) = IF o.dir = "forward" THEN forward ELSE inverse
        /\ Expands!CacheOf(o)' = IF o.dir = "forward" THEN forward' ELSE inverse'
        /\ Expands!CacheOf(p) = IF p.dir = "forward" THEN forward ELSE inverse
    BY DEF Expands!CacheOf
  <2>3. CASE p.dir = "forward"
    <3>1. /\ forward' = IF p.of \in DOMAIN forward THEN forward
                        ELSE Expands!With(forward, p.of, fresh)
          /\ inverse' = inverse
      BY <2>3 DEF Expands!BuildIndex
    <3> HIDE DEF p, fresh
    <3>2. QED
      BY <2>1, <2>2, <2>3, <3>1
  <2>4. CASE p.dir = "inverse"
    <3>1. /\ inverse' = IF p.of \in DOMAIN inverse THEN inverse
                        ELSE Expands!With(inverse, p.of, fresh)
          /\ forward' = forward
      BY <2>4 DEF Expands!BuildIndex
    <3> HIDE DEF p, fresh
    <3>2. QED
      BY <2>1, <2>2, <2>4, <3>1
  <2> HIDE DEF p
  <2>5. QED
    BY <2>1, <2>3, <2>4
<1> HIDE DEF fresh, p, h, names
<1>6. Expands!TypeOK' /\ Expands!NothingMixedUp'
  <2>1. Expands!TypeOK'
    BY <1>1, <1>2 DEF Expands!TypeOK
  <2>2. Expands!NothingMixedUp'
    BY <1>1, <1>2, AgreeStays DEF Expands!NothingMixedUp
  <2>3. QED
    BY <2>1, <2>2
<1>7. Expands!Shaped'
  <2>1. Expands!Offered' = Expands!Offered
    BY <1>2 DEF Expands!Offered
  <2>2. QED
    BY <1>1, <1>2, <1>3, <2>1 DEF Expands!Shaped
<1>8. \A n \in DOMAIN avail : avail[n] \in Expands!Offered
  BY <1>1 DEF Expands!Shaped
<1>9. ASSUME NEW o \in Expands!Offered
      PROVE  \/ /\ o.dir = p.dir /\ o.of = p.of /\ Expands!CacheOf(o)'[o.of] = fresh
                /\ o.of \in DOMAIN Expands!CacheOf(o)' /\ o.of \notin DOMAIN Expands!CacheOf(o)
             \/ /\ o.of \in DOMAIN Expands!CacheOf(o) <=> o.of \in DOMAIN Expands!CacheOf(o)'
                /\ o.of \in DOMAIN Expands!CacheOf(o) => Expands!CacheOf(o)'[o.of] = Expands!CacheOf(o)[o.of]
  <2>1. CASE o.dir = p.dir /\ p.of \notin DOMAIN Expands!CacheOf(p)
    <3>1. Expands!CacheOf(o)' = Expands!With(Expands!CacheOf(o), p.of, fresh)
      BY <1>5, <2>1
    <3>2. Expands!CacheOf(o) = Expands!CacheOf(p)
      BY <2>1 DEF Expands!CacheOf
    <3> DEFINE old == Expands!CacheOf(o)
               new == Expands!CacheOf(o)'
               d == o.of
               x == p.of
    <3>3. /\ DOMAIN new = DOMAIN old \cup {x} /\ new[x] = fresh
          /\ \A z \in DOMAIN old \ {x} : new[z] = old[z]
      BY <3>1 DEF Expands!With
    <3>4. x \notin DOMAIN old
      BY <2>1, <3>2
    <3> HIDE DEF old, new, d, x
    <3>5. \/ d = x /\ new[d] = fresh /\ d \in DOMAIN new /\ d \notin DOMAIN old
          \/ (d \in DOMAIN old <=> d \in DOMAIN new) /\ (d \in DOMAIN old => new[d] = old[d])
      BY <3>3, <3>4
    <3>6. QED
      BY <2>1, <3>5 DEF old, new, d, x
  <2>2. CASE ~(o.dir = p.dir /\ p.of \notin DOMAIN Expands!CacheOf(p))
    <3>1. Expands!CacheOf(o)' = Expands!CacheOf(o)
      BY <1>5, <2>2
    <3>2. QED
      BY <3>1
  <2>3. QED
    BY <2>1, <2>2
<1>10. ASSUME NEW o \in Expands!Offered, o = p
       PROVE  o.of \in DOMAIN Expands!CacheOf(o)'
  <2>1. Expands!CacheOf(o) = Expands!CacheOf(p) /\ o.dir = p.dir /\ o.of = p.of
    BY <1>10 DEF Expands!CacheOf
  <2>2. CASE p.of \notin DOMAIN Expands!CacheOf(p)
    <3>1. Expands!CacheOf(o)' = Expands!With(Expands!CacheOf(o), p.of, fresh)
      BY <1>5, <2>1, <2>2
    <3>2. QED
      BY <2>1, <3>1 DEF Expands!With
  <2>3. CASE p.of \in DOMAIN Expands!CacheOf(p)
    <3>1. Expands!CacheOf(o)' = Expands!CacheOf(o)
      BY <1>5, <2>1, <2>3
    <3>2. QED
      BY <2>1, <2>3, <3>1
  <2>4. QED
    BY <2>2, <2>3
<1>11. Expands!Progress'
  <2>1. ASSUME NEW n \in names, n \notin Expands!RowsIn(expand_todo')
        PROVE  avail'[n].of \in DOMAIN Expands!CacheOf(avail[n])'
    <3>1. PICK o \in Expands!Offered : o = avail[n]
      BY <1>4, <1>8
    <3>2. o.of \in DOMAIN Expands!CacheOf(o)'
      <4>1. CASE n = h
        BY <1>10, <3>1, <4>1 DEF p
      <4>2. CASE n # h
        <5>1. n \notin Expands!RowsIn(expand_todo)
          BY <1>3, <2>1, <4>2
        <5>2. avail[n].of \in DOMAIN Expands!CacheOf(avail[n])
          BY <1>1, <1>2, <2>1, <5>1 DEF Expands!Progress, names
        <5>3. QED
          BY <1>9, <3>1, <5>2
      <4>3. QED
        BY <4>1, <4>2
    <3>3. QED
      BY <1>2, <3>1, <3>2 DEF Expands!CacheOf
  <2>2. Expands!RowsIn(expand_todo') \subseteq names
    BY <1>1, <1>2, <1>3 DEF Expands!Progress, names
  <2>3. Expands!RowsIn(Expands!Parsed(expand'.names)) = names
    BY <1>2 DEF names
  <2>4. QED
    BY <1>1, <1>2, <1>4, <2>1, <2>2, <2>3 DEF Expands!Progress
<1>12. ASSUME NEW n \in DOMAIN avail, NEW o \in Expands!Offered, o = avail[n],
              o.dir = p.dir, o.of = p.of, Expands!Agree(n)
       PROVE  Expands!KeyField(p) = Expands!KeyField(o)
  <2>1. h \in Expands!Asked
    BY <1>4 DEF Expands!Asked, names
  <2>2. Expands!SameIndex(h, n)
    BY <1>12 DEF Expands!SameIndex, p
  <2>3. QED
    BY <1>12, <2>1, <2>2 DEF Expands!Agree, p
<1>13. ASSUME NEW n \in DOMAIN avail, NEW o \in Expands!Offered, o = avail[n],
              o.dir = p.dir, o.of = p.of, NEW k \in DOMAIN fresh
       PROVE  IF o.dir = "forward"
                THEN fresh[k] \in expand_seen[o.of] /\ (Expands!Agree(n) => Expands!Keyed(fresh[k], o, k))
                ELSE /\ fresh[k] \in Seq(Expands!Row)
                     /\ \A r \in Expands!RowsIn(fresh[k]) :
                          /\ r \in expand_seen[o.of]
                          /\ Expands!Agree(n) => Expands!Keyed(r, o, k) /\ r[Expands!KeyField(o)] # Null
  <2>1. Expands!Agree(n) => Expands!KeyField(p) = Expands!KeyField(o)
    BY <1>12, <1>13
  <2>2. fresh = IF p.dir = "forward" THEN Expands!ForwardIndex(rows[p.of], Expands!KeyField(p))
                ELSE Expands!InverseIndex(rows[p.of], Expands!KeyField(p))
    BY <1>13, EmptyOf DEF fresh
  <2>3. IF p.dir = "forward"
          THEN fresh[k] \in expand_seen[p.of] /\ Expands!Keyed(fresh[k], p, k)
          ELSE /\ fresh[k] \in Seq(Expands!Row)
               /\ \A r \in Expands!RowsIn(fresh[k]) :
                    r \in expand_seen[p.of] /\ Expands!Keyed(r, p, k) /\ r[Expands!KeyField(p)] # Null
    BY <1>1, <1>4, <1>13, <2>2, IndexOfRows
  <2>4. Expands!Agree(n) => \A r : Expands!Keyed(r, p, k) <=> Expands!Keyed(r, o, k)
    BY <2>1 DEF Expands!Keyed
  <2>5. QED
    BY <1>13, <2>1, <2>3, <2>4
<1>14. Expands!IndexesHold'
  <2> SUFFICES ASSUME NEW n \in DOMAIN avail, NEW o \in Expands!Offered, o = avail[n],
                      NEW k \in DOMAIN Expands!IndexOf(Expands!CacheOf(o)', o.of)
               PROVE  LET found == Expands!IndexOf(Expands!CacheOf(o)', o.of)[k] IN
                      IF o.dir = "forward"
                        THEN found \in expand_seen[o.of] /\ (Expands!Agree(n) => Expands!Keyed(found, o, k))
                        ELSE /\ found \in Seq(Expands!Row)
                             /\ \A r \in Expands!RowsIn(found) :
                                  /\ r \in expand_seen[o.of]
                                  /\ Expands!Agree(n) => Expands!Keyed(r, o, k) /\ r[Expands!KeyField(o)] # Null
    <3>1. \A n \in DOMAIN avail' : avail'[n] \in Expands!Offered
      BY <1>2, <1>8
    <3>2. \A o : Expands!KeyField(o)' = Expands!KeyField(o)
      BY <1>2 DEF Expands!KeyField
    <3>3. \A r, o, k : Expands!Keyed(r, o, k)' <=> Expands!Keyed(r, o, k)
      BY <3>2 DEF Expands!Keyed
    <3>4. \A n : Expands!Agree(n)' <=> Expands!Agree(n)
      BY <1>2, AgreeStays
    <3>5. QED
      BY <1>2, <3>1, <3>2, <3>3, <3>4 DEF Expands!IndexesHold, Expands!CacheOf
  <2>1. k \in DOMAIN Expands!CacheOf(o)'[o.of] /\ o.of \in DOMAIN Expands!CacheOf(o)'
        /\ Expands!IndexOf(Expands!CacheOf(o)', o.of) = Expands!CacheOf(o)'[o.of]
    BY EmptyOf DEF Expands!IndexOf
  <2>2. CASE /\ o.dir = p.dir /\ o.of = p.of /\ Expands!CacheOf(o)'[o.of] = fresh
    <3>1. k \in DOMAIN fresh
      BY <2>1, <2>2
    <3>2. QED
      BY <1>13, <2>1, <2>2, <3>1
  <2>3. CASE o.of \in DOMAIN Expands!CacheOf(o) /\ Expands!CacheOf(o)'[o.of] = Expands!CacheOf(o)[o.of]
    <3>1. Expands!IndexOf(Expands!CacheOf(o), o.of) = Expands!CacheOf(o)[o.of]
      BY <2>3 DEF Expands!IndexOf
    <3>2. k \in DOMAIN Expands!IndexOf(Expands!CacheOf(avail[n]), avail[n].of)
      BY <2>1, <2>3, <3>1
    <3>3. QED
      BY <1>1, <2>1, <2>3, <3>1, <3>2 DEF Expands!IndexesHold
  <2>4. QED
    BY <1>9, <2>1, <2>2, <2>3
<1>15. Expands!Undisturbed'
  <2> SUFFICES ASSUME changes = 0
               PROVE  Expands!Undisturbed'
    BY <1>2 DEF Expands!Undisturbed
  <2>1. gone = {} /\ (given = rows[expand.base])
    BY <1>1, <1>2 DEF Expands!Undisturbed
  <2>2. \A i \in DOMAIN out : DOMAIN out[i] = {}
    BY <1>1, <1>2 DEF Expands!Progress
  <2>3. ASSUME NEW n \in DOMAIN avail, NEW o \in Expands!Offered, o = avail[n],
               o.of \in DOMAIN Expands!CacheOf(o)', Expands!Agree(n)
        PROVE  Expands!CacheOf(o)'[o.of] =
                 IF o.dir = "forward" THEN Expands!ForwardIndex(rows[o.of], Expands!KeyField(o))
                 ELSE Expands!InverseIndex(rows[o.of], Expands!KeyField(o))
    <3>1. CASE o.dir = p.dir /\ o.of = p.of /\ Expands!CacheOf(o)'[o.of] = fresh
      <4>1. Expands!KeyField(p) = Expands!KeyField(o)
        BY <1>12, <2>3, <3>1
      <4>2. p.rel \notin gone
        BY <2>1
      <4>3. QED
        BY <3>1, <4>1, <4>2 DEF fresh
    <3>2. CASE o.of \in DOMAIN Expands!CacheOf(o) /\ Expands!CacheOf(o)'[o.of] = Expands!CacheOf(o)[o.of]
      BY <1>1, <2>3, <3>2 DEF Expands!Undisturbed
    <3>3. QED
      BY <1>9, <2>3, <3>1, <3>2
  <2>4. \A n \in DOMAIN avail' :
          LET o == avail'[n] IN
          o.of \in DOMAIN Expands!CacheOf(avail[n])' /\ Expands!Agree(n)' =>
            Expands!CacheOf(avail[n])'[o.of] =
              IF o.dir = "forward" THEN Expands!ForwardIndex(rows'[o.of], Expands!KeyField(avail[n])')
              ELSE Expands!InverseIndex(rows'[o.of], Expands!KeyField(avail[n])')
    BY <1>2, <1>8, <2>3, AgreeStays DEF Expands!CacheOf, Expands!KeyField
  <2>5. QED
    BY <1>2, <2>1, <2>2, <2>4 DEF Expands!Undisturbed
<1>16. QED
  BY <1>6, <1>7, <1>11, <1>14, <1>15 DEF Expands!IInv

(* A step that does not write into an index.                                *)
LEMMA SameIndexes ==
  ASSUME Expands!IndexesHold, UNCHANGED <<rels, expand, avail, forward, inverse, expand_seen>>
  PROVE  Expands!IndexesHold'
<1>1. \A o : /\ Expands!CacheOf(o)' = Expands!CacheOf(o)
             /\ Expands!KeyField(o)' = Expands!KeyField(o)
  BY DEF Expands!CacheOf, Expands!KeyField
<1>2. \A r, o, k : Expands!Keyed(r, o, k)' <=> Expands!Keyed(r, o, k)
  BY <1>1 DEF Expands!Keyed
<1>3. QED
  BY <1>1, <1>2, AgreeStays DEF Expands!IndexesHold

(* A step that only moves the request on, or does nothing.                  *)
LEMMA NothingElse ==
  ASSUME Expands!IInv,
         UNCHANGED <<rels, gone, rows, expand, given, avail, forward, inverse, expand_todo, out,
                     expand_seen, changes>>,
         expand_step' = expand_step \/ (expand_step # "start" /\ expand_step' \in {"attach", "done"}),
         Expands!Progress'
  PROVE  Expands!IInv'
<1>1. Expands!TypeOK'
  BY DEF Expands!IInv, Expands!TypeOK
<1>2. Expands!Shaped'
  BY DEF Expands!IInv, Expands!Shaped, Expands!Offered
<1>3. Expands!IndexesHold'
  <2>1. Expands!IndexesHold
    BY DEF Expands!IInv
  <2>2. QED
    BY <2>1, SameIndexes
<1>4. Expands!NothingMixedUp'
  BY AgreeStays DEF Expands!IInv, Expands!NothingMixedUp
<1>5. Expands!Undisturbed'
  <2> SUFFICES ASSUME changes = 0
               PROVE  Expands!Undisturbed'
    BY DEF Expands!Undisturbed
  <2>1. Expands!Undisturbed
    BY DEF Expands!IInv
  <2>2. \A i \in DOMAIN out : \A n \in DOMAIN out[i] : out[i][n] = Expands!Attached(avail[n], given[i])
    BY <2>1 DEF Expands!Undisturbed
  <2>3. \A i \in DOMAIN out' : \A n \in DOMAIN out'[i] :
          out'[i][n] = Expands!Attached(avail[n], given[i])'
    BY <2>2 DEF Expands!Attached, Expands!OwnField
  <2>4. \A n \in DOMAIN avail' :
          LET o == avail'[n] IN
          o.of \in DOMAIN Expands!CacheOf(avail[n])' /\ Expands!Agree(n)' =>
            Expands!CacheOf(avail[n])'[o.of] =
              IF o.dir = "forward" THEN Expands!ForwardIndex(rows'[o.of], Expands!KeyField(avail[n])')
              ELSE Expands!InverseIndex(rows'[o.of], Expands!KeyField(avail[n])')
    BY <2>1, AgreeStays DEF Expands!Undisturbed, Expands!CacheOf, Expands!KeyField
  <2>5. QED
    BY <2>1, <2>3, <2>4 DEF Expands!Undisturbed
<1>6. QED
  BY <1>1, <1>2, <1>3, <1>4, <1>5 DEF Expands!IInv

LEMMA IndexedKeeps ==
  ASSUME Expands!IInv, Expands!Indexed
  PROVE  Expands!IInv'
<1>1. /\ UNCHANGED <<rels, gone, rows, expand, given, avail, forward, inverse, expand_todo, out,
                     expand_seen, changes>>
      /\ expand_step = "index" /\ expand_todo = <<>> /\ expand_step' = "attach"
  BY DEF Expands!Indexed
<1>2. Expands!Progress'
  BY <1>1 DEF Expands!IInv, Expands!Progress, Expands!CacheOf
<1>3. QED
  BY <1>1, <1>2, NothingElse

(* A cell is null or [], or rows of the index with the key of the row.      *)
LEMMA CellOf ==
  ASSUME Expands!IInv, NEW n \in DOMAIN avail, NEW row, NEW o \in Expands!Offered, o = avail[n]
  PROVE  /\ IF o.dir = "forward" THEN Expands!Attached(o, row) \in Expands!Row \cup {Null}
            ELSE Expands!Attached(o, row) \in Seq(Expands!Row)
         /\ IF o.dir = "forward"
              THEN Expands!Attached(o, row) # Null =>
                     /\ Expands!Attached(o, row) \in expand_seen[o.of]
                     /\ Expands!Agree(n) => Expands!Joins(rels[o.rel], row, Expands!Attached(o, row))
              ELSE \A s \in Expands!RowsIn(Expands!Attached(o, row)) :
                     s \in expand_seen[o.of] /\ (Expands!Agree(n) => Expands!Joins(rels[o.rel], s, row))
<1> DEFINE value == row[Expands!OwnField(o)]
           index == Expands!IndexOf(Expands!CacheOf(o), o.of)
           cell == Expands!Attached(o, row)
           key == Str(value)
<1>1. Expands!TypeOK /\ Expands!Shaped /\ Expands!IndexesHold
  BY DEF Expands!IInv
<1>2. CASE o.rel \in gone \/ value \in {Null, NoField} \/ key \notin DOMAIN index
  <2>1. cell = Expands!NothingThere(o.dir)
    BY <1>2 DEF Expands!Attached, Expands!Lookup, Expands!CacheOf
  <2> HIDE DEF cell
  <2>2. o.dir = "forward" => cell = Null
    BY <2>1 DEF Expands!NothingThere
  <2>3. o.dir # "forward" => cell = <<>>
    BY <2>1 DEF Expands!NothingThere
  <2>4. QED
    BY <2>2, <2>3, EmptyOf DEF cell
<1>3. CASE value \notin {Null, NoField} /\ key \in DOMAIN index /\ o.rel \notin gone
  <2>1. cell = index[key]
    BY <1>3 DEF Expands!Attached, Expands!Lookup, Expands!CacheOf
  <2>2. IF o.dir = "forward"
          THEN cell \in expand_seen[o.of] /\ (Expands!Agree(n) => Expands!Keyed(cell, o, key))
          ELSE /\ cell \in Seq(Expands!Row)
               /\ \A r \in Expands!RowsIn(cell) :
                    /\ r \in expand_seen[o.of]
                    /\ Expands!Agree(n) => Expands!Keyed(r, o, key) /\ r[Expands!KeyField(o)] # Null
    BY <1>1, <1>3, <2>1 DEF Expands!IndexesHold
  <2>3. o.of \in Datasets /\ expand_seen[o.of] \subseteq Expands!Row
    BY <1>1, OfferOf, RowsOf
  <2>4. CASE o.dir = "forward"
    <3>1. Expands!OwnField(o) = rels[o.rel].srcField /\ Expands!KeyField(o) = rels[o.rel].tgtField
      BY <1>1, <2>4, OfferOf
    <3>2. cell \in expand_seen[o.of] /\ (Expands!Agree(n) => Expands!Keyed(cell, o, key))
      BY <2>2, <2>4
    <3> HIDE DEF cell, key
    <3>3. Expands!Agree(n) => Expands!Joins(rels[o.rel], row, cell)
      BY <1>3, <3>1, <3>2 DEF Expands!Keyed, Expands!Joins, key
    <3>4. QED
      BY <2>3, <2>4, <3>2, <3>3 DEF cell
  <2>5. CASE o.dir # "forward"
    <3>1. Expands!OwnField(o) = rels[o.rel].tgtField /\ Expands!KeyField(o) = rels[o.rel].srcField
      BY <1>1, <2>5, OfferOf
    <3>2. /\ cell \in Seq(Expands!Row)
          /\ \A r \in Expands!RowsIn(cell) :
               /\ r \in expand_seen[o.of]
               /\ Expands!Agree(n) => Expands!Keyed(r, o, key) /\ r[Expands!KeyField(o)] # Null
      BY <2>2, <2>5
    <3> HIDE DEF cell, key
    <3>3. \A r \in Expands!RowsIn(cell) : Expands!Agree(n) => Expands!Joins(rels[o.rel], r, row)
      BY <1>3, <3>1, <3>2 DEF Expands!Keyed, Expands!Joins, key
    <3>4. QED
      BY <2>5, <3>2, <3>3 DEF cell
  <2>6. QED
    BY <2>4, <2>5
<1> HIDE DEF cell, key, index, value
<1>4. QED
  BY <1>2, <1>3

LEMMA AttachKeeps ==
  ASSUME Expands!IInv, Expands!Attach
  PROVE  Expands!IInv'
<1>1. Expands!TypeOK /\ Expands!Shaped /\ Expands!Progress /\ Expands!IndexesHold /\ Expands!NothingMixedUp /\ Expands!Undisturbed
  BY DEF Expands!IInv
<1> DEFINE parsed == Expands!Parsed(expand.names)
<1>2. /\ UNCHANGED <<rels, gone, rows, expand, expand_step, given, avail, forward, inverse,
                     expand_todo, expand_seen, changes>>
      /\ expand_step = "attach"
  BY DEF Expands!Attach
<1>3. PICK i \in DOMAIN given, k \in DOMAIN parsed :
        out' = [out EXCEPT ![i] = Expands!With(@, parsed[k], Expands!Attached(avail[parsed[k]], given[i]))]
  BY DEF Expands!Attach
<1> DEFINE m == parsed[k]
           names == Expands!RowsIn(parsed)
           cell == Expands!Attached(avail[m], given[i])
<1>4. m \in names /\ names \subseteq DOMAIN avail /\ avail[m] \in Expands!Offered
  BY <1>1, <1>2 DEF Expands!Progress, Expands!Shaped, Expands!RowsIn
<1> HIDE DEF names, m, parsed, cell
<1>5. DOMAIN out = DOMAIN given /\ i \in DOMAIN out
  BY <1>1 DEF Expands!Shaped
<1>6. out' = [out EXCEPT ![i] = Expands!With(@, m, cell)]
  BY <1>3 DEF m, cell
<1>7. /\ DOMAIN out' = DOMAIN out
      /\ \A j \in DOMAIN out : DOMAIN out'[j] = IF j = i THEN DOMAIN out[i] \cup {m} ELSE DOMAIN out[j]
      /\ \A j \in DOMAIN out : \A n \in DOMAIN out'[j] :
           \/ j = i /\ n = m /\ out'[j][n] = cell
           \/ n \in DOMAIN out[j] /\ out'[j][n] = out[j][n]
  BY <1>5, <1>6 DEF Expands!With
<1>8. PICK o \in Expands!Offered : o = avail[m]
  BY <1>4
<1>9. cell = Expands!Attached(o, given[i])
  BY <1>8 DEF cell
<1>10. m \in DOMAIN avail
  BY <1>4
<1>11. /\ IF o.dir = "forward" THEN cell \in Expands!Row \cup {Null} ELSE cell \in Seq(Expands!Row)
       /\ IF o.dir = "forward"
            THEN cell # Null =>
                   cell \in expand_seen[o.of] /\ (Expands!Agree(m) => Expands!Joins(rels[o.rel], given[i], cell))
            ELSE \A s \in Expands!RowsIn(cell) :
                   s \in expand_seen[o.of] /\ (Expands!Agree(m) => Expands!Joins(rels[o.rel], s, given[i]))
  BY <1>8, <1>9, <1>10, CellOf
<1>12. Expands!TypeOK'
  <2>1. IF avail[m].dir = "forward" THEN cell \in Expands!Row \cup {Null} ELSE cell \in Seq(Expands!Row)
    BY <1>8, <1>11
  <2>2. QED
    BY <1>1, <1>2, <1>7, <2>1 DEF Expands!TypeOK
<1>13. Expands!NothingMixedUp'
  <2>1. \A x : x = m => (Expands!Agree(x) <=> Expands!Agree(m))
    BY DEF Expands!Agree, Expands!SameIndex
  <2>2. \A x : x = m =>
          IF avail[x].dir = "forward"
            THEN cell # Null => /\ cell \in expand_seen[avail[x].of]
                                /\ Expands!Agree(x) => Expands!Joins(rels[avail[x].rel], given[i], cell)
            ELSE \A s \in Expands!RowsIn(cell) :
                   /\ s \in expand_seen[avail[x].of]
                   /\ Expands!Agree(x) => Expands!Joins(rels[avail[x].rel], s, given[i])
    BY <1>8, <1>11, <2>1
  <2>3. QED
    BY <1>1, <1>2, <1>7, <2>2, AgreeStays DEF Expands!NothingMixedUp
<1>14. Expands!Shaped'
  BY <1>1, <1>2, <1>7 DEF Expands!Shaped, Expands!Offered
<1>15. Expands!Progress'
  <2>1. \A j \in DOMAIN out' : DOMAIN out'[j] \subseteq names
    BY <1>1, <1>4, <1>7 DEF Expands!Progress, names, parsed
  <2>2. QED
    BY <1>1, <1>2, <2>1 DEF Expands!Progress, Expands!CacheOf, names, parsed
<1>16. Expands!IndexesHold'
  BY <1>1, <1>2, SameIndexes
<1>17. Expands!Undisturbed'
  <2> SUFFICES ASSUME changes = 0
               PROVE  Expands!Undisturbed'
    BY <1>2 DEF Expands!Undisturbed
  <2>1. \A j \in DOMAIN out : \A n \in DOMAIN out'[j] : out'[j][n] = Expands!Attached(avail[n], given[j])
    BY <1>1, <1>7 DEF Expands!Undisturbed, cell
  <2>2. \A j \in DOMAIN out : \A n \in DOMAIN out'[j] : out'[j][n] = Expands!Attached(avail[n], given[j])'
    BY <1>2, <2>1 DEF Expands!Attached, Expands!OwnField
  <2>3. QED
    BY <1>1, <1>2, <1>7, <2>2, AgreeStays DEF Expands!Undisturbed, Expands!CacheOf, Expands!KeyField
<1>18. QED
  BY <1>12, <1>13, <1>14, <1>15, <1>16, <1>17 DEF Expands!IInv

LEMMA ReturnKeeps ==
  ASSUME Expands!IInv, Expands!Return
  PROVE  Expands!IInv'
<1>1. /\ UNCHANGED <<rels, gone, rows, expand, given, avail, forward, inverse, expand_todo, out,
                     expand_seen, changes>>
      /\ expand_step = "attach" /\ expand_step' = "done"
      /\ \A i \in DOMAIN given : DOMAIN out[i] = Expands!RowsIn(Expands!Parsed(expand.names))
  BY DEF Expands!Return
<1>2. Expands!Progress'
  BY <1>1 DEF Expands!IInv, Expands!Progress, Expands!CacheOf
<1>3. QED
  BY <1>1, <1>2, NothingElse

(* Whatever another request changes.                                        *)
LEMMA ChangeKeeps ==
  ASSUME Expands!IInv, Expands!Change, rows' \in [Datasets -> Seq(Expands!Row)], gone' \subseteq DOMAIN rels
  PROVE  Expands!IInv'
<1>1. Expands!TypeOK /\ Expands!Shaped /\ Expands!Progress /\ Expands!IndexesHold /\ Expands!NothingMixedUp
  BY DEF Expands!IInv
<1>2. /\ UNCHANGED <<rels, expand, expand_step, given, avail, forward, inverse, expand_todo, out>>
      /\ changes' = changes + 1
      /\ expand_seen' = [d \in Datasets |-> expand_seen[d] \cup Expands!RowsIn(rows'[d])]
  BY DEF Expands!Change, Expands!request
<1>3. \A d \in Datasets : /\ expand_seen[d] \subseteq expand_seen'[d]
                          /\ Expands!RowsIn(rows'[d]) \subseteq expand_seen'[d]
                          /\ expand_seen'[d] \subseteq Expands!Row
  <2>1. \A d \in Datasets : Expands!RowsIn(rows'[d]) \subseteq Expands!Row
    BY SeqOf
  <2>2. \A d \in Datasets : expand_seen[d] \subseteq Expands!Row
    BY <1>1 DEF Expands!Shaped
  <2>3. QED
    BY <1>2, <2>1, <2>2
<1>4. Expands!TypeOK'
  BY <1>1, <1>2 DEF Expands!TypeOK
<1>5. Expands!Shaped'
  <2>1. expand_seen' \in [Datasets -> SUBSET Expands!Row]
    BY <1>2, <1>3
  <2>2. changes' \in Nat
    BY <1>1, <1>2 DEF Expands!Shaped
  <2>3. Expands!Offered' = Expands!Offered
    BY <1>2 DEF Expands!Offered
  <2>4. QED
    BY <1>1, <1>2, <1>3, <2>1, <2>2, <2>3 DEF Expands!Shaped
<1>6. Expands!Progress'
  BY <1>1, <1>2 DEF Expands!Progress, Expands!CacheOf
<1>7. \A n \in DOMAIN avail : avail[n].of \in Datasets
  BY <1>1, OfferOf DEF Expands!Shaped
<1>8. Expands!IndexesHold'
  <2>1. \A o : Expands!KeyField(o)' = Expands!KeyField(o)
    BY <1>2 DEF Expands!KeyField
  <2>2. \A r, o, k : Expands!Keyed(r, o, k)' <=> Expands!Keyed(r, o, k)
    BY <2>1 DEF Expands!Keyed
  <2>3. \A n \in DOMAIN avail : expand_seen[avail[n].of] \subseteq expand_seen'[avail[n].of]
    BY <1>3, <1>7
  <2>4. \A n : Expands!Agree(n)' <=> Expands!Agree(n)
    BY <1>2, AgreeStays
  <2>5. \A o : Expands!CacheOf(o)' = Expands!CacheOf(o)
    BY <1>2 DEF Expands!CacheOf
  <2> DEFINE Holds(n, past) ==
               LET o == avail[n]
                   index == Expands!IndexOf(Expands!CacheOf(o), o.of) IN
               \A k \in DOMAIN index :
                 IF o.dir = "forward"
                   THEN index[k] \in past /\ (Expands!Agree(n) => Expands!Keyed(index[k], o, k))
                   ELSE /\ index[k] \in Seq(Expands!Row)
                        /\ \A r \in Expands!RowsIn(index[k]) :
                             /\ r \in past
                             /\ Expands!Agree(n) => Expands!Keyed(r, o, k) /\ r[Expands!KeyField(o)] # Null
  <2>6. \A n \in DOMAIN avail : Holds(n, expand_seen[avail[n].of])
    BY <1>1 DEF Expands!IndexesHold
  <2>7. \A n \in DOMAIN avail : Holds(n, expand_seen'[avail[n].of])
    BY <2>3, <2>6
  <2>8. QED
    BY <1>2, <2>1, <2>2, <2>4, <2>5, <2>7 DEF Expands!IndexesHold
<1>9. Expands!NothingMixedUp'
  <2>1. \A i \in DOMAIN out : \A n \in DOMAIN out[i] : n \in DOMAIN avail
    <3>1. \A i \in DOMAIN out : DOMAIN out[i] \subseteq Expands!RowsIn(Expands!Parsed(expand.names))
      BY <1>1 DEF Expands!Progress
    <3>2. \/ Expands!RowsIn(Expands!Parsed(expand.names)) \subseteq DOMAIN avail
          \/ \A i \in DOMAIN out : DOMAIN out[i] = {}
      BY <1>1 DEF Expands!Progress, Expands!TypeOK
    <3>3. QED
      BY <3>1, <3>2
  <2>2. QED
    BY <1>1, <1>2, <1>3, <1>7, <2>1, AgreeStays DEF Expands!NothingMixedUp
<1>10. Expands!Undisturbed'
  <2>1. changes' # 0
    BY <1>1, <1>2 DEF Expands!Shaped
  <2>2. QED
    BY <2>1 DEF Expands!Undisturbed
<1>11. QED
  BY <1>4, <1>5, <1>6, <1>8, <1>9, <1>10 DEF Expands!IInv

LEMMA OthersKeep ==
  ASSUME Expands!IInv, Expands!DeleteRelationship \/ Expands!DeleteDataset \/ Expands!EditRow
  PROVE  Expands!IInv'
<1>1. Expands!TypeOK
  BY DEF Expands!IInv
<1>2. CASE Expands!DeleteRelationship
  BY <1>1, <1>2, ChangeKeeps DEF Expands!DeleteRelationship, Expands!Live, Expands!TypeOK
<1>3. CASE Expands!DeleteDataset
  <2>1. rows' \in [Datasets -> Seq(Expands!Row)] /\ gone' \subseteq DOMAIN rels
    BY <1>1, <1>3, EmptyOf DEF Expands!DeleteDataset, Expands!TypeOK
  <2>2. QED
    BY <1>3, <2>1, ChangeKeeps DEF Expands!DeleteDataset
<1>4. CASE Expands!EditRow
  <2>1. PICK d \in Datasets, f \in Columns, v \in Values \cup {Null} :
          \E i \in DOMAIN rows[d] : rows' = [rows EXCEPT ![d][i][f] = v]
    BY <1>4 DEF Expands!EditRow
  <2>2. PICK i \in DOMAIN rows[d] : rows' = [rows EXCEPT ![d][i][f] = v]
    BY <2>1
  <2>3. rows \in [Datasets -> Seq(Expands!Row)] /\ rows[d] \in Seq(Expands!Row) /\ rows[d][i] \in Expands!Row
    BY <1>1, SeqOf DEF Expands!TypeOK
  <2>4. [rows[d][i] EXCEPT ![f] = v] \in Expands!Row
    BY <2>3 DEF Expands!Row
  <2>5. [rows[d] EXCEPT ![i] = [rows[d][i] EXCEPT ![f] = v]] \in Seq(Expands!Row)
    BY <2>3, <2>4
  <2>6. rows' \in [Datasets -> Seq(Expands!Row)]
    BY <2>2, <2>3, <2>5
  <2>7. gone' \subseteq DOMAIN rels /\ Expands!Change
    BY <1>1, <1>4 DEF Expands!EditRow, Expands!TypeOK
  <2>8. QED
    BY <2>6, <2>7, ChangeKeeps
<1>5. QED
  BY <1>2, <1>3, <1>4

-------------------------------------------------------------------------------
(* What the invariant says of an answer that nobody disturbed.              *)

LEMMA CellIsJoin ==
  ASSUME Expands!IInv, expand_step = "done", changes = 0, NEW n \in Expands!RowsIn(expand.names),
         Expands!Agree(n), NEW o \in Expands!Offered, o = avail[n], NEW row
  PROVE  /\ o.dir = "inverse" => Expands!Attached(o, row) = Expands!Children(rels[o.rel], row)
         /\ o.dir = "forward" =>
              IF Expands!Parents(rels[o.rel], row) = {} THEN Expands!Attached(o, row) = Null
              ELSE Expands!Attached(o, row) \in Expands!Parents(rels[o.rel], row)
<1>1. Expands!TypeOK /\ Expands!Shaped /\ Expands!Progress /\ Expands!Undisturbed
  BY DEF Expands!IInv
<1>2. gone = {} /\ n \in DOMAIN avail /\ o.of \in DOMAIN Expands!CacheOf(o)
  <2>1. /\ n \in Expands!RowsIn(Expands!Parsed(expand.names)) /\ expand_todo = <<>>
        /\ Expands!RowsIn(expand_todo) = {}
    BY <1>1, ReadOf, EmptyOf DEF Expands!Progress
  <2>2. n \in DOMAIN avail /\ avail[n].of \in DOMAIN Expands!CacheOf(avail[n])
    BY <1>1, <2>1 DEF Expands!Progress
  <2>3. QED
    BY <1>1, <2>2 DEF Expands!Undisturbed
<1> DEFINE s == rows[o.of]
           f == Expands!KeyField(o)
           r == rels[o.rel]
           value == row[Expands!OwnField(o)]
           key == Str(value)
<1>3. s \in Seq(Expands!Row)
  BY <1>1, OfferOf, RowsOf
<1>4. Expands!IndexOf(Expands!CacheOf(o), o.of) =
        IF o.dir = "forward" THEN Expands!ForwardIndex(s, f) ELSE Expands!InverseIndex(s, f)
  BY <1>1, <1>2 DEF Expands!Undisturbed, Expands!IndexOf
<1>5. ASSUME o.dir = "inverse"
      PROVE  Expands!Attached(o, row) = Expands!Children(r, row)
  <2> DEFINE index == Expands!InverseIndex(s, f)
             I == {i \in DOMAIN s : s[i][f] \notin {Null, NoField} /\ Str(s[i][f]) = key}
             J == {i \in DOMAIN rows[r.src] : Expands!Joins(r, rows[r.src][i], row)}
  <2>1. o.of = r.src /\ f = r.srcField /\ Expands!OwnField(o) = r.tgtField /\ o.dir # "forward"
    BY <1>1, <1>5, OfferOf
  <2>2. Expands!Attached(o, row) =
          IF value \in {Null, NoField} THEN <<>> ELSE IF key \in DOMAIN index THEN index[key] ELSE <<>>
    BY <1>2, <1>4, <2>1 DEF Expands!Attached, Expands!NothingThere, Expands!Lookup, Expands!CacheOf
  <2>3. Expands!Children(r, row) =
          IF row[r.tgtField] \in {Null, NoField} THEN <<>> ELSE Expands!Entries(rows[r.src], J)
    BY DEF Expands!Children
  <2>4. value \notin {Null, NoField} => I = J
    BY <2>1 DEF Expands!Joins
  <2>5. key \in DOMAIN index => index[key] = Expands!Entries(s, I)
    BY <1>3, InverseOf
  <2>6. key \notin DOMAIN index => I = {}
    <3> HIDE DEF key, s, f
    <3>1. key \in DOMAIN index <=>
            \E i \in DOMAIN s : s[i][f] \notin {Null, NoField} /\ Str(s[i][f]) = key
      BY <1>3, InverseOf
    <3> HIDE DEF index
    <3>2. QED
      BY <3>1
  <2>7. I = {} => Expands!Entries(s, I) = <<>>
    <3>1. I \subseteq DOMAIN s
      OBVIOUS
    <3> HIDE DEF I
    <3>2. QED
      BY <1>3, <3>1, EntriesOf
  <2>8. value = row[r.tgtField] /\ rows[r.src] = s
    BY <2>1
  <2> HIDE DEF I, J, index, value, key, s, r
  <2>9. QED
    BY <2>2, <2>3, <2>4, <2>5, <2>6, <2>7, <2>8
<1>6. ASSUME o.dir = "forward"
      PROVE  IF Expands!Parents(r, row) = {} THEN Expands!Attached(o, row) = Null
             ELSE Expands!Attached(o, row) \in Expands!Parents(r, row)
  <2> DEFINE index == Expands!ForwardIndex(s, f)
  <2>1. o.of = r.tgt /\ f = r.tgtField /\ Expands!OwnField(o) = r.srcField
    BY <1>1, <1>6, OfferOf
  <2>2. Expands!Attached(o, row) =
          IF value \in {Null, NoField} THEN Null ELSE IF key \in DOMAIN index THEN index[key] ELSE Null
    BY <1>2, <1>4, <1>6 DEF Expands!Attached, Expands!NothingThere, Expands!Lookup, Expands!CacheOf
  <2>3. Expands!Parents(r, row) =
          {s[i] : i \in {j \in DOMAIN s : value \notin {Null, NoField} /\ s[j][f] # NoField
                                          /\ key = Str(s[j][f])}}
    <3>1. \A t : Expands!Joins(r, row, t) <=>
                   value \notin {Null, NoField} /\ t[f] # NoField /\ key = Str(t[f])
      BY <2>1 DEF Expands!Joins
    <3>2. Expands!Parents(r, row) = {t \in {s[i] : i \in DOMAIN s} : Expands!Joins(r, row, t)}
      BY <2>1 DEF Expands!Parents, Expands!RowsIn
    <3> HIDE DEF value, key, s, r, f
    <3>3. QED
      BY <3>1, <3>2
  <2>4. key \in DOMAIN index <=> \E i \in DOMAIN s : s[i][f] # NoField /\ Str(s[i][f]) = key
    BY <1>3, ForwardOf
  <2>5. key \in DOMAIN index =>
          \E i \in DOMAIN s : index[key] = s[i] /\ s[i][f] # NoField /\ Str(s[i][f]) = key
    BY <1>3, ForwardOf
  <2> HIDE DEF index, value, key, s, r, f
  <2>6. CASE value \in {Null, NoField}
    BY <2>2, <2>3, <2>6
  <2>7. CASE value \notin {Null, NoField} /\ key \in DOMAIN index
    BY <2>2, <2>3, <2>5, <2>7
  <2>8. CASE value \notin {Null, NoField} /\ key \notin DOMAIN index
    BY <2>2, <2>3, <2>4, <2>8
  <2>9. QED
    BY <2>6, <2>7, <2>8
<1>7. QED
  BY <1>5, <1>6

LEMMA AnsweredAsDocumented ==
  ASSUME Expands!IInv
  PROVE  Expands!ExpandsAsDocumented /\ Expands!OrphansAreNulls
<1> SUFFICES ASSUME expand_step = "done", changes = 0
             PROVE  Expands!ExpandsAsDocumented /\ Expands!OrphansAreNulls
  BY DEF Expands!ExpandsAsDocumented, Expands!OrphansAreNulls
<1>1. Expands!TypeOK /\ Expands!Shaped /\ Expands!Progress /\ Expands!Undisturbed
  BY DEF Expands!IInv
<1>2. /\ DOMAIN out = DOMAIN given /\ given = rows[expand.base]
      /\ \A i \in DOMAIN given : DOMAIN out[i] = Expands!RowsIn(expand.names)
      /\ \A i \in DOMAIN given : \A n \in Expands!RowsIn(expand.names) :
           out[i][n] = Expands!Attached(avail[n], given[i])
      /\ Expands!RowsIn(expand.names) \subseteq DOMAIN avail
      /\ \A n \in DOMAIN avail : avail[n] \in Expands!Offered
  BY <1>1, ReadOf DEF Expands!Shaped, Expands!Progress, Expands!Undisturbed
<1>3. ASSUME NEW n \in Expands!RowsIn(expand.names), NEW i \in DOMAIN given
      PROVE  /\ avail[n].dir \in {"forward", "inverse"}
             /\ avail[n].dir = "inverse" /\ Expands!Agree(n) =>
                  out[i][n] = Expands!Children(rels[avail[n].rel], given[i])
             /\ avail[n].dir = "forward" => rels[avail[n].rel].src = expand.base
             /\ avail[n].dir = "forward" /\ Expands!Agree(n) =>
                  IF Expands!Parents(rels[avail[n].rel], given[i]) = {} THEN out[i][n] = Null
                  ELSE out[i][n] \in Expands!Parents(rels[avail[n].rel], given[i])
  <2>1. PICK o \in Expands!Offered : o = avail[n]
    BY <1>2
  <2>2. out[i][n] = Expands!Attached(o, given[i])
    BY <1>2, <2>1
  <2>3. o.dir \in {"forward", "inverse"} /\ (o.dir = "forward" => rels[o.rel].src = expand.base)
    BY <1>1, OfferOf
  <2>4. /\ o.dir = "inverse" /\ Expands!Agree(n) => out[i][n] = Expands!Children(rels[o.rel], given[i])
        /\ o.dir = "forward" /\ Expands!Agree(n) =>
             IF Expands!Parents(rels[o.rel], given[i]) = {} THEN out[i][n] = Null
             ELSE out[i][n] \in Expands!Parents(rels[o.rel], given[i])
    BY <2>1, <2>2, CellIsJoin
  <2>5. QED
    BY <2>1, <2>3, <2>4
<1>4. Expands!ExpandsAsDocumented
  BY <1>2, <1>3 DEF Expands!ExpandsAsDocumented
<1>5. Expands!OrphansAreNulls
  <2> SUFFICES ASSUME NEW n \in Expands!RowsIn(expand.names), avail[n].dir = "forward", Expands!Agree(n)
               PROVE  LET r == rels[avail[n].rel] IN
                      Expands!Orphans(r) = {i \in DOMAIN given :
                                        given[i][r.srcField] \notin {Null, NoField} /\ out[i][n] = Null}
    BY <1>1, ReadOf DEF Expands!OrphansAreNulls, Expands!Asked
  <2> DEFINE r == rels[avail[n].rel]
             targets == {Str(t[r.tgtField]) : t \in {u \in Expands!RowsIn(rows[r.tgt]) : u[r.tgtField] # NoField}}
  <2>1. r.tgt \in Datasets
    <3>1. PICK o \in Expands!Offered : o = avail[n]
      BY <1>2
    <3>2. QED
      BY <1>1, <3>1, OfferOf DEF Expands!Rel
  <2>2. Expands!RowsIn(rows[r.tgt]) \subseteq Expands!Row /\ Null \notin Expands!Row
    BY <1>1, <2>1, RowsOf, SeqOf, ExpandsAssumption DEF Expands!ExpandAssumption
  <2>3. ASSUME NEW i \in DOMAIN given
        PROVE  /\ rows[r.src] = given
               /\ given[i][r.srcField] \notin {Null, NoField} =>
                    (Str(given[i][r.srcField]) \notin targets <=> out[i][n] = Null)
    <3>1. /\ r.src = expand.base
          /\ IF Expands!Parents(r, given[i]) = {} THEN out[i][n] = Null
             ELSE out[i][n] \in Expands!Parents(r, given[i])
      BY <1>3
    <3>2. given[i][r.srcField] \notin {Null, NoField} =>
            (Str(given[i][r.srcField]) \in targets <=> Expands!Parents(r, given[i]) # {})
      BY DEF Expands!Parents, Expands!Joins
    <3>3. Null \notin Expands!Parents(r, given[i])
      BY <2>2 DEF Expands!Parents
    <3> HIDE DEF r, targets
    <3>4. QED
      BY <1>2, <3>1, <3>2, <3>3
  <2>4. r.src = expand.base /\ rows[r.src] = given
    <3>1. PICK o \in Expands!Offered : o = avail[n]
      BY <1>2
    <3>2. QED
      BY <1>1, <1>2, <3>1, OfferOf
  <2>5. Expands!Orphans(r) = {i \in DOMAIN given : /\ given[i][r.srcField] \notin {Null, NoField}
                                             /\ Str(given[i][r.srcField]) \notin targets}
    BY <2>4 DEF Expands!Orphans
  <2> HIDE DEF r, targets
  <2>6. Expands!Orphans(r) = {i \in DOMAIN given :
                          given[i][r.srcField] \notin {Null, NoField} /\ out[i][n] = Null}
    BY <2>3, <2>5
  <2>7. QED
    BY <2>6 DEF r
<1>6. QED
  BY <1>4, <1>5

(* While nobody writes, names give the related rows and the integrity       *)
(* report agrees with that, whatever the relationships are, for every name  *)
(* whose index no other name of the request needs by another field; and     *)
(* whoever writes, what is attached are rows of the related dataset, which  *)
(* for those names the relationship joins.                                  *)
THEOREM Expanded == MCSpec => []ExpandsWhatIsRelated
<1> DEFINE Inv == scene = "expand" => Expands!IInv
<1>1. MCInit => Inv
  BY ExpandsInit DEF MCInit
<1>2. Inv /\ [MCNext]_<<scene, vars, expansion>> => Inv'
  <2> SUFFICES ASSUME Inv, [MCNext]_<<scene, vars, expansion>>, scene' = "expand"
               PROVE  Expands!IInv'
    OBVIOUS
  <2>1. scene = "expand" /\ Expands!IInv
    BY DEF MCNext
  <2>2. CASE UNCHANGED expansion
    <3>1. UNCHANGED <<rels, gone, rows, expand, expand_step, given, avail, forward, inverse,
                      expand_todo, out, expand_seen, changes>>
      BY <2>2 DEF expansion
    <3>2. Expands!Progress'
      BY <2>1, <3>1 DEF Expands!IInv, Expands!Progress, Expands!CacheOf
    <3>3. QED
      BY <2>1, <3>1, <3>2, NothingElse
  <2>3. CASE Expands!Next
    BY <2>1, <2>3, StartKeeps, BuildIndexKeeps, IndexedKeeps, AttachKeeps, ReturnKeeps, OthersKeep
       DEF Expands!Next
  <2>4. QED
    BY <2>1, <2>2, <2>3 DEF MCNext, Answered
<1>3. Inv => ExpandsWhatIsRelated
  BY AnsweredAsDocumented DEF ExpandsWhatIsRelated, Expands!IInv
<1>4. QED
  BY <1>1, <1>2, <1>3, PTL DEF MCSpec

===============================================================================
