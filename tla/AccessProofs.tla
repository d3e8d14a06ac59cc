------------------------------ MODULE AccessProofs -----------------------------
(***************************************************************************)
(* Who is let in, for any keys, tokens and requests: NoEntryAfterTheEnd    *)
(* and CredentialsHold, from the inductive invariant IInv.                 *)
(*                                                                         *)
(* And what a call then runs, for all clients, tools, paths and bodies:    *)
(* the most specific route answers, whoever changes endpoints meanwhile;   *)
(* and of a client alone, neither a GET nor a readonly principal runs a    *)
(* tool that writes, and unless an update has blanked a path or a method,  *)
(* all stored shapes are supported and nothing ends in an exception        *)
(* (CallsAreRouted).                                                       *)
(***************************************************************************)
EXTENDS MCAccess, FiniteSetTheorems, WellFoundedInduction, TLAPS

Steps == {"idle", "key", "touch", "session", "purge", "in", "revoke", "cleanup", "login", "logout"}

Entered == {"touch", "in", "revoke"}

(* TypeOK in two parts: the tables, and the requests in progress.          *)
TablesOK ==
  /\ clock \in 0 .. MaxClock
  /\ keys \in [KeyIds -> Key]
  /\ sessions \in [Tokens -> Absent .. MaxClock + TTL]
  /\ over \subseteq KeyIds \cup Tokens

RequestsOK ==
  /\ req \in [Clients -> Request \cup {None}]
  /\ step \in [Clients -> Steps]
  /\ who \in [Clients -> Principal \cup {None}]
  /\ goal \in [Clients -> KeyIds \cup {None}]
  /\ doomed \in [Clients -> SUBSET (KeyIds \cup Tokens)]
  /\ \A c \in Clients :
       /\ req[c] = None <=> step[c] = "idle"
       /\ step[c] \in Entered => who[c] # None /\ who[c].by \in {req[c].key, req[c].token}

LEMMA TypeParts ==
  /\ TypeOK <=> TablesOK /\ RequestsOK
  /\ TypeOK' <=> TablesOK' /\ RequestsOK'
BY DEF TypeOK, TablesOK, RequestsOK, Steps, Entered

(* What somebody was told is over is of no use to anybody.                 *)
OverIsOver ==
  /\ \A k \in KeyIds \cap over : keys[k].status = "revoked"
  /\ \A t \in Tokens \cap over : sessions[t] <= clock

(* A request that is past its gate came by a credential that was not over  *)
(* when it asked, and has the scope of its key.                            *)
Guarded ==
  \A c \in Clients :
    /\ doomed[c] \subseteq over
    /\ step[c] \in {"session", "purge"} => req[c].token \in Tokens
    /\ step[c] = "revoke" => goal[c] \in KeyIds /\ who[c].scope = "admin"
    /\ step[c] \in Entered =>
         /\ who[c].by \notin doomed[c]
         /\ who[c].by \in KeyIds =>
              /\ keys[who[c].by].status # "absent"
              /\ keys[who[c].by].scope = who[c].scope

IInv == TypeOK /\ OverIsOver /\ Guarded

(* What a step does to the keys: none is lost, changed in scope or revived.*)
KeysStay ==
  \A k \in KeyIds :
    /\ keys[k].status # "absent" =>
         keys'[k].status # "absent" /\ keys'[k].scope = keys[k].scope
    /\ keys[k].status = "revoked" => keys'[k] = keys[k]

LEMMA InitHolds == Init => IInv
<1> SUFFICES ASSUME Init PROVE IInv
  OBVIOUS
<1> USE AccessAssumption
<1>1. TablesOK
  BY DEF Init, TablesOK, Absent
<1>2. RequestsOK
  BY DEF Init, RequestsOK, Steps, Entered
<1>3. OverIsOver
  BY DEF Init, OverIsOver, Absent
<1>4. Guarded
  BY DEF Init, Guarded, Entered
<1>5. QED
  BY <1>1, <1>2, <1>3, <1>4, TypeParts DEF IInv

-------------------------------------------------------------------------------
(* Every step of a handler replaces what is known of one request; what the *)
(* others rely on stays, as long as the keys do.                           *)
LEMMA OneRequest ==
  ASSUME RequestsOK, Guarded, KeysStay, over \subseteq over',
         NEW c \in Clients,
         NEW q \in Request \cup {None}, NEW s \in Steps, NEW w \in Principal \cup {None},
         NEW g \in KeyIds \cup {None}, NEW D \in SUBSET (KeyIds \cup Tokens),
         req' = [req EXCEPT ![c] = q], step' = [step EXCEPT ![c] = s],
         who' = [who EXCEPT ![c] = w], goal' = [goal EXCEPT ![c] = g],
         doomed' = [doomed EXCEPT ![c] = D],
         q = None <=> s = "idle",
         D \subseteq over',
         s \in {"session", "purge"} => q.token \in Tokens,
         s = "revoke" => g \in KeyIds /\ w.scope = "admin",
         s \in Entered =>
           /\ w # None /\ w.by \in {q.key, q.token} /\ w.by \notin D
           /\ w.by \in KeyIds => keys'[w.by].status # "absent" /\ keys'[w.by].scope = w.scope
  PROVE  RequestsOK' /\ Guarded'
<1>1. /\ req' \in [Clients -> Request \cup {None}]
      /\ step' \in [Clients -> Steps]
      /\ who' \in [Clients -> Principal \cup {None}]
      /\ goal' \in [Clients -> KeyIds \cup {None}]
      /\ doomed' \in [Clients -> SUBSET (KeyIds \cup Tokens)]
  BY DEF RequestsOK
<1>2. /\ req'[c] = q /\ step'[c] = s /\ who'[c] = w /\ goal'[c] = g /\ doomed'[c] = D
      /\ \A d \in Clients \ {c} :
           /\ req'[d] = req[d] /\ step'[d] = step[d] /\ who'[d] = who[d]
           /\ goal'[d] = goal[d] /\ doomed'[d] = doomed[d]
  BY DEF RequestsOK
<1>3. \A d \in Clients :
        /\ req'[d] = None <=> step'[d] = "idle"
        /\ step'[d] \in Entered => who'[d] # None /\ who'[d].by \in {req'[d].key, req'[d].token}
  BY <1>2 DEF RequestsOK
<1>4. ASSUME NEW d \in Clients
      PROVE  /\ doomed'[d] \subseteq over'
             /\ step'[d] \in {"session", "purge"} => req'[d].token \in Tokens
             /\ step'[d] = "revoke" => goal'[d] \in KeyIds /\ who'[d].scope = "admin"
             /\ step'[d] \in Entered =>
                  /\ who'[d].by \notin doomed'[d]
                  /\ who'[d].by \in KeyIds =>
                       /\ keys'[who'[d].by].status # "absent"
                       /\ keys'[who'[d].by].scope = who'[d].scope
  <2>1. CASE d = c
    BY <2>1, <1>2
  <2>2. CASE d # c
    BY <2>2, <1>2 DEF Guarded, KeysStay
  <2>3. QED
    BY <2>1, <2>2
<1>5. QED
  BY <1>1, <1>3, <1>4 DEF RequestsOK, Guarded

(* The same for a request that ends.                                       *)
LEMMA OneEnds ==
  ASSUME RequestsOK, Guarded, KeysStay, NEW c \in Clients, NEW gone, Finish(c, gone)
  PROVE  RequestsOK' /\ Guarded'
<1> USE AccessAssumption
<1>1. /\ req' = [req EXCEPT ![c] = None] /\ step' = [step EXCEPT ![c] = "idle"]
      /\ who' = [who EXCEPT ![c] = None] /\ goal' = [goal EXCEPT ![c] = None]
      /\ doomed' = [doomed EXCEPT ![c] = {}] /\ over \subseteq over'
  BY DEF Finish
<1>2. /\ None \in Request \cup {None} /\ "idle" \in Steps /\ None \in Principal \cup {None}
      /\ None \in KeyIds \cup {None} /\ {} \in SUBSET (KeyIds \cup Tokens)
      /\ "idle" \notin Entered
  BY DEF Steps, Entered
<1>3. QED
  BY <1>1, <1>2, OneRequest

-------------------------------------------------------------------------------
(* create_api_key takes an unused id, revoke_api_key changes the status of *)
(* one key, and nothing else writes the table.                             *)
LEMMA KeysStep ==
  ASSUME IInv, [Next]_vars
  PROVE  KeysStay
<1>0. TablesOK /\ RequestsOK /\ Guarded
  BY TypeParts DEF IInv
<1>1. ASSUME NEW c \in Clients, NEW k \in KeyIds, NEW s \in Scopes, CreateKey(c, k, s)
      PROVE  KeysStay
  BY <1>0, <1>1 DEF CreateKey, KeysStay, TablesOK
<1>2. ASSUME NEW c \in Clients, Revoke(c)
      PROVE  KeysStay
  <2>1. /\ goal[c] \in KeyIds
        /\ keys' = [keys EXCEPT ![goal[c]].status = "revoked"]
    BY <1>0, <1>2 DEF Revoke, Guarded
  <2>2. \A k \in KeyIds : keys[k] \in Key
    BY <1>0 DEF TablesOK
  <2>3. \A k \in KeyIds \ {goal[c]} : keys'[k] = keys[k]
    BY <2>1, <1>0 DEF TablesOK
  <2>4. keys'[goal[c]] = [keys[goal[c]] EXCEPT !.status = "revoked"]
    BY <2>1, <1>0 DEF TablesOK
  <2>5. QED
    BY <2>1, <2>2, <2>3, <2>4 DEF KeysStay, Key
<1>3. CASE UNCHANGED keys
  BY <1>3 DEF KeysStay
<1>4. QED
  BY <1>1, <1>2, <1>3
     DEF Next, vars, db, Arrive, SelectKey, Refuse, TouchKey, Touched, SelectSession, LetIn,
         PurgeSession, Read, Cleanup, LoginFails, Logout, SelectRevoked, CreateSession, Tick, Crash

(* Steps that write no table and end nothing.                              *)
LEMMA TablesSame ==
  ASSUME TablesOK, OverIsOver, UNCHANGED <<clock, db, over>>
  PROVE  TablesOK' /\ OverIsOver'
BY DEF TablesOK, OverIsOver, db

(* Steps of which only one request is aware.                               *)
LEMMA ArriveHolds ==
  ASSUME IInv, KeysStay, NEW c \in Clients, NEW r \in Request, Arrive(c, r)
  PROVE  IInv'
<1> USE AccessAssumption
<1>0. TablesOK /\ RequestsOK /\ OverIsOver /\ Guarded
  BY TypeParts DEF IInv
<1>1. TablesOK' /\ OverIsOver'
  BY <1>0, TablesSame DEF Arrive
<1>2. PICK s \in {"cleanup", "logout", "key"} : step' = [step EXCEPT ![c] = s]
  BY DEF Arrive, Goto
<1>3. /\ req' = [req EXCEPT ![c] = r] /\ doomed' = [doomed EXCEPT ![c] = over]
      /\ who' = [who EXCEPT ![c] = who[c]] /\ goal' = [goal EXCEPT ![c] = goal[c]]
      /\ over' = over
  BY <1>0 DEF Arrive, RequestsOK
<1>4. /\ s \in Steps \ Entered /\ s \notin {"session", "purge", "revoke", "idle"}
      /\ who[c] \in Principal \cup {None} /\ goal[c] \in KeyIds \cup {None}
      /\ over \in SUBSET (KeyIds \cup Tokens) /\ r # None
  BY <1>0, <1>2 DEF RequestsOK, TablesOK, Steps, Entered
<1>5. RequestsOK' /\ Guarded'
  BY <1>0, <1>2, <1>3, <1>4, OneRequest
<1>6. QED
  BY <1>1, <1>5, TypeParts DEF IInv

LEMMA RefuseHolds ==
  ASSUME IInv, KeysStay, NEW c \in Clients, Refuse(c)
  PROVE  IInv'
<1>0. TablesOK /\ RequestsOK /\ OverIsOver /\ Guarded
  BY TypeParts DEF IInv
<1>1. TablesOK' /\ OverIsOver'
  BY <1>0, TablesSame DEF Refuse, Finish
<1>2. RequestsOK' /\ Guarded'
  BY <1>0, OneEnds DEF Refuse
<1>3. QED
  BY <1>1, <1>2, TypeParts DEF IInv

(* The two ways through a gate: the row was good when it was selected, so  *)
(* what was over when the request came is another.                         *)
LEMMA SelectKeyHolds ==
  ASSUME IInv, KeysStay, NEW c \in Clients, SelectKey(c)
  PROVE  IInv'
<1> USE AccessAssumption
<1>0. TablesOK /\ RequestsOK /\ OverIsOver /\ Guarded
  BY TypeParts DEF IInv
<1>1. req[c] \in Request
  BY <1>0 DEF SelectKey, RequestsOK
<1>2. CASE /\ Usable(req[c].key)
           /\ who' = [who EXCEPT ![c] = [by |-> req[c].key, scope |-> keys[req[c].key].scope]]
           /\ Goto(c, "touch")
           /\ UNCHANGED <<clock, db, req, goal, over, doomed>>
  <2> DEFINE w == [by |-> req[c].key, scope |-> keys[req[c].key].scope]
  <2>1. req[c].key \in KeyIds /\ keys[req[c].key] \in Key /\ keys[req[c].key].status = "live"
    BY <1>0, <1>1, <1>2 DEF Usable, Request, TablesOK
  <2>2. w \in Principal /\ w.by = req[c].key /\ w.scope = keys[req[c].key].scope
    BY <2>1 DEF Principal, Key
  <2>3. req[c].key \notin doomed[c] /\ doomed[c] \subseteq over
    BY <1>0, <2>1 DEF OverIsOver, Guarded
  <2>4. /\ req' = [req EXCEPT ![c] = req[c]] /\ step' = [step EXCEPT ![c] = "touch"]
        /\ who' = [who EXCEPT ![c] = w] /\ goal' = [goal EXCEPT ![c] = goal[c]]
        /\ doomed' = [doomed EXCEPT ![c] = doomed[c]] /\ over' = over /\ keys' = keys
    BY <1>0, <1>2 DEF RequestsOK, Goto, db
  <2>5. /\ req[c] # None /\ goal[c] \in KeyIds \cup {None} /\ w # None
        /\ doomed[c] \in SUBSET (KeyIds \cup Tokens)
        /\ "touch" \in Steps /\ "touch" \notin {"session", "purge", "revoke", "idle"}
    BY <1>0, <1>1, <2>2 DEF RequestsOK, Steps
  <2> HIDE DEF w
  <2>6. RequestsOK' /\ Guarded'
    BY <1>0, <1>1, <2>1, <2>2, <2>3, <2>4, <2>5, OneRequest
  <2>7. TablesOK' /\ OverIsOver'
    BY <1>0, <1>2, TablesSame
  <2>8. QED
    BY <2>6, <2>7, TypeParts DEF IInv
<1>3. CASE /\ req[c].surface = "api" /\ req[c].token # None
           /\ Goto(c, "session")
           /\ UNCHANGED <<clock, db, req, who, goal, over, doomed>>
  <2>1. req[c].token \in Tokens
    BY <1>1, <1>3 DEF Request
  <2>2. /\ req' = [req EXCEPT ![c] = req[c]] /\ step' = [step EXCEPT ![c] = "session"]
        /\ who' = [who EXCEPT ![c] = who[c]] /\ goal' = [goal EXCEPT ![c] = goal[c]]
        /\ doomed' = [doomed EXCEPT ![c] = doomed[c]] /\ over' = over
    BY <1>0, <1>3 DEF RequestsOK, Goto
  <2>3. /\ who[c] \in Principal \cup {None} /\ goal[c] \in KeyIds \cup {None}
        /\ doomed[c] \in SUBSET (KeyIds \cup Tokens) /\ doomed[c] \subseteq over
        /\ "session" \in Steps \ Entered /\ "session" \notin {"revoke", "idle"} /\ req[c] # None
    BY <1>0, <1>1 DEF RequestsOK, Guarded, Steps, Entered
  <2>4. RequestsOK' /\ Guarded'
    BY <1>0, <1>1, <2>1, <2>2, <2>3, OneRequest
  <2>5. TablesOK' /\ OverIsOver'
    BY <1>0, <1>3, TablesSame
  <2>6. QED
    BY <2>4, <2>5, TypeParts DEF IInv
<1>4. QED
  BY <1>2, <1>3, RefuseHolds DEF SelectKey

(* A request that moves on with the principal it has.                      *)
LEMMA OneMovesOn ==
  ASSUME RequestsOK, Guarded, KeysStay, over \subseteq over',
         NEW c \in Clients, step[c] # "idle",
         NEW s \in Steps \ {"idle"}, NEW g \in KeyIds \cup {None},
         step' = [step EXCEPT ![c] = s], goal' = [goal EXCEPT ![c] = g],
         UNCHANGED <<req, who, doomed>>,
         s \in {"session", "purge"} => req[c].token \in Tokens,
         s = "revoke" => g \in KeyIds /\ who[c].scope = "admin",
         s \in Entered => step[c] \in Entered
  PROVE  RequestsOK' /\ Guarded'
<1>1. /\ req' = [req EXCEPT ![c] = req[c]] /\ who' = [who EXCEPT ![c] = who[c]]
      /\ doomed' = [doomed EXCEPT ![c] = doomed[c]]
  BY DEF RequestsOK
<1>2. /\ req[c] \in Request \cup {None} /\ req[c] # None
      /\ who[c] \in Principal \cup {None}
      /\ doomed[c] \in SUBSET (KeyIds \cup Tokens) /\ doomed[c] \subseteq over'
  BY DEF RequestsOK, Guarded
<1>3. s \in Entered =>
        /\ who[c] # None /\ who[c].by \in {req[c].key, req[c].token} /\ who[c].by \notin doomed[c]
        /\ who[c].by \in KeyIds =>
             keys'[who[c].by].status # "absent" /\ keys'[who[c].by].scope = who[c].scope
  BY DEF RequestsOK, Guarded, KeysStay
<1>4. QED
  BY <1>1, <1>2, <1>3, OneRequest

LEMMA TouchKeyHolds ==
  ASSUME IInv, KeysStay, NEW c \in Clients, TouchKey(c)
  PROVE  IInv'
<1>0. TablesOK /\ RequestsOK /\ OverIsOver /\ Guarded
  BY TypeParts DEF IInv
<1>1. CASE Finish(c, {})
  <2>1. TablesOK' /\ OverIsOver'
    BY <1>0, <1>1, TablesSame DEF TouchKey, Touched, Finish, db
  <2>2. QED
    BY <1>0, <1>1, <2>1, OneEnds, TypeParts DEF IInv
<1>2. CASE Goto(c, "in") /\ UNCHANGED <<req, who, goal, over, doomed>>
  <2>1. TablesOK' /\ OverIsOver'
    BY <1>0, <1>2, TablesSame DEF TouchKey, Touched, db
  <2>2. /\ step' = [step EXCEPT ![c] = "in"] /\ goal' = [goal EXCEPT ![c] = goal[c]]
        /\ goal[c] \in KeyIds \cup {None} /\ step[c] = "touch"
        /\ "in" \in Steps \ {"idle"} /\ "touch" \in Entered
    BY <1>0, <1>2 DEF TouchKey, Goto, RequestsOK, Steps, Entered
  <2>3. RequestsOK' /\ Guarded'
    BY <1>0, <1>2, <2>2, OneMovesOn
  <2>4. QED
    BY <2>1, <2>3, TypeParts DEF IInv
<1>3. QED
  BY <1>1, <1>2 DEF TouchKey

LEMMA SelectSessionHolds ==
  ASSUME IInv, KeysStay, NEW c \in Clients, SelectSession(c)
  PROVE  IInv'
<1> USE AccessAssumption
<1> DEFINE t == req[c].token
<1>0. TablesOK /\ RequestsOK /\ OverIsOver /\ Guarded
  BY TypeParts DEF IInv
<1>1. req[c] \in Request /\ req[c] # None /\ t \in Tokens
  BY <1>0 DEF SelectSession, RequestsOK, Guarded
<1>2. CASE Live(t) /\ LetIn(c, t, "admin")
  <2> DEFINE w == [by |-> t, scope |-> "admin"]
  <2>1. sessions[t] \in Int /\ clock \in Int /\ sessions[t] > clock
    BY <1>0, <1>1, <1>2 DEF Live, TablesOK, Absent
  <2>2. t \notin over
    BY <1>0, <1>1, <2>1 DEF OverIsOver
  <2>3. t \notin doomed[c] /\ doomed[c] \subseteq over
    BY <1>0, <2>2 DEF Guarded
  <2>4. w \in Principal /\ w # None /\ w.by = t /\ w.by \notin KeyIds
    BY <1>1 DEF Principal, Scopes
  <2>5. /\ req' = [req EXCEPT ![c] = req[c]] /\ step' = [step EXCEPT ![c] = "in"]
        /\ who' = [who EXCEPT ![c] = w] /\ goal' = [goal EXCEPT ![c] = goal[c]]
        /\ doomed' = [doomed EXCEPT ![c] = doomed[c]] /\ over' = over
    BY <1>0, <1>2 DEF RequestsOK, LetIn, Goto
  <2>6. /\ goal[c] \in KeyIds \cup {None} /\ doomed[c] \in SUBSET (KeyIds \cup Tokens)
        /\ "in" \in Steps /\ "in" \notin {"session", "purge", "revoke", "idle"}
    BY <1>0 DEF RequestsOK, Steps
  <2> HIDE DEF w
  <2>7. RequestsOK' /\ Guarded'
    BY <1>0, <1>1, <2>3, <2>4, <2>5, <2>6, OneRequest
  <2>8. TablesOK' /\ OverIsOver'
    BY <1>0, <1>2, TablesSame DEF LetIn
  <2>9. QED
    BY <2>7, <2>8, TypeParts DEF IInv
<1>3. CASE Goto(c, "purge") /\ UNCHANGED <<clock, db, req, who, goal, over, doomed>>
  <2>1. TablesOK' /\ OverIsOver'
    BY <1>0, <1>3, TablesSame
  <2>2. /\ step' = [step EXCEPT ![c] = "purge"] /\ goal' = [goal EXCEPT ![c] = goal[c]]
        /\ goal[c] \in KeyIds \cup {None} /\ step[c] # "idle"
        /\ "purge" \in Steps \ {"idle"} /\ "purge" \notin Entered
    BY <1>0, <1>3 DEF SelectSession, Goto, RequestsOK, Steps, Entered
  <2>3. RequestsOK' /\ Guarded'
    BY <1>0, <1>1, <1>3, <2>2, OneMovesOn
  <2>4. QED
    BY <2>1, <2>3, TypeParts DEF IInv
<1>4. QED
  BY <1>2, <1>3 DEF SelectSession

(* The row of an expired session goes, by a request that ends or a login.  *)
LEMMA SessionsGo ==
  ASSUME TablesOK, OverIsOver, UNCHANGED <<clock, keys>>, over' = over,
         sessions' \in [Tokens -> Absent .. MaxClock + TTL],
         \A t \in Tokens : sessions'[t] \in {sessions[t], Absent}
  PROVE  TablesOK' /\ OverIsOver'
BY AccessAssumption DEF TablesOK, OverIsOver, Absent

LEMMA PurgeSessionHolds ==
  ASSUME IInv, KeysStay, NEW c \in Clients, PurgeSession(c)
  PROVE  IInv'
<1> DEFINE b == req[c].token
<1>0. TablesOK /\ RequestsOK /\ OverIsOver /\ Guarded
  BY TypeParts DEF IInv
<1>1. RequestsOK' /\ Guarded'
  BY <1>0, OneEnds DEF PurgeSession
<1>2. PICK e \in {sessions[b], Absent} : sessions' = [sessions EXCEPT ![b] = e]
  BY DEF PurgeSession
<1>3. b \in Tokens
  BY <1>0 DEF PurgeSession, Guarded
<1>4. sessions \in [Tokens -> Absent .. MaxClock + TTL] /\ e \in Absent .. MaxClock + TTL
  BY <1>0, <1>3, AccessAssumption DEF TablesOK, Absent
<1>5. UNCHANGED <<clock, keys>> /\ over' = over
  BY DEF PurgeSession, Finish
<1> HIDE DEF b
<1>6. /\ sessions' \in [Tokens -> Absent .. MaxClock + TTL]
      /\ \A t \in Tokens : sessions'[t] \in {sessions[t], Absent}
  BY <1>2, <1>3, <1>4
<1>7. QED
  BY <1>0, <1>1, <1>5, <1>6, SessionsGo, TypeParts DEF IInv

LEMMA CleanupHolds ==
  ASSUME IInv, KeysStay, NEW c \in Clients, Cleanup(c)
  PROVE  IInv'
<1> USE AccessAssumption
<1>0. TablesOK /\ RequestsOK /\ OverIsOver /\ Guarded
  BY TypeParts DEF IInv
<1>1. /\ step' = [step EXCEPT ![c] = "login"] /\ goal' = [goal EXCEPT ![c] = goal[c]]
      /\ goal[c] \in KeyIds \cup {None} /\ step[c] # "idle"
      /\ "login" \in Steps \ {"idle"} /\ "login" \notin Entered
      /\ "login" \notin {"session", "purge", "revoke"}
      /\ UNCHANGED <<req, who, doomed, over>>
  BY <1>0 DEF Cleanup, Goto, RequestsOK, Steps, Entered
<1>2. RequestsOK' /\ Guarded'
  BY <1>0, <1>1, OneMovesOn
<1>3. /\ UNCHANGED <<clock, keys>> /\ over' = over
      /\ sessions' \in [Tokens -> Absent .. MaxClock + TTL]
      /\ \A t \in Tokens : sessions'[t] \in {sessions[t], Absent}
  BY <1>0 DEF Cleanup, TablesOK, Absent
<1>4. QED
  BY <1>0, <1>2, <1>3, SessionsGo, TypeParts DEF IInv

LEMMA LogoutHolds ==
  ASSUME IInv, KeysStay, NEW c \in Clients, Logout(c)
  PROVE  IInv'
<1> DEFINE b == req[c].token
<1>0. TablesOK /\ RequestsOK /\ OverIsOver /\ Guarded
  BY TypeParts DEF IInv
<1>1. RequestsOK' /\ Guarded'
  BY <1>0, OneEnds DEF Logout
<1>2. b \in Tokens \cup {None}
  BY <1>0, AccessAssumption DEF Logout, RequestsOK, Request
<1>3. /\ over' = over \cup ({b} \ {None})
      /\ sessions' = [t \in Tokens |-> IF t = b THEN Absent ELSE sessions[t]]
      /\ UNCHANGED <<clock, keys>>
  BY DEF Logout, Finish
<1> HIDE DEF b
<1>4. Absent \in Absent .. MaxClock + TTL /\ Absent <= clock
  BY <1>0, AccessAssumption DEF TablesOK, Absent
<1>5. TablesOK'
  BY <1>0, <1>2, <1>3, <1>4 DEF TablesOK
<1>6. OverIsOver'
  BY <1>0, <1>2, <1>3, <1>4, AccessAssumption DEF OverIsOver
<1>7. QED
  BY <1>1, <1>5, <1>6, TypeParts DEF IInv

LEMMA ReadHolds ==
  ASSUME IInv, KeysStay, NEW c \in Clients, Read(c)
  PROVE  IInv'
BY RefuseHolds DEF Read, Refuse

LEMMA LoginFailsHolds ==
  ASSUME IInv, KeysStay, NEW c \in Clients, LoginFails(c)
  PROVE  IInv'
BY RefuseHolds DEF LoginFails

LEMMA CreateKeyHolds ==
  ASSUME IInv, KeysStay, NEW c \in Clients, NEW k \in KeyIds, NEW s \in Scopes,
         CreateKey(c, k, s)
  PROVE  IInv'
<1>0. TablesOK /\ RequestsOK /\ OverIsOver /\ Guarded
  BY TypeParts DEF IInv
<1>1. RequestsOK' /\ Guarded'
  BY <1>0, OneEnds DEF CreateKey
<1>2. keys' \in [KeyIds -> Key] /\ keys[k].status = "absent"
  BY <1>0 DEF CreateKey, TablesOK, Key
<1>3. UNCHANGED <<clock, sessions, over>> /\ \A j \in KeyIds \ {k} : keys'[j] = keys[j]
  BY <1>0 DEF CreateKey, Finish, TablesOK
<1>4. TablesOK' /\ OverIsOver'
  BY <1>0, <1>2, <1>3 DEF TablesOK, OverIsOver
<1>5. QED
  BY <1>1, <1>4, TypeParts DEF IInv

LEMMA SelectRevokedHolds ==
  ASSUME IInv, KeysStay, NEW c \in Clients, NEW k \in KeyIds, SelectRevoked(c, k)
  PROVE  IInv'
<1>0. TablesOK /\ RequestsOK /\ OverIsOver /\ Guarded
  BY TypeParts DEF IInv
<1>1. CASE /\ goal' = [goal EXCEPT ![c] = k] /\ Goto(c, "revoke")
           /\ UNCHANGED <<clock, db, req, who, over, doomed>>
  <2>1. TablesOK' /\ OverIsOver'
    BY <1>0, <1>1, TablesSame
  <2>2. /\ step' = [step EXCEPT ![c] = "revoke"] /\ who[c].scope = "admin"
        /\ step[c] # "idle" /\ step[c] \in Entered
        /\ "revoke" \in Steps \ {"idle"} /\ "revoke" \notin {"session", "purge"}
    BY <1>1 DEF SelectRevoked, MayWrite, Goto, Steps, Entered
  <2>3. RequestsOK' /\ Guarded'
    BY <1>0, <1>1, <2>2, OneMovesOn
  <2>4. QED
    BY <2>1, <2>3, TypeParts DEF IInv
<1>2. QED
  BY <1>1, RefuseHolds DEF SelectRevoked

LEMMA RevokeHolds ==
  ASSUME IInv, KeysStay, NEW c \in Clients, Revoke(c)
  PROVE  IInv'
<1> DEFINE g == goal[c]
<1>0. TablesOK /\ RequestsOK /\ OverIsOver /\ Guarded
  BY TypeParts DEF IInv
<1>1. RequestsOK' /\ Guarded'
  BY <1>0, OneEnds DEF Revoke
<1>2. g \in KeyIds
  BY <1>0 DEF Revoke, Guarded
<1>3. /\ keys' = [keys EXCEPT ![g].status = "revoked"]
      /\ UNCHANGED <<clock, sessions>> /\ over' = over \cup {g}
  BY DEF Revoke, Finish
<1> HIDE DEF g
<1>4. /\ \A k \in KeyIds \ {g} : keys'[k] = keys[k]
      /\ keys'[g] = [keys[g] EXCEPT !.status = "revoked"]
      /\ keys' = [k \in KeyIds |-> keys'[k]]
  BY <1>0, <1>2, <1>3 DEF TablesOK
<1>5. keys[g] \in Key /\ keys'[g] \in Key /\ keys'[g].status = "revoked"
  BY <1>0, <1>2, <1>4 DEF TablesOK, Key
<1>6. TablesOK'
  <2>1. \A k \in KeyIds : keys'[k] \in Key
    BY <1>0, <1>4, <1>5 DEF TablesOK
  <2>2. keys' \in [KeyIds -> Key]
    BY <1>4, <2>1
  <2>3. QED
    BY <1>0, <1>2, <1>3, <2>2 DEF TablesOK
<1>7. OverIsOver'
  BY <1>0, <1>2, <1>3, <1>4, <1>5, AccessAssumption DEF OverIsOver
<1>8. QED
  BY <1>1, <1>6, <1>7, TypeParts DEF IInv

LEMMA CreateSessionHolds ==
  ASSUME IInv, KeysStay, NEW c \in Clients, NEW t \in Tokens, CreateSession(c, t)
  PROVE  IInv'
<1>0. TablesOK /\ RequestsOK /\ OverIsOver /\ Guarded
  BY TypeParts DEF IInv
<1>1. RequestsOK' /\ Guarded'
  BY <1>0, OneEnds DEF CreateSession
<1>2. clock + TTL \in Absent .. MaxClock + TTL
  BY <1>0, AccessAssumption DEF TablesOK, Absent
<1>3. /\ sessions' = [sessions EXCEPT ![t] = clock + TTL] /\ t \notin over
      /\ UNCHANGED <<clock, keys, over>>
  BY DEF CreateSession, Finish
<1>4. sessions' \in [Tokens -> Absent .. MaxClock + TTL] /\ \A u \in Tokens \ {t} : sessions'[u] = sessions[u]
  BY <1>0, <1>2, <1>3 DEF TablesOK
<1>5. TablesOK' /\ OverIsOver'
  BY <1>0, <1>3, <1>4 DEF TablesOK, OverIsOver
<1>6. QED
  BY <1>1, <1>5, TypeParts DEF IInv

(* The steps that are of no request in particular.                         *)
LEMMA TickHolds ==
  ASSUME IInv, Tick
  PROVE  IInv'
<1>0. TablesOK /\ RequestsOK /\ OverIsOver /\ Guarded
  BY TypeParts DEF IInv
<1>1. /\ clock' = clock + 1 /\ clock' \in 0 .. MaxClock /\ UNCHANGED <<keys, sessions>>
      /\ over' = over \cup {t \in Tokens : sessions[t] = clock'}
  BY <1>0, AccessAssumption DEF Tick, TablesOK, db
<1>2. TablesOK'
  BY <1>0, <1>1 DEF TablesOK
<1>3. \A t \in Tokens : sessions[t] \in Int
  BY <1>0, AccessAssumption DEF TablesOK, Absent
<1>4. OverIsOver'
  BY <1>0, <1>1, <1>3, AccessAssumption DEF OverIsOver, TablesOK
<1>5. RequestsOK'
  BY <1>0 DEF Tick, RequestsOK
<1>6. Guarded'
  BY <1>0 DEF Tick, Guarded, db
<1>7. QED
  BY <1>2, <1>4, <1>5, <1>6, TypeParts DEF IInv

LEMMA CrashHolds ==
  ASSUME IInv, Crash
  PROVE  IInv'
<1>0. TablesOK /\ RequestsOK /\ OverIsOver /\ Guarded
  BY TypeParts DEF IInv
<1>1. TablesOK' /\ OverIsOver'
  BY <1>0, TablesSame DEF Crash
<1>2. RequestsOK'
  BY DEF Crash, RequestsOK, Steps, Entered
<1>3. Guarded'
  BY DEF Crash, Guarded, Entered
<1>4. QED
  BY <1>1, <1>2, <1>3, TypeParts DEF IInv

-------------------------------------------------------------------------------
LEMMA StepHolds == IInv /\ [Next]_vars => IInv'
<1> SUFFICES ASSUME IInv, [Next]_vars PROVE IInv'
  OBVIOUS
<1>1. KeysStay
  BY KeysStep
<1>2. CASE UNCHANGED vars
  <2>1. TypeOK'
    BY <1>2 DEF IInv, TypeOK, vars, db
  <2>2. OverIsOver' /\ Guarded'
    BY <1>2 DEF IInv, OverIsOver, Guarded, vars, db
  <2>3. QED
    BY <2>1, <2>2 DEF IInv
<1>3. CASE Next
  BY <1>1, <1>3, ArriveHolds, SelectKeyHolds, TouchKeyHolds, SelectSessionHolds,
     PurgeSessionHolds, ReadHolds, RevokeHolds, CleanupHolds, LoginFailsHolds, LogoutHolds,
     SelectRevokedHolds, CreateKeyHolds, CreateSessionHolds, TickHolds, CrashHolds
     DEF Next
<1>4. QED
  BY <1>2, <1>3

(* The tables and requests are as TypeOK says, what is over is of no use,  *)
(* and whoever is past a gate got there by something that was not over.    *)
THEOREM Inductive == Spec => []IInv
<1>1. QED
  BY InitHolds, StepHolds, PTL DEF Spec

(* NoEntryAfterTheEnd, for any keys, tokens, clients and times: nobody     *)
(* gets in by a key or session that was over when the request was made,    *)
(* in whichever order the two steps of _resolve_api_key and of             *)
(* resolve_session fall between those of other requests.                   *)
THEOREM NoEntry == Spec => []NoEntryAfterTheEnd
<1>1. IInv => NoEntryAfterTheEnd
  BY DEF IInv, Guarded, NoEntryAfterTheEnd, Entered
<1>2. QED
  BY <1>1, Inductive, PTL

(* What a step may do to the keys and the sessions.                        *)
LEMMA KeysOfStep ==
  ASSUME IInv, [Next]_vars
  PROVE  \A k \in KeyIds :
           /\ keys[k].status = "revoked" => keys'[k] = keys[k]
           /\ keys[k].status = "live" => keys'[k].scope = keys[k].scope
BY KeysStep DEF KeysStay

LEMMA SessionsOfStep ==
  ASSUME IInv, [Next]_vars, NEW t \in Tokens, sessions[t] > clock', sessions'[t] # sessions[t]
  PROVE  \E c \in Clients : step[c] = "logout" /\ req[c].token = t
<1>0. TablesOK /\ RequestsOK /\ Guarded /\ TablesOK'
  BY TypeParts, StepHolds DEF IInv
<1>1. /\ sessions \in [Tokens -> Absent .. MaxClock + TTL] /\ sessions[t] \in Int
      /\ clock \in Int /\ ~(sessions[t] <= clock')
  <2>1. sessions \in [Tokens -> Int] /\ clock \in Int /\ clock' \in Int
    BY <1>0, AccessAssumption DEF TablesOK, Absent
  <2>2. QED
    BY <1>0, <2>1 DEF TablesOK
<1>2. ASSUME NEW c \in Clients, PurgeSession(c)
      PROVE  FALSE
  <2>1. req[c].token \in Tokens /\ clock' = clock
    BY <1>0, <1>2 DEF PurgeSession, Guarded
  <2>2. sessions' = [sessions EXCEPT ![req[c].token] = IF @ <= clock THEN Absent ELSE @]
    BY <1>2 DEF PurgeSession
  <2>3. QED
    BY <1>1, <2>1, <2>2
<1>3. ASSUME NEW c \in Clients, Cleanup(c)
      PROVE  FALSE
  BY <1>1, <1>3 DEF Cleanup, Expired
<1>4. ASSUME NEW c \in Clients, NEW u \in Tokens, CreateSession(c, u)
      PROVE  FALSE
  <2>1. t = u
    BY <1>1, <1>4 DEF CreateSession
  <2>2. QED
    BY <1>1, <1>4, <2>1 DEF CreateSession, Absent, Finish, TablesOK, IInv, TypeOK
<1>5. ASSUME NEW c \in Clients, Logout(c)
      PROVE  step[c] = "logout" /\ req[c].token = t
  BY <1>5 DEF Logout
<1>6. CASE UNCHANGED sessions
  BY <1>6
<1>7. QED
  BY <1>2, <1>3, <1>4, <1>5, <1>6
     DEF Next, vars, db, Arrive, SelectKey, Refuse, TouchKey, SelectSession, LetIn, Read,
         LoginFails, SelectRevoked, CreateKey, Revoke, Tick, Crash

LEMMA WritersOfStep ==
  ASSUME IInv, [Next]_vars, keys' # keys
  PROVE  \E c \in Clients :
           /\ step[c] \in {"in", "revoke"} /\ step'[c] = "idle"
           /\ who[c].by \notin doomed[c]
           /\ who[c].by \in KeyIds => keys[who[c].by].scope = "admin"
<1>0. TablesOK /\ RequestsOK /\ Guarded
  BY TypeParts DEF IInv
<1>1. ASSUME NEW c \in Clients, step[c] \in {"in", "revoke"}, Finish(c, {}) \/ Finish(c, {goal[c]}),
             who[c].scope = "admin"
      PROVE  /\ step[c] \in {"in", "revoke"} /\ step'[c] = "idle"
             /\ who[c].by \notin doomed[c]
             /\ who[c].by \in KeyIds => keys[who[c].by].scope = "admin"
  BY <1>0, <1>1 DEF Finish, Guarded, RequestsOK, Entered
<1>2. ASSUME NEW c \in Clients, NEW k \in KeyIds, NEW s \in Scopes, CreateKey(c, k, s)
      PROVE  step[c] \in {"in", "revoke"} /\ Finish(c, {}) /\ who[c].scope = "admin"
  BY <1>2 DEF CreateKey, MayWrite
<1>3. ASSUME NEW c \in Clients, Revoke(c)
      PROVE  step[c] \in {"in", "revoke"} /\ Finish(c, {goal[c]}) /\ who[c].scope = "admin"
  BY <1>0, <1>3 DEF Revoke, Guarded
<1>4. \/ \E c \in Clients, k \in KeyIds, s \in Scopes : CreateKey(c, k, s)
      \/ \E c \in Clients : Revoke(c)
  BY DEF Next, vars, db, Arrive, SelectKey, Refuse, TouchKey, Touched, SelectSession, LetIn,
         PurgeSession, Read, Cleanup, LoginFails, Logout, SelectRevoked, CreateSession, Tick, Crash
<1>5. QED
  BY <1>1, <1>2, <1>3, <1>4

(* CredentialsHold: a revoked key stays revoked and no key changes scope, a*)
(* session with time left ends only by its own logout, and the key table   *)
(* is written only for admin credentials that were good when they asked    *)
(* (resolve_session, _resolve_api_key, create_api_key, revoke_api_key).    *)
THEOREM Credentials == Spec => CredentialsHold
<1>1. IInv => TypeOK
  BY DEF IInv
<1>2. IInv /\ [Next]_vars =>
        [\A k \in KeyIds :
           /\ keys[k].status = "revoked" => keys'[k] = keys[k]
           /\ keys[k].status = "live" => keys'[k].scope = keys[k].scope]_vars
  BY KeysOfStep
<1>3. IInv /\ [Next]_vars =>
        [\A t \in Tokens :
           sessions[t] > clock' /\ sessions'[t] # sessions[t] =>
             \E c \in Clients : step[c] = "logout" /\ req[c].token = t]_vars
  BY SessionsOfStep
<1>4. IInv /\ [Next]_vars =>
        [keys' # keys =>
           \E c \in Clients :
             /\ step[c] \in {"in", "revoke"} /\ step'[c] = "idle"
             /\ who[c].by \notin doomed[c]
             /\ who[c].by \in KeyIds => keys[who[c].by].scope = "admin"]_vars
  BY WritersOfStep
<1>5. Spec => []TypeOK
  BY <1>1, Inductive, PTL
<1>6. Spec => RevokedForGood
  BY <1>2, Inductive, PTL DEF Spec, RevokedForGood
<1>7. Spec => SessionsLast
  BY <1>3, Inductive, PTL DEF Spec, SessionsLast
<1>8. Spec => WritesByAdmins
  BY <1>4, Inductive, PTL DEF Spec, WritesByAdmins
<1>9. QED
  BY <1>5, <1>6, <1>7, <1>8 DEF CredentialsHold

-------------------------------------------------------------------------------
(* Routing.                                                                 *)

(* Routing counts with its own copy of FiniteSets.                          *)
LEMMA RoutesCounts ==
  \A S : Routes!IsFiniteSet(S) = IsFiniteSet(S) /\ Routes!Cardinality(S) = Cardinality(S)
BY Zenon DEF Routes!IsFiniteSet, IsFiniteSet, Routes!Cardinality, Cardinality

-------------------------------------------------------------------------------
(* Shapes.                                                                  *)

LEMMA SegmentsOf ==
  ASSUME RoutesAssumption, NEW p \in Paths
  PROVE  /\ Routes!Segments(p) \in Seq(STRING)
         /\ Routes!Supported(p) => p \in Seq(STRING) /\ Routes!Segments(p) = p /\ p # <<>>
<1>1. CASE p = Blank
  BY <1>1 DEF Routes!Segments, Routes!Supported
<1>2. CASE p # Blank
  <2>1. p \in Seq(STRING) /\ Routes!Segments(p) = p
    BY <1>2 DEF RoutesAssumption, Routes!RoutingAssumption, Routes!Segments
  <2>2. QED
    BY <2>1 DEF Routes!Supported
<1>3. QED
  BY <1>1, <1>2

(* infer_tool_type knows paths of one segment, and of two whose second is a *)
(* placeholder or "search"; of a GET it makes a tool that reads.            *)
LEMMA KnownShapes ==
  ASSUME RoutesAssumption, NEW method \in Routes!Methods \cup {Blank}, NEW p \in Paths, Routes!ToolType(method, p) # Nothing
  PROVE  /\ Routes!Supported(p)
         /\ Len(p) = 1 \/ (Len(p) = 2 /\ p[2] \in Params \cup {"search"})
         /\ Routes!ToolType(method, p) \in Routes!Types
         /\ method = "GET" => Routes!ToolType(method, p) \in Routes!ReadTypes
<1>1. Routes!Supported(p)
  BY DEF Routes!ToolType
<1>2. Len(p) = 1 \/ (Len(p) = 2 /\ p[2] \in Params \cup {"search"})
  BY <1>1 DEF Routes!ToolType, Routes!IsItem
<1>3. Routes!ToolType(method, p) \in Routes!Types
  BY <1>1 DEF Routes!ToolType, Routes!Types
<1>4. method = "GET" => Routes!ToolType(method, p) \in Routes!ReadTypes
  BY <1>1 DEF Routes!ToolType, Routes!ReadTypes
<1>5. QED
  BY <1>1, <1>2, <1>3, <1>4

(* Of two supported routes that fit a request, one with no more             *)
(* placeholders than the other is the more specific one.                    *)
LEMMA FewerPlaceholders ==
  ASSUME RoutesAssumption, NEW method \in Routes!Methods \cup {Blank}, NEW p \in Paths, NEW o \in Paths,
         Routes!ToolType(method, p) # Nothing, Routes!ToolType(method, o) # Nothing,
         NEW asks \in Seq(STRING), Routes!Fits(p, asks), Routes!Fits(o, asks),
         Routes!Placeholders(p) <= Routes!Placeholders(o),
         NEW other \in Seq(STRING), Routes!Fits(p, other)
  PROVE  Routes!Fits(o, other)
<1>1. /\ Routes!Supported(p) /\ Routes!Supported(o)
      /\ Len(p) = 1 \/ (Len(p) = 2 /\ p[2] \in Params \cup {"search"})
      /\ Len(o) = 1 \/ (Len(o) = 2 /\ o[2] \in Params \cup {"search"})
  BY KnownShapes
<1>2. /\ Routes!Segments(p) = p /\ Routes!Segments(o) = o
      /\ p \in Seq(STRING) /\ o \in Seq(STRING) /\ p # <<>> /\ o # <<>>
  BY <1>1, SegmentsOf
<1>3. p[1] \notin Params /\ o[1] \notin Params
  BY <1>1, <1>2 DEF Routes!Supported
<1>4. /\ Len(p) = Len(asks) /\ Len(o) = Len(asks) /\ Len(p) = Len(other)
      /\ \A k \in 1 .. Len(p) : p[k] \in Params \cup {asks[k]} /\ p[k] \in Params \cup {other[k]}
      /\ \A k \in 1 .. Len(o) : o[k] \in Params \cup {asks[k]}
  <2>1. DOMAIN p = 1 .. Len(p) /\ DOMAIN o = 1 .. Len(o)
    BY <1>2
  <2>2. \A q : Routes!Fits(p, q) => Len(p) = Len(q) /\ \A k \in DOMAIN p : p[k] \in Params \cup {q[k]}
    BY <1>2, Zenon DEF Routes!Fits
  <2>3. \A q : Routes!Fits(o, q) => Len(o) = Len(q) /\ \A k \in DOMAIN o : o[k] \in Params \cup {q[k]}
    BY <1>2, Zenon DEF Routes!Fits
  <2>4. QED
    BY <2>1, <2>2, <2>3
<1>5. o[1] = asks[1] /\ p[1] = asks[1] /\ p[1] = other[1]
  <2>1. 1 \in 1 .. Len(p) /\ 1 \in 1 .. Len(o)
    <3>1. 1 \in 1 .. 1 /\ 1 \in 1 .. 2
      OBVIOUS
    <3>2. QED
      BY <1>1, <3>1
  <2>2. QED
    BY <1>3, <1>4, <2>1
<1>6. CASE Len(o) = 1
  <2>1. \A k \in DOMAIN o : o[k] \in Params \cup {other[k]}
    BY <1>2, <1>5, <1>6
  <2>2. QED
    BY <1>2, <1>4, <2>1 DEF Routes!Fits
<1>7. CASE Len(o) = 2 /\ o[2] \in Params
  <2>1. \A k \in DOMAIN o : o[k] \in Params \cup {other[k]}
    BY <1>2, <1>5, <1>7
  <2>2. QED
    BY <1>2, <1>4, <2>1 DEF Routes!Fits
<1>8. CASE Len(o) = 2 /\ o[2] = "search"
  <2>1. Len(p) = 2 /\ "search" \notin Params
    BY <1>4, <1>8 DEF RoutesAssumption, Routes!RoutingAssumption
  <2>2. asks[2] = "search"
    BY <1>4, <1>8, <2>1
  <2>3. Routes!Placeholders(o) = 0
    <3>1. {k \in DOMAIN Routes!Segments(o) : Routes!Segments(o)[k] \in Params} = {}
      BY <1>2, <1>3, <1>8, <2>1
    <3>2. QED
      BY <3>1, FS_EmptySet, RoutesCounts DEF Routes!Placeholders
  <2>4. p[2] \notin Params
    <3> SUFFICES ASSUME p[2] \in Params PROVE FALSE
      OBVIOUS
    <3>1. {k \in DOMAIN Routes!Segments(p) : Routes!Segments(p)[k] \in Params} = {2}
      BY <1>2, <1>3, <2>1
    <3>2. Routes!Placeholders(p) = 1
      BY <3>1, FS_Singleton, RoutesCounts DEF Routes!Placeholders
    <3>3. QED
      BY <2>3, <3>2
  <2>5. p[2] = asks[2] /\ p[2] = other[2]
    BY <1>4, <2>1, <2>4
  <2>6. \A k \in DOMAIN o : o[k] \in Params \cup {other[k]}
    BY <1>2, <1>5, <1>8, <2>2, <2>5
  <2>7. QED
    BY <1>2, <1>4, <2>6 DEF Routes!Fits
<1>9. QED
  BY <1>1, <1>6, <1>7, <1>8

-------------------------------------------------------------------------------
(* IInv in three parts, which different steps disturb.                      *)

EndpointsOK ==
  /\ endpoints \in [Ids -> Routes!Endpoint \cup {Unused, Deleted}]
  /\ \A i, j \in Routes!Stored : endpoints[i].tool = endpoints[j].tool => i = j

ClientOK(c) ==
  /\ (body[c] # Nothing) = (route_step[c] \in Routes!InSteps)
  /\ (read[c] # Nothing) = (target[c] # Nothing)
  /\ (tool[c] # Nothing) = (route_step[c] = "call")
  /\ ran[c] # Nothing => route_step[c] \notin {"refused", "missing", "error"} \/ c \in Writers
  /\ body[c] # Nothing => c \in Writers
  /\ target[c] # Nothing => body[c] # Nothing
  /\ Routes!Creates(c) => body[c] \in Routes!Endpoint /\ ~Routes!IsBlank(body[c])
  /\ route_step[c] = "call" => ran[c] = Nothing

RoutesRequestsOK ==
  /\ route_step \in [(Writers \cup Callers) -> {"idle", "call", "refused", "missing", "error", "done"} \cup Routes!InSteps]
  /\ target \in [(Writers \cup Callers) -> Ids \cup {Nothing}]
  /\ body \in [(Writers \cup Callers) -> Bodies \cup {Nothing}]
  /\ read \in [(Writers \cup Callers) -> Routes!Endpoint \cup {Nothing}]
  /\ tool \in [(Writers \cup Callers) -> Tools \cup {Nothing}]
  /\ asked = [c \in (Writers \cup Callers) |-> asked[c]]
  /\ ran \in [(Writers \cup Callers) -> Routes!Types \cup {Nothing}]
  /\ \A c \in (Writers \cup Callers) : ClientOK(c)

Creating == {d \in Writers : Routes!Creates(d)}

Free == {i \in Ids : endpoints[i] = Unused}

Room == Cardinality(Creating) <= Cardinality(Free)

LEMMA RoutesParts ==
  /\ Routes!IInv <=> EndpointsOK /\ RoutesRequestsOK /\ Room
  /\ Routes!IInv' <=> EndpointsOK' /\ RoutesRequestsOK' /\ Room'
<1>0. /\ Room <=> Routes!Cardinality({d \in Writers : Routes!Creates(d)}) <=
                 Routes!Cardinality({i \in Ids : endpoints[i] = Unused})
      /\ Room' <=> Routes!Cardinality({d \in Writers : Routes!Creates(d)'}) <=
                  Routes!Cardinality({i \in Ids : endpoints'[i] = Unused})
  BY RoutesCounts DEF Room, Creating, Free
<1>1. Routes!IInv <=> EndpointsOK /\ RoutesRequestsOK /\ Room
  BY <1>0 DEF Routes!IInv, Routes!TypeOK, Routes!Shaped, EndpointsOK, RoutesRequestsOK, ClientOK, Room, Creating, Free, Routes!InSteps
<1>2. Routes!IInv' <=> EndpointsOK' /\ RoutesRequestsOK' /\ Room'
  BY <1>0 DEF Routes!IInv, Routes!TypeOK, Routes!Shaped, EndpointsOK, RoutesRequestsOK, ClientOK, Room, Creating, Free, Routes!InSteps,
         Routes!Creates, Routes!Stored
<1>3. QED
  BY <1>1, <1>2

-------------------------------------------------------------------------------
(* Room for every creation.                                                 *)

LEMMA LeastId ==
  ASSUME NEW S \in SUBSET Nat, S # {}
  PROVE  \E m \in S : \A n \in S : m <= n
<1>1. PICK m \in S : \A n \in S : <<n, m>> \notin OpToRel(<, Nat)
  BY NatLessThanWellFounded, WFMin
<1>2. \A n \in S : ~(n < m)
  BY <1>1 DEF OpToRel
<1>3. QED
  BY <1>2

LEMMA RoomsAreFinite ==
  ASSUME RoutesAssumption
  PROVE  /\ IsFiniteSet(Creating) /\ Cardinality(Creating) \in Nat
         /\ IsFiniteSet(Free) /\ Cardinality(Free) \in Nat
<1>1. IsFiniteSet(Writers) /\ IsFiniteSet(Ids)
  BY RoutesCounts DEF RoutesAssumption, Routes!RoutingAssumption
<1>2. IsFiniteSet(Creating) /\ IsFiniteSet(Free)
  BY <1>1, FS_Subset DEF Creating, Free
<1>3. QED
  BY <1>2, FS_CardinalityType

LEMMA RoomsAreFiniteNext ==
  ASSUME RoutesAssumption
  PROVE  /\ IsFiniteSet(Creating') /\ Cardinality(Creating') \in Nat
         /\ IsFiniteSet(Free') /\ Cardinality(Free') \in Nat
<1>1. IsFiniteSet(Writers) /\ IsFiniteSet(Ids)
  BY RoutesCounts DEF RoutesAssumption, Routes!RoutingAssumption
<1>2. IsFiniteSet(Creating') /\ IsFiniteSet(Free')
  BY <1>1, FS_Subset DEF Creating, Free
<1>3. QED
  BY <1>2, FS_CardinalityType

(* Fewer creations, and no fewer ids.                                       *)
LEMMA RoomStays ==
  ASSUME RoutesAssumption, Room, Creating' \subseteq Creating, Free \subseteq Free'
  PROVE  Room'
<1>1. Cardinality(Creating') <= Cardinality(Creating)
  BY RoomsAreFinite, FS_Subset
<1>2. Cardinality(Free) <= Cardinality(Free')
  BY RoomsAreFiniteNext, FS_Subset
<1>3. Room' <=> Cardinality(Creating') <= Cardinality(Free')
  BY DEF Room
<1>4. QED
  BY <1>1, <1>2, <1>3, RoomsAreFinite, RoomsAreFiniteNext DEF Room

(* A creation finds an id, and AUTOINCREMENT the least.                     *)
LEMMA NextIdIsFree ==
  ASSUME RoutesAssumption, Room, NEW c \in Writers, Routes!Creates(c)
  PROVE  Routes!NextId \in Free
<1>1. Free # {}
  <2> SUFFICES ASSUME Free = {} PROVE FALSE
    OBVIOUS
  <2>1. Cardinality(Free) = 0
    BY FS_EmptySet
  <2>2. Cardinality(Creating) = 0
    BY <2>1, RoomsAreFinite DEF Room
  <2>3. Creating = {}
    BY <2>2, RoomsAreFinite, FS_EmptySet
  <2>4. QED
    BY <2>3 DEF Creating
<1>2. Free \in SUBSET Nat
  <2>1. IsFiniteSet(Ids) /\ Ids = 1 .. Cardinality(Ids)
    BY RoutesCounts DEF RoutesAssumption, Routes!RoutingAssumption
  <2>2. Cardinality(Ids) \in Nat
    BY <2>1, FS_CardinalityType
  <2>3. \A n \in Nat : 1 .. n \subseteq Nat
    OBVIOUS
  <2>4. Ids \subseteq Nat
    BY <2>1, <2>2, <2>3
  <2>5. QED
    BY <2>4 DEF Free
<1>3. PICK m \in Free : \A n \in Free : m <= n
  BY <1>1, <1>2, LeastId
<1>4. m \in Ids /\ endpoints[m] = Unused /\ \A j \in Ids : endpoints[j] = Unused => m <= j
  BY <1>3 DEF Free
<1>5. QED
  BY <1>4 DEF Routes!NextId, Free

-------------------------------------------------------------------------------
(* The steps.                                                               *)

LEMMA NothingElse ==
  ASSUME RoutesAssumption
  PROVE  /\ Nothing \notin Ids /\ Nothing \notin Bodies /\ Nothing \notin Tools
         /\ Nothing \notin Routes!Types /\ Nothing \notin Routes!Endpoint
         /\ Unused \notin Routes!Endpoint /\ Deleted \notin Routes!Endpoint /\ Unused # Deleted
BY DEF RoutesAssumption, Routes!RoutingAssumption

LEMMA RoutesInitHolds ==
  ASSUME RoutesAssumption, Routes!Init
  PROVE  Routes!IInv /\ Routes!MostSpecific
<1>1. EndpointsOK
  <2>1. \A x \in Params, t \in Tools :
          [method |-> "GET", path |-> <<"orders", x>>, tool |-> t] \in Routes!Endpoint
    BY DEF RoutesAssumption, Routes!RoutingAssumption, Routes!Endpoint, Routes!Methods
  <2>2. endpoints \in [Ids -> Routes!Endpoint \cup {Unused}]
    BY <2>1 DEF Routes!Init
  <2>3. \A i \in Routes!Stored : i = 1
    BY <2>2 DEF Routes!Init, Routes!Stored
  <2>4. QED
    BY <2>2, <2>3 DEF EndpointsOK
<1>2. RoutesRequestsOK
  BY DEF Routes!Init, RoutesRequestsOK, ClientOK, Routes!Creates, Routes!InSteps
<1>3. Room
  <2>1. Creating = {}
    BY DEF Creating, Routes!Creates, Routes!Init, RoutesAssumption, Routes!RoutingAssumption
  <2>2. QED
    BY <2>1, RoomsAreFinite, FS_EmptySet DEF Room
<1>4. Routes!MostSpecific
  BY DEF Routes!Init, Routes!MostSpecific, RoutesAssumption, Routes!RoutingAssumption
<1>5. QED
  BY <1>1, <1>2, <1>3, <1>4, RoutesParts

(* A request that is over needs nothing.                                    *)
LEMMA EndKeeps ==
  ASSUME RoutesAssumption, RoutesRequestsOK, NEW c \in (Writers \cup Callers),
         NEW how \in {"refused", "missing", "error", "done"}, Routes!End(c, how),
         asked' = [d \in (Writers \cup Callers) |-> asked'[d]], ran' \in [(Writers \cup Callers) -> Routes!Types \cup {Nothing}],
         \A d \in (Writers \cup Callers) \ {c} : ran'[d] = ran[d],
         ran'[c] # Nothing => how = "done" \/ c \in Writers
  PROVE  RoutesRequestsOK' /\ Creating' \subseteq Creating
<1>1. /\ route_step' = [route_step EXCEPT ![c] = how]
      /\ target' = [target EXCEPT ![c] = Nothing] /\ body' = [body EXCEPT ![c] = Nothing]
      /\ read' = [read EXCEPT ![c] = Nothing] /\ tool' = [tool EXCEPT ![c] = Nothing]
  BY DEF Routes!End, Routes!Goto
<1>2. /\ route_step'[c] = how /\ target'[c] = Nothing /\ body'[c] = Nothing
      /\ read'[c] = Nothing /\ tool'[c] = Nothing
  BY <1>1 DEF RoutesRequestsOK
<1>3. \A d \in (Writers \cup Callers) \ {c} :
        /\ route_step'[d] = route_step[d] /\ target'[d] = target[d] /\ body'[d] = body[d]
        /\ read'[d] = read[d] /\ tool'[d] = tool[d] /\ ran'[d] = ran[d]
  BY <1>1 DEF RoutesRequestsOK
<1>4. ClientOK(c)'
  BY <1>2 DEF ClientOK, Routes!Creates, Routes!InSteps
<1>5. \A d \in (Writers \cup Callers) \ {c} : ClientOK(d)'
  BY <1>3 DEF RoutesRequestsOK, ClientOK, Routes!Creates
<1>6. RoutesRequestsOK'
  BY <1>1, <1>4, <1>5 DEF RoutesRequestsOK
<1>7. Creating' \subseteq Creating
  <2>1. Writers \subseteq (Writers \cup Callers)
    BY DEF RoutesAssumption, Routes!RoutingAssumption
  <2>2. QED
    BY <1>2, <1>3, <2>1 DEF Creating, Routes!Creates
<1>8. QED
  BY <1>6, <1>7

(* A request that ends and leaves the endpoints alone.                      *)
LEMMA EndAloneKeeps ==
  ASSUME RoutesAssumption, Routes!IInv, NEW c \in (Writers \cup Callers),
         NEW how \in {"refused", "missing", "error", "done"}, Routes!End(c, how), UNCHANGED endpoints,
         asked' = [d \in (Writers \cup Callers) |-> asked'[d]], ran' \in [(Writers \cup Callers) -> Routes!Types \cup {Nothing}],
         \A d \in (Writers \cup Callers) \ {c} : ran'[d] = ran[d],
         ran'[c] # Nothing => how = "done" \/ c \in Writers
  PROVE  Routes!IInv'
<1>1. EndpointsOK /\ RoutesRequestsOK /\ Room
  BY RoutesParts
<1>2. RoutesRequestsOK' /\ Creating' \subseteq Creating
  BY <1>1, EndKeeps
<1>3. EndpointsOK' /\ Free' = Free
  BY <1>1 DEF EndpointsOK, Routes!Stored, Free
<1>4. Room'
  BY <1>1, <1>2, <1>3, RoomStays
<1>5. QED
  BY <1>2, <1>3, <1>4, RoutesParts

LEMMA BeginCreateKeeps ==
  ASSUME RoutesAssumption, Routes!IInv, NEW c \in (Writers \cup Callers), NEW b \in Bodies, Routes!BeginCreate(c, b)
  PROVE  Routes!IInv'
<1>1. EndpointsOK /\ RoutesRequestsOK /\ Room
  BY RoutesParts
<1>2. /\ c \in Writers /\ body[c] = Nothing /\ target[c] = Nothing /\ read[c] = Nothing
      /\ tool[c] = Nothing
  BY <1>1 DEF Routes!BeginCreate, Routes!Idle, RoutesRequestsOK, ClientOK, Routes!InSteps
<1>3. b \in Routes!Endpoint /\ ~Routes!IsBlank(b)
  BY DEF Routes!BeginCreate, RoutesAssumption, Routes!RoutingAssumption, Routes!Endpoint
<1>4. /\ route_step' = [route_step EXCEPT ![c] = "check"] /\ body' = [body EXCEPT ![c] = b]
      /\ asked' = [asked EXCEPT ![c] = Nothing] /\ ran' = [ran EXCEPT ![c] = Nothing]
      /\ UNCHANGED <<endpoints, target, read, tool>>
  BY DEF Routes!BeginCreate, Routes!Goto, Routes!Forget
<1>5. RoutesRequestsOK'
  <2>1. ClientOK(c)'
    <3>1. /\ route_step'[c] = "check" /\ body'[c] = b /\ ran'[c] = Nothing
          /\ target'[c] = Nothing /\ read'[c] = Nothing /\ tool'[c] = Nothing
      BY <1>1, <1>2, <1>4 DEF RoutesRequestsOK
    <3>2. b # Nothing
      BY NothingElse
    <3>3. QED
      BY <1>2, <1>3, <3>1, <3>2 DEF ClientOK, Routes!Creates, Routes!InSteps
  <2>2. \A d \in (Writers \cup Callers) \ {c} : ClientOK(d)'
    BY <1>1, <1>4 DEF RoutesRequestsOK, ClientOK, Routes!Creates
  <2>3. QED
    BY <1>1, <1>4, <2>1, <2>2 DEF RoutesRequestsOK, Routes!InSteps
<1>6. EndpointsOK' /\ Free' = Free
  BY <1>1, <1>4 DEF EndpointsOK, Routes!Stored, Free
<1>7. Room'
  <2>1. Creating' \subseteq Creating \cup {c} /\ c \notin Creating
    <3>1. Writers \subseteq (Writers \cup Callers)
      BY DEF RoutesAssumption, Routes!RoutingAssumption
    <3>2. QED
      BY <1>1, <1>2, <1>4, <3>1 DEF Creating, Routes!Creates, RoutesRequestsOK
  <2>2. Cardinality(Creating \cup {c}) = Cardinality(Creating) + 1
        /\ IsFiniteSet(Creating \cup {c})
    BY <2>1, RoomsAreFinite, FS_AddElement
  <2>3. Cardinality(Creating') <= Cardinality(Creating \cup {c})
    BY <2>1, <2>2, FS_Subset
  <2>4. Cardinality(Free) > Cardinality(Creating)
    BY RoutesCounts DEF Routes!BeginCreate, Free, Creating
  <2>5. Cardinality(Creating') <= Cardinality(Free')
    BY <1>6, <2>2, <2>3, <2>4, RoomsAreFinite, RoomsAreFiniteNext
  <2>6. QED
    BY <2>5 DEF Room
<1>8. QED
  BY <1>5, <1>6, <1>7, RoutesParts

LEMMA BeginUpdateKeeps ==
  ASSUME RoutesAssumption, Routes!IInv, NEW c \in (Writers \cup Callers), NEW i \in Ids, NEW b \in Bodies,
         Routes!BeginUpdate(c, i, b)
  PROVE  Routes!IInv'
<1>1. EndpointsOK /\ RoutesRequestsOK /\ Room
  BY RoutesParts
<1>2. c \in Writers /\ body[c] = Nothing /\ tool[c] = Nothing
  BY <1>1 DEF Routes!BeginUpdate, Routes!Idle, RoutesRequestsOK, ClientOK, Routes!InSteps
<1>3. endpoints[i] \in Routes!Endpoint
  BY <1>1 DEF Routes!BeginUpdate, Routes!Stored, EndpointsOK
<1>4. /\ route_step' = [route_step EXCEPT ![c] = "check"] /\ body' = [body EXCEPT ![c] = b]
      /\ target' = [target EXCEPT ![c] = i] /\ read' = [read EXCEPT ![c] = endpoints[i]]
      /\ asked' = [asked EXCEPT ![c] = Nothing] /\ ran' = [ran EXCEPT ![c] = Nothing]
      /\ UNCHANGED <<endpoints, tool>>
  BY DEF Routes!BeginUpdate, Routes!Goto, Routes!Forget
<1>5. RoutesRequestsOK'
  <2>1. ClientOK(c)'
    BY <1>1, <1>2, <1>3, <1>4, NothingElse DEF RoutesRequestsOK, ClientOK, Routes!Creates, Routes!InSteps
  <2>2. \A d \in (Writers \cup Callers) \ {c} : ClientOK(d)'
    BY <1>1, <1>4 DEF RoutesRequestsOK, ClientOK, Routes!Creates
  <2>3. QED
    BY <1>1, <1>3, <1>4, <2>1, <2>2 DEF RoutesRequestsOK, Routes!InSteps
<1>6. EndpointsOK' /\ Free' = Free
  BY <1>1, <1>4 DEF EndpointsOK, Routes!Stored, Free
<1>7. Creating' \subseteq Creating
  <2>1. Writers \subseteq (Writers \cup Callers)
    BY DEF RoutesAssumption, Routes!RoutingAssumption
  <2>2. QED
    BY <1>1, <1>4, <2>1, NothingElse DEF Creating, Routes!Creates, RoutesRequestsOK
<1>8. QED
  BY <1>1, <1>5, <1>6, <1>7, RoomStays, RoutesParts

LEMMA CheckKeeps ==
  ASSUME RoutesAssumption, Routes!IInv, NEW c \in (Writers \cup Callers), Routes!Check(c)
  PROVE  Routes!IInv'
<1>1. EndpointsOK /\ RoutesRequestsOK /\ Room
  BY RoutesParts
<1>2. route_step[c] = "check" /\ c \in Writers /\ UNCHANGED <<endpoints, asked, ran>>
  BY <1>1 DEF Routes!Check, Routes!Keep, RoutesRequestsOK, ClientOK, Routes!InSteps
<1>3. CASE Routes!End(c, "refused")
  BY <1>1, <1>2, <1>3, EndAloneKeeps DEF RoutesRequestsOK
<1>4. CASE Routes!Goto(c, "write") /\ UNCHANGED <<target, body, read, tool>>
  <2>1. RoutesRequestsOK'
    <3>1. route_step' = [route_step EXCEPT ![c] = "write"]
      BY <1>4 DEF Routes!Goto
    <3>2. \A d \in (Writers \cup Callers) : ClientOK(d)'
      BY <1>1, <1>2, <1>4, <3>1 DEF RoutesRequestsOK, ClientOK, Routes!Creates, Routes!InSteps
    <3>3. QED
      BY <1>1, <1>2, <1>4, <3>1, <3>2 DEF RoutesRequestsOK, Routes!InSteps
  <2>2. EndpointsOK' /\ Free' = Free /\ Creating' = Creating
    BY <1>1, <1>2, <1>4 DEF EndpointsOK, Routes!Stored, Free, Creating, Routes!Creates
  <2>3. QED
    BY <1>1, <2>1, <2>2, RoomStays, RoutesParts
<1>5. QED
  BY <1>3, <1>4 DEF Routes!Check

(* What a write stores, and where.                                          *)
LEMMA WritesAnEndpoint ==
  ASSUME RoutesAssumption, Routes!IInv, NEW c \in (Writers \cup Callers), Routes!Write(c)
  PROVE  LET e == IF target[c] = Nothing THEN body[c] ELSE Routes!Set(endpoints[target[c]], body[c])
         IN  /\ c \in Writers /\ body[c] \in Bodies
             /\ target[c] = Nothing => Routes!Creates(c) /\ body[c] \in Routes!Endpoint
             /\ target[c] # Nothing => target[c] \in Routes!Stored /\ endpoints[target[c]] \in Routes!Endpoint
             /\ e \in Routes!Endpoint
             /\ Routes!Place(c) \in Ids
<1> DEFINE e == IF target[c] = Nothing THEN body[c] ELSE Routes!Set(endpoints[target[c]], body[c])
<1>1. EndpointsOK /\ RoutesRequestsOK /\ Room
  BY RoutesParts
<1>2. /\ c \in Writers /\ body[c] \in Bodies
      /\ body[c] \in [method : Routes!Methods \cup {Blank, NoField}, path : Paths \cup {NoField},
                      tool : Tools \cup {NoField}]
      /\ target[c] = Nothing => Routes!Creates(c) /\ body[c] \in Routes!Endpoint
      /\ target[c] # Nothing => target[c] \in Routes!Stored /\ endpoints[target[c]] \in Routes!Endpoint
  <2>1. c \in Writers /\ body[c] # Nothing
    BY <1>1 DEF Routes!Write, RoutesRequestsOK, ClientOK, Routes!InSteps
  <2>2. body[c] \in Bodies
    BY <1>1, <2>1 DEF RoutesRequestsOK
  <2>3. target[c] = Nothing => Routes!Creates(c) /\ body[c] \in Routes!Endpoint
    BY <1>1, <2>1 DEF RoutesRequestsOK, ClientOK, Routes!Creates
  <2>4. target[c] # Nothing => target[c] \in Routes!Stored /\ endpoints[target[c]] \in Routes!Endpoint
    BY <1>1 DEF Routes!Write, Routes!Stored, EndpointsOK
  <2>5. QED
    BY <2>1, <2>2, <2>3, <2>4 DEF RoutesAssumption, Routes!RoutingAssumption
<1>3. e \in Routes!Endpoint
  BY <1>2 DEF Routes!Set, Routes!Endpoint
<1>4. Routes!Place(c) \in Ids
  BY <1>1, <1>2, NextIdIsFree DEF Routes!Place, Free, Routes!Stored
<1>5. QED
  BY <1>2, <1>3, <1>4

(* The write of an update, or of a creation, gives an endpoint its tool.    *)
LEMMA WriteKeeps ==
  ASSUME RoutesAssumption, Routes!IInv, NEW c \in (Writers \cup Callers), Routes!Write(c)
  PROVE  Routes!IInv'
<1> DEFINE e == IF target[c] = Nothing THEN body[c] ELSE Routes!Set(endpoints[target[c]], body[c])
<1>1. EndpointsOK /\ RoutesRequestsOK /\ Room
  BY RoutesParts
<1>2. /\ c \in Writers /\ body[c] \in Bodies
      /\ target[c] = Nothing => Routes!Creates(c) /\ body[c] \in Routes!Endpoint
      /\ target[c] # Nothing => target[c] \in Routes!Stored /\ endpoints[target[c]] \in Routes!Endpoint
  BY WritesAnEndpoint
<1>3. e \in Routes!Endpoint
  BY WritesAnEndpoint
<1>4. Routes!Place(c) \in Ids
  BY WritesAnEndpoint
<1>5. PICK how \in {"error", "done"} : Routes!End(c, how)
  BY DEF Routes!Write
<1>6. /\ endpoints' = [endpoints EXCEPT ![Routes!Place(c)] = e]
      /\ UNCHANGED <<asked, ran>>
  BY DEF Routes!Write, Routes!Keep
<1>7. endpoints' \in [Ids -> Routes!Endpoint \cup {Unused, Deleted}]
  BY <1>1, <1>3, <1>6 DEF EndpointsOK
<1>8. \A i \in Routes!Stored : i # Routes!Place(c) => endpoints[i].tool # e.tool
  <2>1. CASE target[c] = Nothing
    BY <1>2, <2>1, NothingElse DEF Routes!Write, Routes!Clash, Routes!Stored
  <2>2. CASE target[c] # Nothing /\ body[c].tool = NoField
    BY <1>1, <1>2, <2>2 DEF Routes!Set, Routes!Place, EndpointsOK
  <2>3. CASE target[c] # Nothing /\ body[c].tool # NoField
    BY <1>2, <2>3 DEF Routes!Write, Routes!Clash, Routes!Set, Routes!Place
  <2>4. QED
    BY <2>1, <2>2, <2>3
<1>9. EndpointsOK'
  <2> HIDE DEF e
  <2>1. \A i \in Routes!Stored' : i = Routes!Place(c) \/ (i \in Routes!Stored /\ endpoints'[i] = endpoints[i])
    BY <1>1, <1>6 DEF Routes!Stored, EndpointsOK
  <2>2. endpoints'[Routes!Place(c)] = e
    BY <1>1, <1>4, <1>6 DEF EndpointsOK
  <2>3. \A i, j \in Routes!Stored' : endpoints'[i].tool = endpoints'[j].tool => i = j
    BY <1>1, <1>8, <2>1, <2>2 DEF EndpointsOK
  <2>4. QED
    BY <1>7, <2>3 DEF EndpointsOK
<1>10. RoutesRequestsOK' /\ Creating' \subseteq Creating
  BY <1>1, <1>2, <1>5, <1>6, EndKeeps DEF RoutesRequestsOK
<1>11. Room'
  <2>1. CASE target[c] # Nothing
    <3>1. Routes!Place(c) \notin Free /\ e # Unused
      BY <1>2, <1>3, <2>1, NothingElse DEF Routes!Place, Free, Routes!Stored
    <3> HIDE DEF e
    <3>2. Free \subseteq Free'
      BY <1>1, <1>6, <3>1 DEF Free, EndpointsOK
    <3>3. QED
      BY <1>1, <1>10, <3>2, RoomStays
  <2>2. CASE target[c] = Nothing
    <3>1. c \in Creating /\ c \notin Creating'
      BY <1>1, <1>2, <1>5, <2>2 DEF Creating, Routes!Creates, Routes!End, RoutesRequestsOK
    <3>2. Routes!Place(c) \in Free
      BY <1>1, <1>2, <2>2, NextIdIsFree DEF Routes!Place
    <3>3. Free \ {Routes!Place(c)} \subseteq Free'
      BY <1>1, <1>6 DEF Free, EndpointsOK
    <3>4. Cardinality(Creating \ {c}) = Cardinality(Creating) - 1 /\ IsFiniteSet(Creating \ {c})
      BY <3>1, RoomsAreFinite, FS_RemoveElement
    <3>5. Cardinality(Free \ {Routes!Place(c)}) = Cardinality(Free) - 1
      BY <3>2, RoomsAreFinite, FS_RemoveElement
    <3>6. Cardinality(Creating') <= Cardinality(Creating \ {c})
      BY <1>10, <3>1, <3>4, FS_Subset
    <3>7. Cardinality(Free \ {Routes!Place(c)}) <= Cardinality(Free')
      BY <3>3, RoomsAreFiniteNext, FS_Subset
    <3>8. Cardinality(Creating') <= Cardinality(Free')
      BY <1>1, <3>4, <3>5, <3>6, <3>7, RoomsAreFinite, RoomsAreFiniteNext DEF Room
    <3>9. QED
      BY <3>8 DEF Room
  <2>3. QED
    BY <2>1, <2>2
<1>12. QED
  BY <1>9, <1>10, <1>11, RoutesParts

LEMMA DeleteKeeps ==
  ASSUME RoutesAssumption, Routes!IInv, NEW c \in (Writers \cup Callers), NEW i \in Ids, Routes!Delete(c, i)
  PROVE  Routes!IInv'
<1>1. EndpointsOK /\ RoutesRequestsOK /\ Room
  BY RoutesParts
<1>2. /\ i \in Routes!Stored /\ endpoints' = [endpoints EXCEPT ![i] = Deleted] /\ Routes!End(c, "done")
      /\ asked' = [asked EXCEPT ![c] = Nothing] /\ ran' = [ran EXCEPT ![c] = Nothing]
  BY DEF Routes!Delete, Routes!Forget
<1>3. RoutesRequestsOK' /\ Creating' \subseteq Creating
  BY <1>1, <1>2, EndKeeps DEF RoutesRequestsOK
<1>4. EndpointsOK'
  <2>1. \A j \in Routes!Stored' : j \in Routes!Stored /\ endpoints'[j] = endpoints[j]
    BY <1>1, <1>2 DEF Routes!Stored, EndpointsOK
  <2>2. QED
    BY <1>1, <1>2, <2>1 DEF EndpointsOK
<1>5. Free \subseteq Free'
  BY <1>1, <1>2 DEF Free, Routes!Stored, EndpointsOK
<1>6. QED
  BY <1>1, <1>3, <1>4, <1>5, RoomStays, RoutesParts

LEMMA AskKeeps ==
  ASSUME RoutesAssumption, Routes!IInv, NEW c \in (Writers \cup Callers), NEW q, Routes!Idle(c),
         NEW then \in Tools \cup {Nothing}, NEW how,
         \/ how \in {"error", "missing", "refused"} /\ then = Nothing
         \/ how = "call" /\ then # Nothing,
         Routes!Ask(c, q, how, then)
  PROVE  Routes!IInv'
<1>1. EndpointsOK /\ RoutesRequestsOK /\ Room
  BY RoutesParts
<1>2. body[c] = Nothing /\ target[c] = Nothing /\ read[c] = Nothing
  BY <1>1 DEF Routes!Idle, RoutesRequestsOK, ClientOK, Routes!InSteps
<1>3. /\ route_step' = [route_step EXCEPT ![c] = how] /\ tool' = [tool EXCEPT ![c] = then]
      /\ asked' = [asked EXCEPT ![c] = q] /\ ran' = [ran EXCEPT ![c] = Nothing]
      /\ UNCHANGED <<endpoints, target, body, read>>
  BY DEF Routes!Ask, Routes!Goto
<1>4. RoutesRequestsOK'
  <2>1. ClientOK(c)'
    <3>1. /\ route_step'[c] = how /\ tool'[c] = then /\ ran'[c] = Nothing
          /\ body'[c] = Nothing /\ target'[c] = Nothing /\ read'[c] = Nothing
      BY <1>1, <1>2, <1>3 DEF RoutesRequestsOK
    <3>2. QED
      BY <3>1 DEF ClientOK, Routes!Creates, Routes!InSteps
  <2>2. \A d \in (Writers \cup Callers) \ {c} : ClientOK(d)'
    BY <1>1, <1>3 DEF RoutesRequestsOK, ClientOK, Routes!Creates
  <2>3. QED
    BY <1>1, <1>3, <2>1, <2>2 DEF RoutesRequestsOK
<1>5. EndpointsOK' /\ Free' = Free /\ Creating' = Creating
  BY <1>1, <1>3 DEF EndpointsOK, Routes!Stored, Free, Creating, Routes!Creates
<1>6. QED
  BY <1>1, <1>4, <1>5, RoomStays, RoutesParts

LEMMA RouteKeeps ==
  ASSUME RoutesAssumption, Routes!IInv, NEW c \in (Writers \cup Callers), NEW q \in Requests, Routes!Route(c, q)
  PROVE  Routes!IInv'
<1>1. \A i \in Routes!BestMatch(q) : endpoints[i].tool \in Tools
  BY RoutesParts DEF EndpointsOK, Routes!BestMatch, Routes!Matches, Routes!Stored, Routes!Endpoint
<1>2. Routes!Idle(c)
  BY DEF Routes!Route
<1>3. CASE Routes!Ask(c, q, "error", Nothing) \/ Routes!Ask(c, q, "missing", Nothing)
  BY <1>2, <1>3, AskKeeps
<1>4. ASSUME NEW i \in Routes!BestMatch(q),
             Routes!Ask(c, [method |-> q.method, best |-> endpoints[i].path,
                     others |-> {endpoints[j].path : j \in Routes!Matches(q)}], "call", endpoints[i].tool)
      PROVE  Routes!IInv'
  BY <1>1, <1>2, <1>4, AskKeeps, NothingElse
<1>5. QED
  BY <1>3, <1>4 DEF Routes!Route

LEMMA AssertAllowedKeeps ==
  ASSUME RoutesAssumption, Routes!IInv, NEW c \in (Writers \cup Callers), NEW t \in Tools, NEW admin \in BOOLEAN,
         Routes!AssertAllowed(c, t, admin)
  PROVE  Routes!IInv'
<1>1. Routes!Idle(c) /\ t # Nothing
  BY NothingElse DEF Routes!AssertAllowed
<1>2. \E how \in {"error", "refused"} : Routes!Ask(c, [admin |-> admin], how, Nothing)
      \/ Routes!Ask(c, [admin |-> admin], "call", t)
  BY DEF Routes!AssertAllowed
<1>3. QED
  BY <1>1, <1>2, AskKeeps

(* The types that infer_tool_type knows.                                    *)
LEMMA TypesOfEndpoints ==
  ASSUME RoutesAssumption, NEW e \in Routes!Endpoint, Routes!TypeOf(e) # Nothing
  PROVE  Routes!TypeOf(e) \in Routes!Types /\ (e.method = "GET" => Routes!TypeOf(e) \in Routes!ReadTypes)
BY KnownShapes DEF Routes!TypeOf, Routes!Endpoint

LEMMA CallKeeps ==
  ASSUME RoutesAssumption, Routes!IInv, NEW c \in (Writers \cup Callers), Routes!Call(c)
  PROVE  Routes!IInv'
<1>1. EndpointsOK /\ RoutesRequestsOK /\ Room
  BY RoutesParts
<1>2. UNCHANGED <<endpoints, asked>> /\ ran[c] = Nothing
  BY <1>1 DEF Routes!Call, RoutesRequestsOK, ClientOK
<1>3. ASSUME NEW how \in {"missing", "refused"}, Routes!End(c, how), UNCHANGED ran
      PROVE  Routes!IInv'
  BY <1>1, <1>2, <1>3, EndAloneKeeps DEF RoutesRequestsOK
<1>4. ASSUME NEW i \in Routes!Stored, Routes!TypeOf(endpoints[i]) # Nothing, Routes!End(c, "done"),
             ran' = [ran EXCEPT ![c] = Routes!TypeOf(endpoints[i])]
      PROVE  Routes!IInv'
  <2>1. Routes!TypeOf(endpoints[i]) \in Routes!Types
    BY <1>1, <1>4, TypesOfEndpoints DEF EndpointsOK, Routes!Stored
  <2>2. ran' \in [(Writers \cup Callers) -> Routes!Types \cup {Nothing}] /\ \A d \in (Writers \cup Callers) \ {c} : ran'[d] = ran[d]
    BY <1>1, <1>4, <2>1 DEF RoutesRequestsOK
  <2>3. QED
    BY <1>1, <1>2, <1>4, <2>2, EndAloneKeeps DEF RoutesRequestsOK
<1>5. QED
  BY <1>3, <1>4 DEF Routes!Call

LEMMA StutterKeeps ==
  ASSUME RoutesAssumption, Routes!IInv, UNCHANGED Routes!vars
  PROVE  Routes!IInv'
<1>1. EndpointsOK /\ RoutesRequestsOK /\ Room
  BY RoutesParts
<1>2. EndpointsOK' /\ Free' = Free /\ Creating' = Creating
  BY <1>1 DEF EndpointsOK, Routes!Stored, Free, Creating, Routes!Creates, Routes!vars
<1>3. RoutesRequestsOK'
  BY <1>1 DEF Routes!vars, RoutesRequestsOK, ClientOK, Routes!Creates
<1>4. QED
  BY <1>1, <1>2, <1>3, RoomStays, RoutesParts

LEMMA ActsKeep ==
  ASSUME RoutesAssumption, Routes!IInv, NEW c \in (Writers \cup Callers), NEW bodies \in SUBSET Bodies,
         NEW requests \in SUBSET Requests, Routes!Acts(c, bodies, requests)
  PROVE  Routes!IInv'
<1>1. CASE Routes!WriteFails(c) \/ Routes!WriteNothing(c)
  <2>1. RoutesRequestsOK
    BY RoutesParts
  <2>2. c \in Writers /\ UNCHANGED <<endpoints, asked, ran>>
    BY <1>1, <2>1 DEF Routes!WriteFails, Routes!WriteNothing, Routes!Keep, RoutesRequestsOK, ClientOK, Routes!InSteps
  <2>3. \E how \in {"refused", "error"} : Routes!End(c, how)
    BY <1>1 DEF Routes!WriteFails, Routes!WriteNothing
  <2>4. QED
    BY <2>1, <2>2, <2>3, EndAloneKeeps DEF RoutesRequestsOK
<1>2. QED
  BY <1>1, BeginCreateKeeps, BeginUpdateKeeps, CheckKeeps, WriteKeeps, DeleteKeeps, RouteKeeps,
     AssertAllowedKeeps, CallKeeps DEF Routes!Acts

-------------------------------------------------------------------------------
(* The most specific route.                                                 *)

Specific(a) ==
  a # Nothing /\ "best" \in DOMAIN a =>
    \A p \in a.others, q \in Requests : Routes!Fits(a.best, q.path) => Routes!Fits(p, q.path)

LEMMA RouteIsSpecific ==
  ASSUME RoutesAssumption, EndpointsOK, ~Routes!ListRaises, NEW q \in Requests, NEW i \in Routes!BestMatch(q)
  PROVE  Specific([method |-> q.method, best |-> endpoints[i].path,
                   others |-> {endpoints[j].path : j \in Routes!Matches(q)}])
<1>1. SUFFICES ASSUME NEW j \in Routes!Matches(q), NEW r \in Requests, Routes!Fits(endpoints[i].path, r.path)
               PROVE  Routes!Fits(endpoints[j].path, r.path)
  BY DEF Specific
<1>2. /\ endpoints[i] \in Routes!Endpoint /\ endpoints[j] \in Routes!Endpoint
      /\ endpoints[i].method = q.method /\ endpoints[j].method = q.method
      /\ Routes!Fits(endpoints[i].path, q.path) /\ Routes!Fits(endpoints[j].path, q.path)
      /\ Routes!Placeholders(endpoints[i].path) <= Routes!Placeholders(endpoints[j].path)
      /\ Routes!TypeOf(endpoints[i]) # Nothing /\ Routes!TypeOf(endpoints[j]) # Nothing
  BY DEF Routes!BestMatch, Routes!Matches, EndpointsOK, Routes!Stored, Routes!ListRaises
<1>3. /\ endpoints[i].path \in Paths /\ endpoints[j].path \in Paths
      /\ q.path \in Seq(STRING) /\ r.path \in Seq(STRING) /\ q.method \in Routes!Methods
  BY <1>2 DEF RoutesAssumption, Routes!RoutingAssumption, Routes!Endpoint
<1>4. Routes!ToolType(q.method, endpoints[i].path) # Nothing /\ Routes!ToolType(q.method, endpoints[j].path) # Nothing
  BY <1>2 DEF Routes!TypeOf
<1>5. QED
  BY <1>1, <1>2, <1>3, <1>4, FewerPlaceholders

(* What was asked changes only for the caller that asks.                    *)
LEMMA AskedAnew ==
  ASSUME RoutesAssumption, Routes!IInv, NEW c \in (Writers \cup Callers), NEW bodies \in SUBSET Bodies,
         NEW requests \in SUBSET Requests, Routes!Acts(c, bodies, requests)
  PROVE  /\ asked' = [asked EXCEPT ![c] = asked'[c]]
         /\ asked'[c] # asked[c] =>
              \/ asked'[c] = Nothing
              \/ \E admin \in BOOLEAN : asked'[c] = [admin |-> admin]
              \/ Specific(asked'[c])
<1>1. EndpointsOK /\ asked = [d \in (Writers \cup Callers) |-> asked[d]]
  BY RoutesParts DEF RoutesRequestsOK
<1>2. ASSUME NEW q, asked' = [asked EXCEPT ![c] = q]
      PROVE  asked' = [asked EXCEPT ![c] = asked'[c]] /\ asked'[c] = q
  BY <1>1, <1>2
<1>3. CASE \/ \E b \in Bodies : Routes!BeginCreate(c, b) \/ \E i \in Ids : Routes!BeginUpdate(c, i, b)
           \/ \E i \in Ids : Routes!Delete(c, i)
  BY <1>2, <1>3 DEF Routes!BeginCreate, Routes!BeginUpdate, Routes!Delete, Routes!Forget
<1>4. CASE Routes!Check(c) \/ Routes!Write(c) \/ Routes!WriteFails(c) \/ Routes!WriteNothing(c) \/ Routes!Call(c)
  <2>1. asked' = asked
    BY <1>4 DEF Routes!Check, Routes!Write, Routes!WriteFails, Routes!WriteNothing, Routes!Keep, Routes!Call
  <2>2. QED
    BY <1>1, <2>1
<1>5. ASSUME NEW t \in Tools, NEW admin \in BOOLEAN, Routes!AssertAllowed(c, t, admin)
      PROVE  asked' = [asked EXCEPT ![c] = asked'[c]] /\ asked'[c] = [admin |-> admin]
  BY <1>2, <1>5 DEF Routes!AssertAllowed, Routes!Ask
<1>6. ASSUME NEW q \in Requests, Routes!Route(c, q)
      PROVE  asked' = [asked EXCEPT ![c] = asked'[c]] /\ Specific(asked'[c])
  <2>1. CASE asked' = [asked EXCEPT ![c] = q]
    <3>1. "best" \notin DOMAIN q
      BY DEF RoutesAssumption, Routes!RoutingAssumption
    <3>2. QED
      BY <1>2, <2>1, <3>1 DEF Specific
  <2>2. ASSUME ~Routes!ListRaises, NEW i \in Routes!BestMatch(q),
               asked' = [asked EXCEPT ![c] =
                           [method |-> q.method, best |-> endpoints[i].path,
                            others |-> {endpoints[j].path : j \in Routes!Matches(q)}]]
        PROVE  asked' = [asked EXCEPT ![c] = asked'[c]] /\ Specific(asked'[c])
    BY <1>1, <1>2, <2>2, RouteIsSpecific
  <2>3. QED
    BY <1>6, <2>1, <2>2 DEF Routes!Route, Routes!Ask
<1>7. QED
  BY <1>3, <1>4, <1>5, <1>6 DEF Routes!Acts

LEMMA SpecificStep ==
  ASSUME RoutesAssumption, Routes!IInv, Routes!MostSpecific,
         NEW bodies \in SUBSET Bodies, NEW requests \in SUBSET Requests,
         (\E c \in (Writers \cup Callers) : Routes!Acts(c, bodies, requests)) \/ UNCHANGED Routes!vars
  PROVE  Routes!MostSpecific'
<1>1. \A c \in Callers : Specific(asked[c])
  BY DEF Routes!MostSpecific, Specific
<1>2. Callers \subseteq (Writers \cup Callers) /\ asked = [d \in (Writers \cup Callers) |-> asked[d]]
  BY RoutesParts DEF RoutesAssumption, Routes!RoutingAssumption, RoutesRequestsOK
<1>3. \A c \in Callers : Specific(asked'[c])
  <2>1. CASE UNCHANGED Routes!vars
    BY <1>1, <2>1 DEF Routes!vars
  <2>2. ASSUME NEW d \in (Writers \cup Callers), Routes!Acts(d, bodies, requests), NEW c \in Callers
        PROVE  Specific(asked'[c])
    <3>1. CASE c # d
      BY <1>1, <1>2, <2>2, <3>1, AskedAnew
    <3>2. CASE c = d
      <4>1. Specific(Nothing) /\ \A admin \in BOOLEAN : Specific([admin |-> admin])
        BY DEF Specific
      <4>2. QED
        BY <1>1, <2>2, <3>2, <4>1, AskedAnew
    <3>3. QED
      BY <3>1, <3>2
  <2>3. QED
    BY <2>1, <2>2
<1>4. QED
  BY <1>3 DEF Routes!MostSpecific, Specific

-------------------------------------------------------------------------------
(* A client alone.                                                          *)

(* The others have asked for nothing, and go on doing nothing.              *)
LEMMA OnlyOne ==
  ASSUME NEW c \in (Writers \cup Callers), Routes!Others(c)'
  PROVE  \A d \in Callers \ {c} : Callers \subseteq (Writers \cup Callers) =>
           ~Routes!IsRest(d)' /\ ~Routes!IsExecutor(d)'
BY DEF Routes!Others, Routes!IsRest, Routes!IsExecutor

LEMMA OthersStep ==
  ASSUME RoutesAssumption, Routes!IInv, NEW c \in (Writers \cup Callers), NEW bodies \in SUBSET Bodies,
         NEW requests \in SUBSET Requests, Routes!Acts(c, bodies, requests), Routes!Others(c)
  PROVE  Routes!Others(c)'
<1>1. asked' = [asked EXCEPT ![c] = asked'[c]] /\ asked = [d \in (Writers \cup Callers) |-> asked[d]]
  BY AskedAnew, RoutesParts DEF RoutesRequestsOK
<1>2. (\E s : route_step' = [route_step EXCEPT ![c] = s]) /\ route_step = [d \in (Writers \cup Callers) |-> route_step[d]]
  <2>1. route_step = [d \in (Writers \cup Callers) |-> route_step[d]]
    BY RoutesParts DEF RoutesRequestsOK
  <2>2. \E s : route_step' = [route_step EXCEPT ![c] = s]
    BY Zenon DEF Routes!Acts, Routes!BeginCreate, Routes!BeginUpdate, Routes!Check, Routes!Write, Routes!WriteFails, Routes!WriteNothing, Routes!Delete, Routes!Route,
       Routes!AssertAllowed, Routes!Call, Routes!Ask, Routes!End, Routes!Goto
  <2>3. QED
    BY <2>1, <2>2
<1>3. QED
  BY <1>1, <1>2 DEF Routes!Others

(* What was run stays what it was, or is forgotten.                         *)
LEMMA RanBefore ==
  ASSUME RoutesAssumption, NEW c \in (Writers \cup Callers), Routes!Others(c)', Routes!Alone(c),
         ran'[c] = Nothing \/ (ran'[c] = ran[c] /\ asked'[c] = asked[c])
  PROVE  Routes!GetsRead' /\ Routes!ReadonlyNeverWrites'
<1>1. \A d \in Callers \ {c} : ~Routes!IsRest(d)' /\ ~Routes!IsExecutor(d)'
  BY OnlyOne DEF RoutesAssumption, Routes!RoutingAssumption
<1>2. CASE ran'[c] = Nothing
  BY <1>1, <1>2 DEF Routes!GetsRead, Routes!ReadonlyNeverWrites
<1>3. CASE ran'[c] = ran[c] /\ asked'[c] = asked[c]
  <2>1. Routes!GetsRead /\ Routes!ReadonlyNeverWrites
    BY DEF Routes!Alone
  <2>2. Routes!GetsRead'
    BY <1>1, <1>3, <2>1 DEF Routes!GetsRead, Routes!IsRest
  <2>3. Routes!ReadonlyNeverWrites'
    BY <1>1, <1>3, <2>1 DEF Routes!ReadonlyNeverWrites, Routes!IsExecutor
  <2>4. QED
    BY <2>2, <2>3
<1>4. QED
  BY <1>2, <1>3

(* A request ends without an exception; the shapes stay supported.          *)
LEMMA EndsWell ==
  ASSUME RoutesAssumption, Routes!IInv, NEW c \in (Writers \cup Callers), Routes!Others(c)', Routes!Alone(c), Routes!End(c, "refused") \/ Routes!End(c, "missing") \/ Routes!End(c, "done"),
         Routes!ShapesSupported',
         ran'[c] = Nothing \/ (ran'[c] = ran[c] /\ asked'[c] = asked[c])
  PROVE  Routes!Alone(c)'
<1>1. route_step'[c] \in {"refused", "missing", "done"} /\ target'[c] = Nothing /\ body'[c] = Nothing
  BY RoutesParts DEF Routes!End, Routes!Goto, RoutesRequestsOK
<1>2. Routes!AsRead(c)'
  BY <1>1 DEF Routes!AsRead
<1>3. Routes!GetsRead' /\ Routes!ReadonlyNeverWrites'
  BY RanBefore
<1>4. QED
  BY <1>1, <1>2, <1>3 DEF Routes!Alone

(* A request ends in an exception, with a blank path or method stored.      *)
LEMMA EndsBadly ==
  ASSUME RoutesAssumption, Routes!IInv, NEW c \in (Writers \cup Callers), Routes!Others(c)', Routes!Alone(c), Routes!End(c, "error"),
         Routes!ShapesSupported', Routes!HoldsBlank', UNCHANGED <<ran, asked>>
  PROVE  Routes!Alone(c)'
<1>1. target'[c] = Nothing /\ route_step'[c] = "error"
  BY RoutesParts DEF Routes!End, Routes!Goto, RoutesRequestsOK
<1>2. Routes!AsRead(c)'
  BY <1>1 DEF Routes!AsRead
<1>3. Routes!GetsRead' /\ Routes!ReadonlyNeverWrites'
  BY RanBefore
<1>4. QED
  BY <1>2, <1>3 DEF Routes!Alone

LEMMA ShapesStay ==
  ASSUME Routes!ShapesSupported, UNCHANGED endpoints
  PROVE  Routes!ShapesSupported'
BY DEF Routes!ShapesSupported, Routes!Stored

(* Beginnings.                                                              *)
LEMMA BeginAlone ==
  ASSUME RoutesAssumption, Routes!IInv, NEW c \in (Writers \cup Callers), Routes!Others(c)', Routes!Alone(c), NEW b \in Bodies,
         Routes!BeginCreate(c, b) \/ \E i \in Ids : Routes!BeginUpdate(c, i, b)
  PROVE  Routes!Alone(c)'
<1>1. c \in (Writers \cup Callers) /\ RoutesRequestsOK /\ EndpointsOK
  BY RoutesParts
<1>2. /\ route_step'[c] = "check" /\ ran'[c] = Nothing /\ UNCHANGED endpoints /\ body'[c] = b
  BY <1>1 DEF Routes!BeginCreate, Routes!BeginUpdate, Routes!Goto, Routes!Forget, RoutesRequestsOK
<1>3. target'[c] # Nothing => target'[c] \in Routes!Stored' /\ read'[c] = endpoints'[target'[c]]
  <2>1. CASE Routes!BeginCreate(c, b)
    <3>1. target'[c] = Nothing
      BY <1>1, <2>1 DEF Routes!BeginCreate, Routes!Idle, RoutesRequestsOK, ClientOK, Routes!InSteps
    <3>2. QED
      BY <3>1
  <2>2. ASSUME NEW i \in Ids, Routes!BeginUpdate(c, i, b)
        PROVE  target'[c] \in Routes!Stored' /\ read'[c] = endpoints'[target'[c]]
    BY <1>1, <1>2, <2>2 DEF Routes!BeginUpdate, RoutesRequestsOK, Routes!Stored
  <2>3. QED
    BY <2>1, <2>2
<1>4. Routes!AsRead(c)'
  BY <1>2, <1>3 DEF Routes!AsRead
<1>5. Routes!GetsRead' /\ Routes!ReadonlyNeverWrites'
  BY <1>2, RanBefore
<1>6. QED
  BY <1>2, <1>4, <1>5, ShapesStay DEF Routes!Alone

LEMMA CheckAlone ==
  ASSUME RoutesAssumption, Routes!IInv, NEW c \in (Writers \cup Callers), Routes!Others(c)', Routes!Alone(c), Routes!Check(c)
  PROVE  Routes!Alone(c)'
<1>1. c \in (Writers \cup Callers) /\ RoutesRequestsOK /\ UNCHANGED <<endpoints, asked, ran>>
  BY RoutesParts DEF Routes!Check, Routes!Keep
<1>2. Routes!ShapesSupported'
  BY <1>1, ShapesStay DEF Routes!Alone
<1>3. CASE Routes!End(c, "refused")
  BY <1>1, <1>2, <1>3, EndsWell
<1>4. CASE /\ ~Routes!Clash(c) /\ Routes!ToolType(Routes!Merged(c).method, Routes!Merged(c).path) # Nothing
           /\ Routes!Goto(c, "write") /\ UNCHANGED <<target, body, read, tool>>
  <2>1. route_step'[c] = "write"
    BY <1>1, <1>4 DEF Routes!Goto, RoutesRequestsOK
  <2>2. Routes!Clash(c)' = Routes!Clash(c) /\ Routes!Merged(c)' = Routes!Merged(c) /\ Routes!Stored' = Routes!Stored
    BY <1>1, <1>4 DEF Routes!Clash, Routes!Merged, Routes!Stored
  <2>3. Routes!AsRead(c)'
    BY <1>1, <1>4, <2>1, <2>2 DEF Routes!AsRead, Routes!Alone
  <2>4. Routes!GetsRead' /\ Routes!ReadonlyNeverWrites'
    BY <1>1, RanBefore
  <2>5. QED
    BY <1>2, <2>1, <2>3, <2>4 DEF Routes!Alone
<1>5. QED
  BY <1>3, <1>4 DEF Routes!Check

(* What is written is what was validated, or has a blank that was not.      *)
LEMMA WriteAlone ==
  ASSUME RoutesAssumption, Routes!IInv, NEW c \in (Writers \cup Callers), Routes!Others(c)', Routes!Alone(c), Routes!Write(c)
  PROVE  Routes!Alone(c)'
<1> DEFINE e == IF target[c] = Nothing THEN body[c] ELSE Routes!Set(endpoints[target[c]], body[c])
<1>1. c \in (Writers \cup Callers) /\ RoutesRequestsOK /\ EndpointsOK /\ Room
  BY RoutesParts
<1>2. /\ route_step[c] = "write" /\ endpoints' = [endpoints EXCEPT ![Routes!Place(c)] = e]
      /\ Routes!End(c, IF Routes!TypeOf(e) = Nothing THEN "error" ELSE "done") /\ UNCHANGED <<asked, ran>>
  BY DEF Routes!Write, Routes!Keep
<1>3. Routes!ToolType(Routes!Merged(c).method, Routes!Merged(c).path) # Nothing
      /\ (target[c] # Nothing => read[c] = endpoints[target[c]])
  BY <1>2 DEF Routes!Alone, Routes!AsRead
<1>4. body[c] \in Bodies
  BY <1>1, <1>2 DEF RoutesRequestsOK, ClientOK, Routes!InSteps
<1>5. ~Routes!IsBlank(e) => e.method = Routes!Merged(c).method /\ e.path = Routes!Merged(c).path
  <2>1. CASE target[c] = Nothing
    <3>1. body[c] \in Routes!Endpoint /\ ~Routes!IsBlank(body[c])
      BY <1>1, <1>2, <2>1, <1>4, NothingElse DEF RoutesRequestsOK, ClientOK, Routes!Creates
    <3>2. body[c].method # NoField /\ body[c].path # NoField
      BY <3>1 DEF Routes!Endpoint, RoutesAssumption, Routes!RoutingAssumption
    <3>3. QED
      BY <2>1, <3>1, <3>2 DEF Routes!Merged, Routes!IsBlank
  <2>2. CASE target[c] # Nothing
    <3>1. NoField # Blank
      BY DEF RoutesAssumption, Routes!RoutingAssumption
    <3>2. QED
      BY <1>3, <2>2, <3>1 DEF Routes!Merged, Routes!Set, Routes!IsBlank
  <2>3. QED
    BY <2>1, <2>2
<1>6. Routes!TypeOf(e) = Nothing => Routes!IsBlank(e)
  BY <1>3, <1>5 DEF Routes!TypeOf
<1> HIDE DEF e
<1>7. Routes!ShapesSupported'
  <2>1. \A i \in Routes!Stored' : endpoints'[i] = e \/ (i \in Routes!Stored /\ endpoints'[i] = endpoints[i])
    BY <1>1, <1>2 DEF Routes!Stored, EndpointsOK
  <2>2. QED
    BY <1>6, <2>1 DEF Routes!ShapesSupported, Routes!Alone
<1>8. CASE Routes!TypeOf(e) # Nothing
  <2>1. Routes!End(c, "done")
    BY <1>2, <1>8
  <2>2. QED
    BY <1>2, <1>7, <2>1, EndsWell
<1>9. CASE Routes!TypeOf(e) = Nothing
  <2>1. Routes!Place(c) \in Routes!Stored' /\ endpoints'[Routes!Place(c)] = e
    <3>1. Routes!Place(c) \in Ids /\ e \in Routes!Endpoint
      BY <1>1, WritesAnEndpoint DEF e
    <3>2. e \notin {Unused, Deleted}
      BY <3>1 DEF RoutesAssumption, Routes!RoutingAssumption
    <3>3. QED
      BY <1>1, <1>2, <3>1, <3>2 DEF Routes!Stored, EndpointsOK
  <2>2. Routes!HoldsBlank'
    BY <1>6, <1>9, <2>1 DEF Routes!HoldsBlank
  <2>3. Routes!End(c, "error")
    BY <1>2, <1>9
  <2>4. QED
    BY <1>2, <1>7, <2>2, <2>3, EndsBadly
<1>10. QED
  BY <1>8, <1>9

(* One unhappy end does not come about, the other takes a blank.            *)
LEMMA WritesAlone ==
  ASSUME RoutesAssumption, Routes!IInv, NEW c \in (Writers \cup Callers), Routes!Others(c)', Routes!Alone(c)
  PROVE  ~Routes!WriteFails(c) /\ (Routes!ListRaises => Routes!HoldsBlank)
BY DEF Routes!WriteFails, Routes!ListRaises, Routes!HoldsBlank, Routes!Alone, Routes!AsRead, Routes!ShapesSupported

LEMMA DeleteAlone ==
  ASSUME RoutesAssumption, Routes!IInv, NEW c \in (Writers \cup Callers), Routes!Others(c)', Routes!Alone(c), NEW i \in Ids, Routes!Delete(c, i)
  PROVE  Routes!Alone(c)'
<1>1. c \in (Writers \cup Callers) /\ RoutesRequestsOK /\ EndpointsOK
  BY RoutesParts
<1>2. Routes!End(c, "done") /\ ran'[c] = Nothing
  BY <1>1 DEF Routes!Delete, Routes!Forget, RoutesRequestsOK
<1>3. \A j \in Routes!Stored' : j \in Routes!Stored /\ endpoints'[j] = endpoints[j]
  BY <1>1 DEF Routes!Delete, Routes!Stored, EndpointsOK
<1>4. Routes!ShapesSupported'
  BY <1>3 DEF Routes!ShapesSupported, Routes!Alone
<1>5. QED
  BY <1>2, <1>4, EndsWell

(* A question that is answered without a call, or goes on to one that only  *)
(* reads if that was asked for.                                             *)
LEMMA AskAlone ==
  ASSUME RoutesAssumption, Routes!IInv, NEW c \in (Writers \cup Callers), Routes!Others(c)', Routes!Alone(c), Routes!Idle(c),
         NEW q, NEW then, NEW how \in {"missing", "refused", "call", "error"}, Routes!Ask(c, q, how, then),
         how = "error" => Routes!HoldsBlank,
         how = "call" /\ Routes!OnlyReads(c)' =>
           \A i \in Routes!Stored : endpoints[i].tool = then => Routes!TypeOf(endpoints[i]) \in Routes!ReadTypes
  PROVE  Routes!Alone(c)'
<1>1. c \in (Writers \cup Callers) /\ RoutesRequestsOK
  BY RoutesParts
<1>2. /\ route_step'[c] = how /\ ran'[c] = Nothing /\ tool'[c] = then
      /\ UNCHANGED <<endpoints, target, body>>
  BY <1>1 DEF Routes!Ask, Routes!Goto, RoutesRequestsOK
<1>3. target[c] = Nothing
  BY <1>1 DEF Routes!Idle, RoutesRequestsOK, ClientOK, Routes!InSteps
<1>4. Routes!AsRead(c)'
  BY <1>2, <1>3 DEF Routes!AsRead, Routes!Stored, Routes!Alone
<1>5. Routes!GetsRead' /\ Routes!ReadonlyNeverWrites'
  BY <1>2, RanBefore
<1>6. QED
  BY <1>2, <1>4, <1>5, ShapesStay DEF Routes!Alone, Routes!HoldsBlank, Routes!Stored

LEMMA RouteAlone ==
  ASSUME RoutesAssumption, Routes!IInv, NEW c \in (Writers \cup Callers), Routes!Others(c)', Routes!Alone(c), NEW q \in Requests, Routes!Route(c, q)
  PROVE  Routes!Alone(c)'
<1>1. c \in (Writers \cup Callers) /\ RoutesRequestsOK /\ EndpointsOK /\ Routes!Idle(c)
  BY RoutesParts DEF Routes!Route
<1>5. CASE Routes!ListRaises /\ Routes!Ask(c, q, "error", Nothing)
  BY <1>1, <1>5, WritesAlone, AskAlone
<1>2. CASE Routes!Ask(c, q, "missing", Nothing)
  BY <1>1, <1>2, AskAlone
<1>3. ASSUME NEW i \in Routes!BestMatch(q), ~Routes!ListRaises,
             Routes!Ask(c, [method |-> q.method, best |-> endpoints[i].path,
                     others |-> {endpoints[j].path : j \in Routes!Matches(q)}], "call", endpoints[i].tool)
      PROVE  Routes!Alone(c)'
  <2> DEFINE a == [method |-> q.method, best |-> endpoints[i].path,
                   others |-> {endpoints[j].path : j \in Routes!Matches(q)}]
  <2>1. i \in Routes!Stored /\ endpoints[i].method = q.method /\ endpoints[i] \in Routes!Endpoint
    BY <1>1 DEF Routes!BestMatch, Routes!Matches, EndpointsOK, Routes!Stored
  <2>2. asked'[c] = a
    BY <1>1, <1>3 DEF Routes!Ask, RoutesRequestsOK
  <2>3. DOMAIN a = {"method", "best", "others"} /\ a.method = q.method
    OBVIOUS
  <2> HIDE DEF a
  <2>4. Routes!OnlyReads(c)' => q.method = "GET"
    BY <2>2, <2>3 DEF Routes!OnlyReads, Routes!IsRest, Routes!IsExecutor
  <2>5. q.method = "GET" => Routes!TypeOf(endpoints[i]) \in Routes!ReadTypes
    BY <1>3, <2>1, TypesOfEndpoints DEF Routes!ListRaises
  <2>6. \A j \in Routes!Stored : endpoints[j].tool = endpoints[i].tool => j = i
    BY <1>1, <2>1 DEF EndpointsOK
  <2>7. QED
    BY <1>1, <1>3, <2>4, <2>5, <2>6, AskAlone DEF a
<1>4. QED
  BY <1>1, <1>2, <1>3, <1>5 DEF Routes!Route

LEMMA AssertAllowedAlone ==
  ASSUME RoutesAssumption, Routes!IInv, NEW c \in (Writers \cup Callers), Routes!Others(c)', Routes!Alone(c), NEW t \in Tools,
         NEW admin \in BOOLEAN, Routes!AssertAllowed(c, t, admin)
  PROVE  Routes!Alone(c)'
<1> DEFINE q == [admin |-> admin]
<1>1. c \in (Writers \cup Callers) /\ RoutesRequestsOK /\ Routes!Idle(c)
  BY RoutesParts DEF Routes!AssertAllowed
<1>5. CASE Routes!ListRaises /\ Routes!Ask(c, q, "error", Nothing)
  BY <1>1, <1>5, WritesAlone, AskAlone
<1>2. CASE Routes!Ask(c, q, "refused", Nothing)
  BY <1>1, <1>2, AskAlone
<1>3. CASE /\ Routes!Ask(c, q, "call", t)
           /\ admin \/ \A i \in {j \in Routes!Stored : endpoints[j].tool = t} : Routes!TypeOf(endpoints[i]) \in Routes!ReadTypes
  <2>1. asked'[c] = q /\ DOMAIN q = {"admin"} /\ q.admin = admin
    BY <1>1, <1>3 DEF Routes!Ask, RoutesRequestsOK
  <2> HIDE DEF q
  <2>2. Routes!OnlyReads(c)' => ~admin
    BY <2>1 DEF Routes!OnlyReads, Routes!IsRest, Routes!IsExecutor
  <2>3. QED
    BY <1>1, <1>3, <2>2, AskAlone
<1>4. QED
  BY <1>1, <1>2, <1>3, <1>5 DEF Routes!AssertAllowed

LEMMA CallAlone ==
  ASSUME RoutesAssumption, Routes!IInv, NEW c \in (Writers \cup Callers), Routes!Others(c)', Routes!Alone(c), Routes!Call(c)
  PROVE  Routes!Alone(c)'
<1>1. c \in (Writers \cup Callers) /\ RoutesRequestsOK /\ UNCHANGED <<endpoints, asked>> /\ route_step[c] = "call"
  BY RoutesParts DEF Routes!Call
<1>2. Routes!ShapesSupported'
  BY <1>1, ShapesStay DEF Routes!Alone
<1>3. CASE (Routes!End(c, "missing") \/ Routes!End(c, "refused")) /\ UNCHANGED ran
  BY <1>1, <1>2, <1>3, EndsWell
<1>4. ASSUME NEW i \in Routes!Stored, endpoints[i].tool = tool[c], Routes!End(c, "done"),
             ran' = [ran EXCEPT ![c] = Routes!TypeOf(endpoints[i])]
      PROVE  Routes!Alone(c)'
  <2>1. /\ ran'[c] = Routes!TypeOf(endpoints[i]) /\ route_step'[c] = "done"
        /\ target'[c] = Nothing /\ body'[c] = Nothing
    BY <1>1, <1>4 DEF Routes!End, Routes!Goto, RoutesRequestsOK
  <2>2. Routes!OnlyReads(c) => ran'[c] \in Routes!ReadTypes
    BY <1>1, <1>4, <2>1 DEF Routes!Alone, Routes!AsRead
  <2>3. \A d \in Callers \ {c} : ~Routes!IsRest(d)' /\ ~Routes!IsExecutor(d)'
    BY OnlyOne DEF RoutesAssumption, Routes!RoutingAssumption
  <2>4. Routes!GetsRead' /\ Routes!ReadonlyNeverWrites'
    BY <1>1, <2>2, <2>3 DEF Routes!GetsRead, Routes!ReadonlyNeverWrites, Routes!OnlyReads, Routes!IsRest, Routes!IsExecutor
  <2>5. Routes!AsRead(c)'
    BY <2>1 DEF Routes!AsRead
  <2>6. QED
    BY <1>2, <2>1, <2>4, <2>5 DEF Routes!Alone
<1>5. QED
  BY <1>1, <1>3, <1>4 DEF Routes!Call

LEMMA InitAlone ==
  ASSUME RoutesAssumption, NEW c \in (Writers \cup Callers), Routes!Init
  PROVE  Routes!Alone(c)
<1>1. Routes!Others(c) /\ Callers \subseteq (Writers \cup Callers) /\ \A d \in (Writers \cup Callers) : asked[d] = Nothing
  BY DEF Routes!Init, Routes!Others, RoutesAssumption, Routes!RoutingAssumption
<1>2. route_step[c] = "idle" /\ target[c] = Nothing /\ ran[c] = Nothing /\ body[c] = Nothing
  BY <1>1 DEF Routes!Init
<1>3. Routes!ShapesSupported
  <2>1. ASSUME NEW x \in Params
        PROVE  Routes!ToolType("GET", <<"orders", x>>) = "get"
    <3>1. <<"orders", x>> # Blank /\ "orders" \notin Params /\ "search" \notin Params
      BY DEF RoutesAssumption, Routes!RoutingAssumption
    <3>2. Routes!Supported(<<"orders", x>>) /\ Routes!IsItem(<<"orders", x>>) /\ x # "search"
      BY <3>1 DEF Routes!Supported, Routes!Segments, Routes!IsItem
    <3>3. QED
      BY <3>2 DEF Routes!ToolType
  <2>2. \A i \in Routes!Stored : \E x \in Params, t \in Tools :
          endpoints[i] = [method |-> "GET", path |-> <<"orders", x>>, tool |-> t]
    BY DEF Routes!Stored, Routes!Init
  <2>3. "get" # Nothing
    BY NothingElse DEF Routes!Types
  <2>4. ASSUME NEW i \in Routes!Stored
        PROVE  Routes!TypeOf(endpoints[i]) # Nothing
    <3>1. PICK x \in Params, t \in Tools :
            endpoints[i] = [method |-> "GET", path |-> <<"orders", x>>, tool |-> t]
      BY <2>2
    <3>2. endpoints[i].method = "GET" /\ endpoints[i].path = <<"orders", x>>
      BY <3>1
    <3>3. QED
      BY <2>1, <2>3, <3>2 DEF Routes!TypeOf
  <2>5. QED
    BY <2>4 DEF Routes!ShapesSupported
<1>4. QED
  BY <1>1, <1>2, <1>3 DEF Routes!Alone, Routes!AsRead, Routes!GetsRead, Routes!ReadonlyNeverWrites, Routes!IsRest, Routes!IsExecutor

LEMMA AloneStep ==
  ASSUME RoutesAssumption, Routes!IInv, NEW c \in (Writers \cup Callers), Routes!Alone(c), NEW bodies \in SUBSET Bodies,
         NEW requests \in SUBSET Requests,
         Routes!Acts(c, bodies, requests) \/ UNCHANGED Routes!vars
  PROVE  Routes!Alone(c)'
<1>1. CASE UNCHANGED Routes!vars
  BY <1>1 DEF Routes!vars, Routes!Alone, Routes!AsRead, Routes!Stored, Routes!Clash, Routes!Merged, Routes!OnlyReads, Routes!IsRest, Routes!IsExecutor, Routes!Others,
     Routes!ShapesSupported, Routes!HoldsBlank, Routes!GetsRead, Routes!ReadonlyNeverWrites
<1>2. CASE Routes!Acts(c, bodies, requests)
  <2>1. Routes!Others(c)'
    BY <1>2, OthersStep DEF Routes!Alone
  <2>2. CASE Routes!WriteNothing(c)
    BY <2>1, <2>2, EndsWell, ShapesStay DEF Routes!WriteNothing, Routes!Keep, Routes!Alone
  <2>3. QED
    BY <1>2, <2>1, <2>2, BeginAlone, CheckAlone, WriteAlone, WritesAlone, DeleteAlone, RouteAlone,
       AssertAllowedAlone, CallAlone DEF Routes!Acts
<1>3. QED
  BY <1>1, <1>2

-------------------------------------------------------------------------------
(* The theorems on routing.                                                 *)

(* The inductive invariant: among others, tool names stay unique, and no    *)
(* creation is left without an id.                                          *)
THEOREM RoutesInductive == Routes!Spec => []Routes!IInv
<1>1. Routes!Init => Routes!IInv
  BY RoutesInitHolds, RoutesAssumed
<1>2. Routes!IInv /\ [Routes!Next]_(Routes!vars) => Routes!IInv'
  BY ActsKeep, StutterKeeps, RoutesAssumed DEF Routes!Next
<1>3. QED
  BY <1>1, <1>2, PTL DEF Routes!Spec

(* The types of the endpoints and of the requests.                          *)
THEOREM RoutesTypeCorrect == Routes!Spec => []Routes!TypeOK
<1>1. Routes!IInv => Routes!TypeOK
  BY DEF Routes!IInv
<1>2. QED
  BY <1>1, RoutesInductive, PTL

(* Whoever changes endpoints between the look at them and the call, the     *)
(* route that _best_endpoint_match chose was the most specific of those     *)
(* that fitted, for every set of paths that infer_tool_type knows.          *)
THEOREM MostSpecificAnswers == Routes!Spec => []Routes!MostSpecific
<1>1. Routes!Init => Routes!MostSpecific
  BY RoutesInitHolds, RoutesAssumed
<1>2. Routes!IInv /\ Routes!MostSpecific /\ [Routes!Next]_(Routes!vars) => Routes!MostSpecific'
  BY SpecificStep, RoutesAssumed DEF Routes!Next
<1>3. QED
  BY <1>1, <1>2, RoutesInductive, PTL DEF Routes!Spec

-------------------------------------------------------------------------------
(* The composition.                                                         *)

(* What holds in every state of the scenes on routing.                      *)
Routed ==
  /\ scene \in {"credentials", "routes", "one client"}
  /\ scene # "credentials" => Routes!IInv /\ Routes!MostSpecific
  /\ scene = "one client" => Routes!Alone(Solo)

LEMMA InitRouted == MCInit => Routed
BY RoutesInitHolds, InitAlone, RoutesAssumed DEF MCInit, Routed, RoutesAssumption, Routes!RoutingAssumption

LEMMA NextRouted ==
  ASSUME Routed, [MCNext]_<<scene, vars, routes>>
  PROVE  Routed'
<1>1. CASE UNCHANGED <<scene, routes>>
  <2>1. UNCHANGED Routes!vars
    BY <1>1 DEF routes, Routes!vars
  <2>2. QED
    BY <1>1, <2>1, RoutesAssumed, StutterKeeps, SpecificStep, AloneStep DEF Routed, RoutesAssumption, Routes!RoutingAssumption
<1>2. CASE scene = "credentials" /\ UNCHANGED scene
  BY <1>2 DEF Routed
<1>3. CASE scene = "routes" /\ Pair /\ UNCHANGED scene
  <2>1. PICK c \in Writers \cup Callers : Routes!Acts(c, PairBodies, PairRequests)
    BY <1>3 DEF Pair
  <2>2. Routes!IInv' /\ Routes!MostSpecific'
    BY <1>3, <2>1, RoutesAssumed, ActsKeep, SpecificStep DEF Routed, RoutesAssumption, Routes!RoutingAssumption
  <2>3. QED
    BY <1>3, <2>2 DEF Routed
<1>4. CASE scene = "one client" /\ Routes!Acts(Solo, SoloBodies, Requests) /\ UNCHANGED scene
  <2>1. Solo \in Writers \cup Callers /\ SoloBodies \subseteq Bodies
    BY RoutesAssumed DEF RoutesAssumption, Routes!RoutingAssumption
  <2>2. Routes!IInv' /\ Routes!MostSpecific' /\ Routes!Alone(Solo)'
    BY <1>4, <2>1, RoutesAssumed, ActsKeep, SpecificStep, AloneStep DEF Routed
  <2>3. QED
    BY <1>4, <2>2 DEF Routed
<1>5. QED
  BY <1>1, <1>2, <1>3, <1>4, Zenon DEF MCNext

(* A call runs what it should: the most specific route answers, whoever     *)
(* changes endpoints meanwhile; and when nobody does, neither a GET nor a   *)
(* readonly principal runs a tool that writes, every shape that is stored   *)
(* and not supported has a path or a method that an update set to "", and   *)
(* a request that ends in an exception does so while one is stored.         *)
THEOREM CallsRouted == MCSpec => []CallsAreRouted
<1>1. Routed => CallsAreRouted
  BY RoutesAssumed DEF Routed, CallsAreRouted, RoutesAssumption, Routes!RoutingAssumption, Routes!IInv, Routes!Alone, Routes!Others,
     Routes!NoServerError, Routes!HoldsBlank
<1>2. QED
  BY <1>1, InitRouted, NextRouted, PTL DEF MCSpec

===============================================================================
