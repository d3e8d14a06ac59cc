-------------------------------- MODULE Access --------------------------------
(***************************************************************************)
(* auth.py, and the gates of main.py, rest.py and llm.py that use it: API  *)
(* keys, browser sessions, and who is let in.                              *)
(*                                                                         *)
(* Every SELECT and every transaction of a request is one step, and the    *)
(* requests of several threads and processes interleave between them.  The *)
(* passwords, and the lockout of login (module Lockout), are left out, and *)
(* so is AUTH_DISABLED=1, which turns all of this off.                     *)
(***************************************************************************)
EXTENDS Integers, FiniteSets

CONSTANTS
  Clients,   (* requests that may be in progress at once                   *)
  KeyIds,    (* ids of api_key rows                                        *)
  Tokens,    (* session tokens that logins may give out                    *)
  None,      (* no such credential in the request, no request              *)
  InitKeys,  (* the api_key table at the start                             *)
  TTL,       (* SESSION_TTL_HOURS, in ticks                                *)
  MaxClock   (* bound: the model's last tick                               *)

Scopes == {"admin", "readonly"}

Key == [status : {"absent", "live", "revoked"}, scope : Scopes]

(* "api" is /api behind require_admin; "server" an MCP, REST or LLM        *)
(* endpoint with auth_mode api_key; "admin_mcp" is /mcp/_admin.            *)
Request == [surface : {"api", "server", "admin_mcp", "login", "logout"},
            key : KeyIds \cup {None}, token : Tokens \cup {None}]

Principal == [by : KeyIds \cup Tokens, scope : Scopes]

ASSUME AccessAssumption ==
  /\ InitKeys \in [KeyIds -> Key]
  /\ None \notin KeyIds \cup Tokens \cup Clients \cup Request \cup Principal
  /\ KeyIds \cap Tokens = {}
  /\ TTL \in Nat \ {0} /\ MaxClock \in Nat

Absent == -1    \* no session row

VARIABLES
  clock,
  keys,       (* the api_key table                                         *)
  sessions,   (* sessions[t]: expires_at of the row of t, or Absent        *)
  req,        (* req[c]: the request of c, or None                         *)
  step,       (* step[c]: what its handler does next                       *)
  who,        (* who[c]: the principal, [by, scope], None before           *)
  goal,       (* goal[c]: the key that c is about to revoke                *)
  over,       (* history: credentials known to be over                     *)
  doomed      (* history: doomed[c], what was over when c asked            *)

vars == <<clock, keys, sessions, req, step, who, goal, over, doomed>>

db == <<keys, sessions>>

-------------------------------------------------------------------------------
Init ==
  /\ clock = 0
  /\ keys = InitKeys
  /\ sessions = [t \in Tokens |-> Absent]
  /\ req = [c \in Clients |-> None]
  /\ step = [c \in Clients |-> "idle"]
  /\ who = [c \in Clients |-> None]
  /\ goal = [c \in Clients |-> None]
  /\ over = {k \in KeyIds : InitKeys[k].status = "revoked"}
  /\ doomed = [c \in Clients |-> {}]

Goto(c, s) == step' = [step EXCEPT ![c] = s]

(* The answer is sent, and its client knows what is over from now on.      *)
Finish(c, gone) ==
  /\ req' = [req EXCEPT ![c] = None]
  /\ step' = [step EXCEPT ![c] = "idle"]
  /\ who' = [who EXCEPT ![c] = None]
  /\ goal' = [goal EXCEPT ![c] = None]
  /\ doomed' = [doomed EXCEPT ![c] = {}]
  /\ over' = over \cup gone

LetIn(c, by, scope) ==
  /\ who' = [who EXCEPT ![c] = [by |-> by, scope |-> scope]]
  /\ Goto(c, "in")
  /\ UNCHANGED <<clock, db, req, goal, over, doomed>>

Refuse(c) == Finish(c, {}) /\ UNCHANGED <<clock, db>>

(* A client only sends keys and tokens it was given; what a surface does   *)
(* not look at is left out.                                                *)
Arrive(c, r) ==
  /\ step[c] = "idle"
  /\ r.key # None => keys[r.key].status # "absent"
  /\ r.token # None => r.token \in over \/ sessions[r.token] # Absent
  /\ r.surface \in {"login", "logout"} => r.key = None
  /\ r.surface \notin {"api", "logout"} => r.token = None
  /\ req' = [req EXCEPT ![c] = r]
  /\ doomed' = [doomed EXCEPT ![c] = over]
  /\ Goto(c, CASE r.surface = "login"  -> "cleanup"
               [] r.surface = "logout" -> "logout"
               [] OTHER                -> "key")
  /\ UNCHANGED <<clock, db, who, goal, over>>

(* `WHERE key_hash = ? AND revoked_at IS NULL`                             *)
Usable(k) == k # None /\ keys[k].status = "live"

(* _resolve_api_key: the SELECT.  A key that is missing or not usable is   *)
(* the end on a server's surface; on /api the session cookie is tried.     *)
SelectKey(c) ==
  /\ step[c] = "key"
  /\ \/ /\ Usable(req[c].key)
        /\ who' = [who EXCEPT ![c] = [by |-> req[c].key, scope |-> keys[req[c].key].scope]]
        /\ Goto(c, "touch")
        /\ UNCHANGED <<clock, db, req, goal, over, doomed>>
     \/ /\ ~Usable(req[c].key)
        /\ req[c].surface = "api" /\ req[c].token # None
        /\ Goto(c, "session")
        /\ UNCHANGED <<clock, db, req, who, goal, over, doomed>>
     \/ /\ ~Usable(req[c].key)
        /\ req[c].surface # "api" \/ req[c].token = None
        /\ Refuse(c)

(* `UPDATE api_key SET last_used_at`, which nothing here depends on.       *)
Touched(k) == keys

(* _resolve_api_key: the UPDATE; the principal stands, whatever happened   *)
(* to the key since.  /mcp/_admin then turns readonly keys away.           *)
TouchKey(c) ==
  /\ step[c] = "touch"
  /\ keys' = Touched(req[c].key)
  /\ \/ /\ req[c].surface = "admin_mcp" /\ who[c].scope # "admin"
        /\ Finish(c, {})
     \/ /\ req[c].surface = "admin_mcp" => who[c].scope = "admin"
        /\ Goto(c, "in")
        /\ UNCHANGED <<req, who, goal, over, doomed>>
  /\ UNCHANGED <<clock, sessions>>

\* mutant: the row is enough, expired or not
LiveWhenStored(t) == sessions[t] # Absent

(* `expires_at > datetime('now')`                                          *)
Live(t) == sessions[t] > clock

(* resolve_session: the SELECT.  Sessions are all of scope admin (login).  *)
SelectSession(c) ==
  /\ step[c] = "session"
  /\ \/ Live(req[c].token) /\ LetIn(c, req[c].token, "admin")
     \/ /\ ~Live(req[c].token)
        /\ Goto(c, "purge")
        /\ UNCHANGED <<clock, db, req, who, goal, over, doomed>>

(* resolve_session: the DELETE of that session if it is expired; 401.      *)
PurgeSession(c) ==
  /\ step[c] = "purge"
  /\ sessions' = [sessions EXCEPT ![req[c].token] = IF @ <= clock THEN Absent ELSE @]
  /\ Finish(c, {})
  /\ UNCHANGED <<clock, keys>>

(* A handler that reads, or a call of a server: nothing here changes.      *)
Read(c) ==
  /\ step[c] = "in"
  /\ Finish(c, {})
  /\ UNCHANGED <<clock, db>>

(* require_write, and the gate of /mcp/_admin.                             *)
MayWrite(c) == req[c].surface # "server" /\ who[c].scope = "admin"

(* create_api_key *)
CreateKey(c, k, scope) ==
  /\ step[c] = "in" /\ MayWrite(c)
  /\ keys[k].status = "absent"
  /\ keys' = [keys EXCEPT ![k] = [status |-> "live", scope |-> scope]]
  /\ Finish(c, {})
  /\ UNCHANGED <<clock, sessions>>

(* revoke_api_key: the SELECT; nothing to revoke is no error.              *)
SelectRevoked(c, k) ==
  /\ step[c] = "in" /\ MayWrite(c)
  /\ \/ /\ Usable(k)
        /\ goal' = [goal EXCEPT ![c] = k]
        /\ Goto(c, "revoke")
        /\ UNCHANGED <<clock, db, req, who, over, doomed>>
     \/ ~Usable(k) /\ Refuse(c)

(* revoke_api_key: the UPDATE, and True.                                   *)
Revoke(c) ==
  /\ step[c] = "revoke"
  /\ keys' = [keys EXCEPT ![goal[c]].status = "revoked"]
  /\ Finish(c, {goal[c]})
  /\ UNCHANGED <<clock, sessions>>

\* mutant: a login ends the other sessions of its user
ExpiredAll(t) == TRUE

(* `WHERE expires_at <= datetime('now')`                                   *)
Expired(t) == sessions[t] <= clock

(* login: cleanup_expired_sessions.                                        *)
Cleanup(c) ==
  /\ step[c] = "cleanup"
  /\ sessions' = [t \in Tokens |-> IF Expired(t) THEN Absent ELSE sessions[t]]
  /\ Goto(c, "login")
  /\ UNCHANGED <<clock, keys, req, who, goal, over, doomed>>

(* login: the password was right, create_session with a fresh token.       *)
CreateSession(c, t) ==
  /\ step[c] = "login"
  /\ sessions[t] = Absent /\ t \notin over
  /\ sessions' = [sessions EXCEPT ![t] = clock + TTL]
  /\ Finish(c, {})
  /\ UNCHANGED <<clock, keys>>

(* login: the password was wrong, or no token of the model is left.        *)
LoginFails(c) == step[c] = "login" /\ Refuse(c)

(* logout: destroy_session of the cookie, whatever it is worth.            *)
Logout(c) ==
  /\ step[c] = "logout"
  /\ sessions' = [t \in Tokens |-> IF t = req[c].token THEN Absent ELSE sessions[t]]
  /\ Finish(c, {req[c].token} \ {None})
  /\ UNCHANGED <<clock, keys>>

(* Time passes; the sessions whose time has come are over.                 *)
Tick ==
  /\ clock < MaxClock
  /\ clock' = clock + 1
  /\ over' = over \cup {t \in Tokens : sessions[t] = clock'}
  /\ UNCHANGED <<db, req, step, who, goal, doomed>>

(* The process dies; its tables stay.                                      *)
Crash ==
  /\ \E c \in Clients : step[c] # "idle"
  /\ req' = [c \in Clients |-> None]
  /\ step' = [c \in Clients |-> "idle"]
  /\ who' = [c \in Clients |-> None]
  /\ goal' = [c \in Clients |-> None]
  /\ doomed' = [c \in Clients |-> {}]
  /\ UNCHANGED <<clock, db, over>>

Next ==
  \/ \E c \in Clients :
       \/ \E r \in Request : Arrive(c, r)
       \/ SelectKey(c) \/ TouchKey(c) \/ SelectSession(c) \/ PurgeSession(c)
       \/ Read(c) \/ Revoke(c) \/ Cleanup(c) \/ LoginFails(c) \/ Logout(c)
       \/ \E k \in KeyIds : SelectRevoked(c, k) \/ \E s \in Scopes : CreateKey(c, k, s)
       \/ \E t \in Tokens : CreateSession(c, t)
  \/ Tick
  \/ Crash

Spec == Init /\ [][Next]_vars

-------------------------------------------------------------------------------

(* The tables and the handlers keep their types, and a handler that is     *)
(* past its gate has a principal, of the credentials it was sent.          *)
TypeOK ==
  /\ clock \in 0 .. MaxClock
  /\ keys \in [KeyIds -> Key]
  /\ sessions \in [Tokens -> Absent .. MaxClock + TTL]
  /\ req \in [Clients -> Request \cup {None}]
  /\ step \in [Clients -> {"idle", "key", "touch", "session", "purge", "in",
                           "revoke", "cleanup", "login", "logout"}]
  /\ who \in [Clients -> Principal \cup {None}]
  /\ goal \in [Clients -> KeyIds \cup {None}]
  /\ over \subseteq KeyIds \cup Tokens
  /\ doomed \in [Clients -> SUBSET (KeyIds \cup Tokens)]
  /\ \A c \in Clients :
       /\ req[c] = None <=> step[c] = "idle"
       /\ step[c] \in {"touch", "in", "revoke"} =>
            who[c] # None /\ who[c].by \in {req[c].key, req[c].token}

(* No request gets past a gate by a key that somebody was told is revoked, *)
(* a session that somebody was told is closed, or one whose time was up,   *)
(* before the request was made: whatever other requests were still doing   *)
(* with that credential (the two steps of _resolve_api_key, 208-226, and   *)
(* of resolve_session, 136-156).                                           *)
NoEntryAfterTheEnd ==
  \A c \in Clients : step[c] \in {"in", "revoke"} => who[c].by \notin doomed[c]

(* A revoked key is never usable again, and no key changes its scope: the  *)
(* bookkeeping of last_used_at does not undo a revocation (222-226).       *)
RevokedForGood ==
  [][\A k \in KeyIds :
       /\ keys[k].status = "revoked" => keys'[k] = keys[k]
       /\ keys[k].status = "live" => keys'[k].scope = keys[k].scope]_vars

(* A session that has time left ends only when a logout carries its token: *)
(* not by the clean-up of a login, nor of another request (118-121, 150).  *)
SessionsLast ==
  [][\A t \in Tokens :
       sessions[t] > clock' /\ sessions'[t] # sessions[t] =>
         \E c \in Clients : step[c] = "logout" /\ req[c].token = t]_vars

(* The key table changes only for a request that an admin credential,      *)
(* good when it asked, has let in: a readonly key cannot make itself more. *)
WritesByAdmins ==
  [][keys' # keys =>
       \E c \in Clients :
         /\ step[c] \in {"in", "revoke"} /\ step'[c] = "idle"
         /\ who[c].by \notin doomed[c]
         /\ who[c].by \in KeyIds => keys[who[c].by].scope = "admin"]_vars

(* What a credential is worth, from the request that makes it to the one   *)
(* that ends it: the three above, and the types of the state.              *)
CredentialsHold == []TypeOK /\ RevokedForGood /\ SessionsLast /\ WritesByAdmins

===============================================================================
