------------------------------ MODULE LlmEndpoint ------------------------------
(***************************************************************************)
(* One LLM endpoint, found by its slug: creation, update, deletion and its *)
(* response rules (service, store), and the chat completions it answers,   *)
(* from its rules or through an upstream (llm.py).                         *)
(*                                                                         *)
(* Administrators (Writers) and attendees (Callers) run in threads of      *)
(* their own; each SELECT that can see a change, and each transaction, is  *)
(* a step.  A rule is the set of probes that it matches and its text: one  *)
(* with an invalid regex matches none.  netguard's verdict on a URL is     *)
(* given by Blocked; names, prompts and envelopes are left out.  The log   *)
(* row of a request is a transaction of its own, after what it tells of,   *)
(* and it may fail.                                                        *)
(***************************************************************************)
EXTENDS Naturals, Sequences

CONSTANTS
  Writers, Callers,
  MaxId,          (* bound: ids given to the endpoint, one per creation    *)
  Urls, Keys,     (* what upstream_url and upstream_key may be, "" included *)
  Blocked,        (* the URLs that netguard refuses                        *)
  Bodies,         (* bodies of POST and PATCH: [mode, url, key, clear]     *)
  RuleSets,       (* bodies of PUT .../responses: sequences of rules       *)
  Malformed,      (* those of them that set_llm_responses refuses          *)
  Probes,         (* last messages of the user                             *)
  Absent,         (* no endpoint; a field that a body does not have        *)
  Nothing,        (* no answer yet, no request                             *)
  Fallback        (* the answer when no rule matched                       *)

Clients == Writers \cup Callers

Row == [id : Nat, mode : {"mock", "proxy"}, url : Urls, key : Keys]

Settings ==
  [mode : {"mock", "proxy", Absent}, url : Urls \cup {Absent}, key : Keys \cup {Absent},
   clear : BOOLEAN]

Rule == [matches : SUBSET Probes, text : STRING]

LlmAssumption ==
  /\ Writers \cap Callers = {} /\ MaxId \in Nat \ {0}
  /\ "" \in Urls \cap Keys /\ Blocked \subseteq Urls \ {""}
  /\ Bodies \subseteq Settings /\ Malformed \subseteq RuleSets
  /\ \A rs \in RuleSets : rs \in Seq(Rule)
  /\ Absent \notin Row /\ Absent \notin Urls \cup Keys \cup {"mock", "proxy"}

VARIABLES
  llm,      (* the row: [id, mode, url, key], or Absent                    *)
  nextId,   (* the id of the next creation                                 *)
  rules,    (* the response rules, by ordinal                              *)
  step,     (* step[c]: what c does next, or how its request ended         *)
  body,     (* body[c]: what writer c sends; the probe of caller c, and    *)
            (* then the status that its request has come to                *)
  read,     (* read[c]: the row as c read it                               *)
  answer,   (* answer[c]: what caller c was answered                       *)
  logged,   (* logged[c]: the statuses its request left in call_log        *)
  seen      (* history: the rules (of a mock) or the rows (of a proxy)     *)
            (* that there were since the request in progress began         *)

vars == <<llm, nextId, rules, step, body, read, answer, logged, seen>>

Init ==
  /\ llm = Absent /\ nextId = 1 /\ rules = <<>>
  /\ step = [c \in Clients |-> "idle"]
  /\ body = [c \in Clients |-> Nothing] /\ read = body /\ answer = body
  /\ logged = [c \in Callers |-> <<>>]
  /\ seen = [c \in Callers |-> {}]

Busy == {"insert", "update", "responses", "authorize", "mock", "rules", "send", "upstream", "log"}

Idle(c) == step[c] \notin Busy

Goto(c, s) == step' = [step EXCEPT ![c] = s]

(* A change of the endpoint is seen by the requests in progress.           *)
Witness(row, rs) ==
  /\ llm' = row /\ rules' = rs
  /\ seen' = [c \in Callers |->
       CASE Idle(c) \/ step[c] \in {"upstream", "log"} -> {}
         [] ~Idle(c) /\ read[c].mode = "mock" -> seen[c] \cup {rs}
         [] OTHER -> seen[c] \cup {row}]

Unwitnessed == UNCHANGED <<llm, rules, seen>>

-------------------------------------------------------------------------------
(* Administration.                                                         *)

Exists(id) == llm # Absent /\ llm.id = id

\* mutant: only what is given is validated
ValidWhenGiven(mode, url) == mode = "proxy" => url \notin Blocked

(* _validate_llm_fields *)
Valid(mode, url) == mode = "proxy" => url # "" /\ url \notin Blocked

Or(given, stored) == IF given = Absent THEN stored ELSE given

BeginWriter(c, b, row, how) ==
  /\ body' = [body EXCEPT ![c] = b]
  /\ read' = [read EXCEPT ![c] = row]
  /\ Goto(c, how)
  /\ UNCHANGED <<nextId, answer, logged>> /\ Unwitnessed

EndWriter(c, how) ==
  /\ body' = [body EXCEPT ![c] = Nothing]
  /\ read' = [read EXCEPT ![c] = Nothing]
  /\ Goto(c, how)
  /\ UNCHANGED <<answer, logged>>

(* The defaults of LLMEndpointCreate.                                      *)
Fresh(b) == [id |-> nextId, mode |-> Or(b.mode, "mock"), url |-> Or(b.url, ""), key |-> Or(b.key, "")]

SlugTaken == llm # Absent

(* POST.  The bound MaxId leaves an id for every creation in progress.     *)
BeginCreate(c, b) ==
  /\ c \in Writers /\ Idle(c) /\ nextId <= MaxId
  /\ \A d \in Writers : step[d] = "insert" => nextId < MaxId
  /\ BeginWriter(c, b, Nothing,
       IF SlugTaken \/ ~Valid(Fresh(b).mode, Fresh(b).url) THEN "refused" ELSE "insert")

(* UNIQUE (slug) refuses the second of two creations: an IntegrityError    *)
(* that no handler catches.                                                *)
Insert(c) ==
  /\ step[c] = "insert"
  /\ \/ /\ llm # Absent
        /\ EndWriter(c, "error") /\ Unwitnessed /\ UNCHANGED nextId
     \/ /\ llm = Absent
        /\ Witness(Fresh(body[c]), <<>>)
        /\ nextId' = nextId + 1
        /\ EndWriter(c, "done")

BeginUpdate(c, b) ==
  /\ c \in Writers /\ Idle(c) /\ llm # Absent
  /\ BeginWriter(c, b, llm,
       IF Valid(Or(b.mode, llm.mode), Or(b.url, llm.url)) THEN "update" ELSE "refused")

(* clear_upstream_key, or "keep the existing credential".                  *)
NewKey(b, stored) ==
  CASE b.clear -> ""
    [] ~b.clear /\ b.key = "" -> stored
    [] OTHER -> Or(b.key, stored)

(* store.update_llm_endpoint sets what is given, in the row as it is now.  *)
Update(c) ==
  /\ step[c] = "update"
  /\ \/ /\ ~Exists(read[c].id)
        /\ EndWriter(c, "refused") /\ Unwitnessed
     \/ /\ Exists(read[c].id)
        /\ Witness([id |-> llm.id, mode |-> Or(body[c].mode, llm.mode),
                    url |-> Or(body[c].url, llm.url), key |-> NewKey(body[c], llm.key)], rules)
        /\ EndWriter(c, "done")
  /\ UNCHANGED nextId

(* ON DELETE CASCADE takes the rules along.  The endpoint with the last id *)
(* stays.                                                                  *)
Delete(c) ==
  /\ c \in Writers /\ Idle(c) /\ llm # Absent /\ nextId <= MaxId
  /\ Witness(Absent, <<>>)
  /\ EndWriter(c, "done")
  /\ UNCHANGED nextId

BeginResponses(c, rs) ==
  /\ c \in Writers /\ Idle(c) /\ llm # Absent
  /\ BeginWriter(c, rs, llm, IF rs \in Malformed THEN "refused" ELSE "responses")

\* mutant: the deletion commits by itself, and then the insertions
SetResponsesTwice(c) ==
  /\ step[c] = "responses"
  /\ \/ ~Exists(read[c].id) /\ EndWriter(c, "error") /\ Unwitnessed
     \/ /\ Exists(read[c].id) /\ rules # <<>>
        /\ rules' = <<>> /\ UNCHANGED <<llm, seen, body, read, step, answer, logged>>
     \/ /\ Exists(read[c].id) /\ rules = <<>>
        /\ Witness(llm, body[c])
        /\ EndWriter(c, "done")
  /\ UNCHANGED nextId

(* DELETE and INSERTs in one transaction.  When the endpoint is gone, an   *)
(* INSERT fails for its FOREIGN KEY, and no handler catches that; without  *)
(* rules the answer is a 404.                                              *)
SetResponses(c) ==
  /\ step[c] = "responses"
  /\ \/ /\ ~Exists(read[c].id)
        /\ EndWriter(c, IF body[c] = <<>> THEN "refused" ELSE "error") /\ Unwitnessed
     \/ /\ Exists(read[c].id)
        /\ Witness(llm, body[c])
        /\ EndWriter(c, "done")
  /\ UNCHANGED nextId

-------------------------------------------------------------------------------
(* Chat completions.                                                       *)

Statuses == {"ok", "not_found", "unauthorized", "400", "502", "429"}

(* It is settled what the request comes to; what is left is to log it.     *)
Settle(c, status, what) ==
  /\ Goto(c, "log")
  /\ body' = [body EXCEPT ![c] = status]
  /\ answer' = [answer EXCEPT ![c] = what]
  /\ read' = [read EXCEPT ![c] = Nothing]
  /\ seen' = [seen EXCEPT ![c] = {}]
  /\ UNCHANGED <<llm, rules, nextId, logged>>

(* It ends without coming to the log.                                      *)
EndUnlogged(c, how) ==
  /\ Goto(c, how)
  /\ body' = [body EXCEPT ![c] = Nothing] /\ answer' = [answer EXCEPT ![c] = Nothing]
  /\ read' = [read EXCEPT ![c] = Nothing]
  /\ seen' = [seen EXCEPT ![c] = {}]
  /\ UNCHANGED <<llm, rules, nextId, logged>>

(* _log_llm, and the request ends as was settled.                          *)
Log(c) ==
  /\ step[c] = "log"
  /\ Goto(c, body[c])
  /\ logged' = [logged EXCEPT ![c] = Append(@, body[c])]
  /\ body' = [body EXCEPT ![c] = Nothing]
  /\ UNCHANGED <<llm, rules, nextId, read, answer, seen>>

(* Its transaction fails: whatever was settled, the request ends in a 500. *)
LogFails(c) == step[c] = "log" /\ EndUnlogged(c, "error")

(* _get_llm_or_log_not_found; whether the endpoint's own auth_mode lets    *)
(* the request in is left open, and decided on the row read here.          *)
Lookup(c, probe) ==
  /\ c \in Callers /\ Idle(c)
  /\ \/ /\ llm = Absent
        /\ Goto(c, "log")
        /\ body' = [body EXCEPT ![c] = "not_found"]
        /\ UNCHANGED <<read, seen>>
     \/ /\ llm # Absent
        /\ Goto(c, "authorize")
        /\ body' = [body EXCEPT ![c] = probe]
        /\ read' = [read EXCEPT ![c] = llm]
        /\ seen' = [seen EXCEPT ![c] = {IF llm.mode = "mock" THEN rules ELSE llm}]
  /\ answer' = [answer EXCEPT ![c] = Nothing]
  /\ logged' = [logged EXCEPT ![c] = <<>>]
  /\ UNCHANGED <<llm, nextId, rules>>

Authorize(c) ==
  /\ step[c] = "authorize"
  /\ \/ Settle(c, "unauthorized", Nothing)
     \/ /\ Goto(c, IF read[c].mode = "mock" THEN "mock" ELSE "send")
        /\ UNCHANGED <<llm, nextId, rules, body, read, answer, logged, seen>>

(* _prepare_mock_completion reads the endpoint again, by its id; nothing   *)
(* logs that it is gone.                                                   *)
ReadAgain(c) ==
  /\ step[c] = "mock"
  /\ \/ ~Exists(read[c].id) /\ EndUnlogged(c, "gone")
     \/ /\ Exists(read[c].id) /\ Goto(c, "rules")
        /\ UNCHANGED <<llm, nextId, rules, body, read, answer, logged, seen>>

(* _mock_response *)
FirstMatch(rs, probe) ==
  LET matching == {i \in DOMAIN rs : probe \in rs[i].matches} IN
  IF matching = {} THEN Fallback
  ELSE rs[CHOOSE i \in matching : \A j \in matching : i <= j].text

(* Then the rules, in another SELECT: there are none if it went away.      *)
AnswerFromRules(c) ==
  /\ step[c] = "rules"
  /\ Settle(c, "ok", FirstMatch(IF Exists(read[c].id) THEN rules ELSE <<>>, body[c]))

(* _proxy_target: the row of the first read, whatever it is now.           *)
ProxyTarget(c) == [url |-> read[c].url, key |-> read[c].key]

Send(c) ==
  /\ step[c] = "send"
  /\ \/ /\ read[c].url \in Blocked \cup {""}
        /\ Settle(c, "400", Nothing)
     \/ /\ read[c].url \notin Blocked \cup {""}
        /\ Goto(c, "upstream")
        /\ answer' = [answer EXCEPT ![c] = ProxyTarget(c)]
        /\ seen' = [seen EXCEPT ![c] = {}]
        /\ UNCHANGED <<llm, nextId, rules, body, read, logged>>

(* It answers, or does not within 60 s, or cannot be reached; a status     *)
(* that is not 2xx, here 429, is passed on.  A stream is logged when it    *)
(* begins.  An exception that is neither httpx's nor HTTP's own, or one of *)
(* the read of a stream's refusal (aread), is caught nowhere.              *)
Upstream(c) ==
  /\ step[c] = "upstream"
  /\ \/ \E status \in {"ok", "502", "429"} : Settle(c, status, Nothing)
     \/ EndUnlogged(c, "error")

Administers(c, bodies, rulesets) ==
  \/ \E b \in bodies : BeginCreate(c, b) \/ BeginUpdate(c, b)
  \/ Insert(c) \/ Update(c) \/ Delete(c)
  \/ \E rs \in rulesets : BeginResponses(c, rs)
  \/ SetResponses(c)

Asks(c) ==
  \/ \E p \in Probes : Lookup(c, p)
  \/ Authorize(c) \/ ReadAgain(c) \/ AnswerFromRules(c) \/ Send(c) \/ Upstream(c)
  \/ Log(c) \/ LogFails(c)

Next ==
  \/ \E c \in Writers : Administers(c, Bodies, RuleSets)
  \/ \E c \in Callers : Asks(c)

Spec == Init /\ [][Next]_vars

-------------------------------------------------------------------------------

(* The row and its rules are well formed, and there are no rules without   *)
(* an endpoint.                                                            *)
TypeOK ==
  /\ llm = Absent \/ (llm.id \in 1 .. MaxId /\ llm.mode \in {"mock", "proxy"}
                      /\ llm.url \in Urls /\ llm.key \in Keys)
  /\ llm = Absent => rules = <<>>
  /\ nextId \in 1 .. MaxId + 1 /\ rules \in (RuleSets \ Malformed) \cup {<<>>}
  /\ \A c \in Callers : answer[c] # Nothing => step[c] \in {"ok", "upstream", "log"}

(* A proxy has an upstream to go to, whatever sequence of updates made it  *)
(* (test_proxy_llm_requires_upstream_url_but_mock_does_not).               *)
ProxyHasUrl ==
  llm # Absent /\ llm.mode = "proxy" => llm.url \notin Blocked \cup {""}

(* No request of an administrator ends in an uncaught IntegrityError.      *)
NoServerError == \A c \in Writers : step[c] # "error"

(* A request that ends with an answer, or with an error that the code      *)
(* foresees, has left one row in the log, with the status it ended with.   *)
(* One whose mock is deleted under it, or that ends in an exception that   *)
(* nobody catches, has left none, and so has one that goes on.             *)
LoggedOnce ==
  \A c \in Callers :
    logged[c] = IF step[c] \in Statuses THEN <<step[c]>> ELSE <<>>

(* The rest is about every step that is taken.                             *)

(* A working proxy keeps its credential: only a new key, or the explicit   *)
(* clear_upstream_key, changes the one that is stored, however updates     *)
(* interleave (update_llm_endpoint).                                       *)
KeyKept ==
  llm # Absent /\ llm' # Absent /\ llm'.id = llm.id /\ llm'.key # llm.key =>
    \E c \in Writers :
      /\ step[c] = "update" /\ step'[c] = "done"
      /\ body[c].clear \/ body[c].key \in Keys \ {""}

(* "first-match-wins response rules": what a mock answers is the first     *)
(* match in one set of rules that the endpoint had during the request, not *)
(* in a mixture or a half-written one.                                     *)
OneRuleSet ==
  \A c \in Callers : step[c] = "rules" /\ step'[c] = "log" =>
    \E rs \in seen[c] :
      \/ answer'[c] = Fallback /\ \A i \in DOMAIN rs : body[c] \notin rs[i].matches
      \/ \E i \in DOMAIN rs :
           /\ answer'[c] = rs[i].text /\ body[c] \in rs[i].matches
           /\ \A j \in 1 .. i - 1 : body[c] \notin rs[j].matches

(* What is sent upstream was stored together: the key goes to no URL that  *)
(* another update put beside it (chat_completions uses the row it read).   *)
OneConfiguration ==
  \A c \in Callers : step[c] = "send" /\ step'[c] = "upstream" =>
    \E row \in seen[c] \ {Absent} :
      row.url = answer'[c].url /\ row.key = answer'[c].key

-------------------------------------------------------------------------------
(* The invariants behind these properties.                                  *)

(* A writer has sent what its step needs, and read the row it is about.     *)
WriterOK(c) ==
  /\ step[c] \notin {"authorize", "mock", "rules", "send", "upstream", "log"}
  /\ step[c] \in {"insert", "update"} => body[c] \in Bodies
  /\ step[c] = "responses" => body[c] \in RuleSets \ Malformed
  /\ step[c] \in {"update", "responses"} => read[c] \in Row

(* What a caller has read was there since its request began, and so was     *)
(* what it will read: the rules that it finds, or none.                     *)
CallerOK(c) ==
  /\ step[c] \notin {"insert", "update", "responses"}
  /\ step[c] \in {"mock", "rules"} => read[c].mode = "mock"
  /\ step[c] = "send" => read[c].mode = "proxy"
  /\ step[c] = "log" => body[c] \in Statuses /\ (answer[c] # Nothing => body[c] = "ok")
  /\ step[c] \in {"authorize", "mock", "rules", "send"} =>
       /\ read[c] \in Row /\ read[c].id < nextId
       /\ IF read[c].mode = "mock"
            THEN seen[c] \subseteq RuleSets \cup {<<>>} /\ (IF Exists(read[c].id) THEN rules ELSE <<>>) \in seen[c]
            ELSE read[c] \in seen[c]

(* There is an id for every creation.                                       *)
Shaped ==
  /\ llm \in Row \cup {Absent}
  /\ llm = Absent => nextId <= MaxId
  /\ llm # Absent => llm.id < nextId
  /\ step = [c \in Clients |-> step[c]] /\ body = [c \in Clients |-> body[c]]
  /\ read = [c \in Clients |-> read[c]] /\ answer = [c \in Clients |-> answer[c]]
  /\ logged = [c \in Callers |-> logged[c]] /\ seen = [c \in Callers |-> seen[c]]
  /\ \A c \in Writers : WriterOK(c)
  /\ \A c \in Callers : CallerOK(c)

IInv == TypeOK /\ LoggedOnce /\ Shaped

(* Nobody else is active, and what c has read is still so.                  *)
Alone(c) ==
  /\ \A d \in Clients \ {c} : step[d] = "idle"
  /\ step[c] # "error"
  /\ step[c] = "insert" => llm = Absent /\ Valid(Fresh(body[c]).mode, Fresh(body[c]).url)
  /\ step[c] \in {"update", "responses"} => llm # Absent /\ read[c] = llm
  /\ step[c] = "update" => Valid(Or(body[c].mode, llm.mode), Or(body[c].url, llm.url))
  /\ ProxyHasUrl

===============================================================================
