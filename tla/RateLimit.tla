------------------------------ MODULE RateLimit -------------------------------
(***************************************************************************)
(* ratelimit.py: RateLimitMiddleware and check, one budget per caller.     *)
(*                                                                         *)
(* check() runs on the event loop under _LOCK, so it is one action.  A hit *)
(* is kept as its age in ticks instead of its time stamp; ages from the    *)
(* window on are not told apart, so that behaviours can go on for ever.  A *)
(* deque is pruned at its front, and only when its caller asks again.      *)
(***************************************************************************)
EXTENDS Integers, Sequences

CONSTANTS
  Keys, Sessions, Addresses,  (* credentials and client addresses          *)
  Nobody,                     (* a header or cookie that was not sent      *)
  KeyLimit,                   (* RATE_LIMIT_PER_MINUTE                     *)
  AnonLimit,                  (* RATE_LIMIT_PER_MINUTE_ANON                *)
  WindowSeconds,              (* WINDOW_SECONDS                            *)
  Rate                        (* ticks in a second                         *)

RateLimitAssumption ==
  /\ KeyLimit \in Int /\ AnonLimit \in Int
  /\ WindowSeconds \in Nat \ {0} /\ Rate \in Nat \ {0}

WindowTicks == WindowSeconds * Rate

NoWait == -1

Requests ==
  [bearer : Keys \cup {Nobody}, x_api_key : Keys \cup {Nobody},
   cookie : Sessions \cup {Nobody}, client : Addresses, guarded : BOOLEAN]

Callers == ({"key"} \X Keys) \cup ({"session"} \X Sessions) \cup ({"ip"} \X Addresses)

VARIABLES
  hits,     (* _HITS: hits[c], the ages of the recorded hits, oldest first *)
  answer,   (* answer[c]: what became of the last request of c             *)
  wait      (* wait[c]: ticks left of the Retry-After that c was told      *)

vars == <<hits, answer, wait>>

-------------------------------------------------------------------------------

(* _caller_id: the bearer key, else X-API-Key, else the session cookie,    *)
(* else the address.                                                       *)
CallerOf(r) ==
  IF r.bearer # Nobody THEN <<"key", r.bearer>>
  ELSE IF r.x_api_key # Nobody THEN <<"key", r.x_api_key>>
  ELSE IF r.cookie # Nobody THEN <<"session", r.cookie>>
  ELSE <<"ip", r.client>>

LimitOf(c) == IF c[1] = "ip" THEN AnonLimit ELSE KeyLimit

\* mutant: ages are rounded to whole seconds before they are compared
LiveRounded(ages) == SelectSeq(ages, LAMBDA a : (a + 1) \div Rate < WindowSeconds)

(* The deque after `while hits and now - hits[0] >= WINDOW_SECONDS:        *)
(* hits.popleft()`: the front up to the first hit that is young enough.    *)
Live(ages) ==
  SubSeq(ages, 1 + CHOOSE n \in 0 .. Len(ages) :
                     /\ \A i \in 1 .. n : ages[i] >= WindowTicks
                     /\ n < Len(ages) => ages[n + 1] < WindowTicks,
         Len(ages))

(* `max(1, int(WINDOW_SECONDS - (now - hits[0])) + 1)`, in seconds.        *)
RetryAfter(ages) == LET s == (WindowTicks - ages[1]) \div Rate + 1 IN IF s < 1 THEN 1 ELSE s

(* A refused request is not recorded.                                      *)
AfterRefusal(ages) == ages

(* `hits.append(now)`                                                      *)
Recorded(ages) == Append(ages, 0)

-------------------------------------------------------------------------------
Init ==
  /\ hits = [c \in Callers |-> <<>>]
  /\ answer = [c \in Callers |-> "none"]
  /\ wait = [c \in Callers |-> NoWait]

(* A path that is not guarded: the request goes through untouched.         *)
Unguarded(r) == ~r.guarded /\ UNCHANGED vars

(* A limit of zero or less: no budget, and nothing recorded.               *)
Pass(r) ==
  LET c == CallerOf(r) IN
  /\ r.guarded /\ LimitOf(c) <= 0
  /\ answer' = [answer EXCEPT ![c] = "admitted"]
  /\ UNCHANGED <<hits, wait>>

Admit(r) ==
  LET c == CallerOf(r) IN
  /\ r.guarded /\ Len(Live(hits[c])) < LimitOf(c)
  /\ hits' = [hits EXCEPT ![c] = Recorded(Live(@))]
  /\ answer' = [answer EXCEPT ![c] = "admitted"]
  /\ wait' = [wait EXCEPT ![c] = NoWait]

Refuse(r) ==
  LET c == CallerOf(r)
      live == Live(hits[c]) IN
  /\ r.guarded /\ 0 < LimitOf(c) /\ LimitOf(c) <= Len(live)
  /\ hits' = [hits EXCEPT ![c] = AfterRefusal(live)]
  /\ answer' = [answer EXCEPT ![c] = "refused"]
  /\ wait' = [wait EXCEPT ![c] = RetryAfter(live) * Rate]

Tick ==
  /\ hits' = [c \in Callers |->
       [i \in DOMAIN hits[c] |-> IF hits[c][i] < WindowTicks THEN hits[c][i] + 1 ELSE WindowTicks]]
  /\ wait' = [c \in Callers |-> IF wait[c] > 0 THEN wait[c] - 1 ELSE wait[c]]
  /\ UNCHANGED answer

(* The counts are in memory: a restart of the process forgets them.        *)
Restart ==
  /\ hits' = [c \in Callers |-> <<>>]
  /\ answer' = [c \in Callers |-> "none"]
  /\ wait' = [c \in Callers |-> NoWait]

Ask(r) == Unguarded(r) \/ Pass(r) \/ Admit(r) \/ Refuse(r)

Next == (\E r \in Requests : Ask(r)) \/ Tick \/ Restart

Spec == Init /\ [][Next]_vars

(* Time goes on, and a caller keeps asking (which its client decides).     *)
Fairness ==
  /\ WF_vars(Tick)
  /\ \A c \in Callers : WF_vars(\E r \in Requests : CallerOf(r) = c /\ Ask(r))

FairSpec == Spec /\ Fairness

-------------------------------------------------------------------------------

(* The ages in a deque run from old to young, and the wait that was        *)
(* announced is at most a second more than the window.                     *)
TypeOK ==
  /\ hits \in [Callers -> Seq(0 .. WindowTicks)]
  /\ answer \in [Callers -> {"none", "admitted", "refused"}]
  /\ wait \in [Callers -> NoWait .. WindowTicks + Rate]
  /\ \A c \in Callers : \A i, j \in DOMAIN hits[c] : i < j => hits[c][i] >= hits[c][j]

(* A caller that stays silent for the Retry-After it was told is let       *)
(* through when it asks again (check's last computation).                  *)
WaitSuffices ==
  \A c \in Callers : wait[c] = 0 => Len(Live(hits[c])) < LimitOf(c)

(* Retry-After is no more than one second longer than it has to be.        *)
WaitIsShort ==
  \A c \in Callers :
    wait[c] # NoWait /\ Len(hits[c]) >= LimitOf(c) => wait[c] <= WindowTicks - hits[c][1] + Rate

(* The pruned deques implement the sliding window: at most the limit in    *)
(* any window, and no refusal before that.                                 *)
Recent(ages) ==
  SubSeq(ages, 1 + CHOOSE n \in 0 .. Len(ages) :
                     \A i \in 1 .. Len(ages) : ages[i] >= WindowTicks <=> i <= n,
         Len(ages))

Sliding == INSTANCE SlidingWindow WITH
  recent <- [c \in Callers |-> Recent(hits[c])],
  Limit <- LimitOf, Window <- WindowTicks

SlidesOverTheWindow == Sliding!SSpec

(* A caller that was refused and keeps asking is let through in the end:   *)
(* refusals never push its budget back.                                    *)
Recovers ==
  \A c \in Callers : answer[c] = "refused" ~> answer[c] # "refused"

-------------------------------------------------------------------------------
(* The inductive invariant behind WaitSuffices and WaitIsShort.             *)

(* No deque holds more than its caller's budget, which is what makes one    *)
(* hit less enough; and of a caller that was told to wait the oldest hit    *)
(* leaves the window before the wait is over, and at most a second before.  *)
WaitsForTheOldest ==
  \A c \in Callers :
    /\ hits[c] # <<>> => Len(hits[c]) <= LimitOf(c)
    /\ wait[c] # NoWait =>
         /\ hits[c] # <<>>
         /\ WindowTicks - hits[c][1] <= wait[c]
         /\ wait[c] <= WindowTicks - hits[c][1] + Rate

IInv == TypeOK /\ WaitsForTheOldest

===============================================================================
