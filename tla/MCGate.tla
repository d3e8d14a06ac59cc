-------------------------------- MODULE MCGate --------------------------------
(***************************************************************************)
(* Small instances of what may refuse a caller: the lockout of a user name *)
(* (two threads, or one alone; two failures lock it for two ticks), and    *)
(* the rate limiter (a key, a session and an address without a limit;      *)
(* half-second ticks, so that Retry-After has something to round).  They   *)
(* share no state, so the first state chooses which of them runs: the      *)
(* scene.  The variables of the other stay as they are.                    *)
(***************************************************************************)
EXTENDS Lockout

CONSTANTS
  t1, t2,                     (* two threads                               *)
  Keys, Sessions, Addresses,  (* and those of RateLimit                    *)
  KeyLimit, AnonLimit, WindowSeconds, Rate

VARIABLES scene, hits, answer, wait

Limiter == INSTANCE RateLimit

ASSUME GateAssumption == t1 \in Threads /\ Limiter!RateLimitAssumption

limits == <<hits, answer, wait>>

(* Nobody logs in but through t1.                                          *)
LoginsOfOne ==
  Arrive(t1) \/ Login(t1) \/ RightPassword(t1) \/ WrongPassword(t1) \/ Tick

MCInit == scene \in {"logins", "one login", "limiter"} /\ Init /\ Limiter!Init

MCNext ==
  /\ UNCHANGED scene
  /\ \/ scene = "logins" /\ Next /\ UNCHANGED limits
     \/ scene = "one login" /\ LoginsOfOne /\ UNCHANGED limits
     \/ scene = "limiter" /\ Limiter!Next /\ UNCHANGED vars

(* Lockout's FairSpec and RateLimit's.                                     *)
MCFairness ==
  /\ WF_vars(scene = "logins" /\ Tick)
  /\ \A t \in Threads :
       /\ WF_vars(scene = "logins" /\ Login(t))
       /\ WF_vars(scene = "logins" /\ (RightPassword(t) \/ WrongPassword(t)))
  /\ WF_limits(scene = "limiter" /\ Limiter!Tick)
  /\ \A c \in Limiter!Callers :
       WF_limits(scene = "limiter" /\ \E r \in Limiter!Requests : Limiter!CallerOf(r) = c /\ Limiter!Ask(r))

MCSpec == MCInit /\ [][MCNext]_<<scene, vars, limits>> /\ MCFairness

-------------------------------------------------------------------------------

(* Nobody is turned away for nothing, or for too long: 429 at the login    *)
(* only after LOCKOUT_FAILURES failures, Retry-After neither too short nor *)
(* a second too long; and one thread alone forgets no failure.             *)
RefusalsAreJustified ==
  /\ TypeOK /\ Limiter!TypeOK
  /\ LockoutJustified
  /\ scene = "one login" => FailuresCount
  /\ Limiter!WaitSuffices /\ Limiter!WaitIsShort

(* The pruned deques are a sliding window (RateLimit).                     *)
SlidesOverTheWindow == Limiter!SlidesOverTheWindow

(* Nobody stays out for ever: lockouts end however often they are tried,   *)
(* and refused callers who keep asking are let through again.              *)
NobodyStaysOut == (scene = "logins" => LockoutEnds) /\ Limiter!Recovers

===============================================================================
