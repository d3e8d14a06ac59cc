------------------------------- MODULE Lockout --------------------------------
(***************************************************************************)
(* auth.py: the login lockout of one user name.                            *)
(*                                                                         *)
(* login() is a plain function, so FastAPI runs it in a thread pool, and   *)
(* _LOGIN_FAILURES is shared by the threads without a lock.  Each read and *)
(* each write of the dictionary is a step.  _recent_failures puts a fresh  *)
(* list into it and returns that same list, to which the caller appends:   *)
(* `owner` says whose list the dictionary holds, so that an append through *)
(* the local name shows in the dictionary.                                 *)
(*                                                                         *)
(* Failures are numbered; a list of time stamps is the set of its          *)
(* failures, whose ages in ticks (up to the window) are kept apart.        *)
(***************************************************************************)
EXTENDS Integers, FiniteSets

CONSTANTS
  Threads,      (* logins that may be in progress at once                  *)
  Nobody,       (* the list in the dictionary is no thread's               *)
  Window,       (* LOCKOUT_WINDOW_SECONDS, in ticks                        *)
  MaxFailures,  (* LOCKOUT_FAILURES                                        *)
  MaxAttempts   (* bound: wrong passwords that are remembered at once      *)

ASSUME LockoutAssumption ==
  /\ Window \in Nat \ {0} /\ MaxFailures \in Nat \ {0} /\ MaxAttempts \in Nat
  /\ Nobody \notin Threads

Ids == 1 .. MaxAttempts

Unused == -1

VARIABLES
  age,     (* age[i]: the age of failure i, or Unused                      *)
  table,   (* _LOGIN_FAILURES[username]                                    *)
  owner,   (* the thread that holds the same list, or Nobody               *)
  step,    (* step[t]: what login does next                                *)
  list,    (* list[t]: the local list of _recent_failures                  *)
  mine,    (* mine[t]: the failure t records, 0 before                     *)
  due,     (* history: failures answered 401 since the last right password *)
  reason   (* history: reason[t], failures in the window when t read       *)

vars == <<age, table, owner, step, list, mine, due, reason>>

FirstUnused == CHOOSE i \in Ids : age[i] = Unused /\ \A j \in Ids : j < i => age[j] # Unused

Recent(S) == {i \in S : age[i] # Unused /\ age[i] < Window}

Init ==
  /\ age = [i \in Ids |-> Unused]
  /\ table = {} /\ owner = Nobody
  /\ step = [t \in Threads |-> "idle"]
  /\ list = [t \in Threads |-> {}]
  /\ mine = [t \in Threads |-> 0]
  /\ due = {}
  /\ reason = [t \in Threads |-> 0]

Goto(t, s) == step' = [step EXCEPT ![t] = s]

Arrive(t) ==
  /\ step[t] = "idle" /\ Goto(t, "read")
  /\ UNCHANGED <<age, table, owner, list, mine, due, reason>>

\* mutant: the window is not applied
FilteredAll(S) == S

(* `if now - timestamp < LOCKOUT_WINDOW_SECONDS`                           *)
Filtered(S) == Recent(S)

(* _recent_failures: read the list and build a fresh one.                  *)
ReadFailures(t) ==
  /\ step[t] \in {"read", "reread"}
  /\ list' = [list EXCEPT ![t] = Filtered(table)]
  /\ owner' = IF owner = t THEN Nobody ELSE owner
  /\ reason' = [reason EXCEPT ![t] = Cardinality(Recent(Ids))]
  /\ Goto(t, IF step[t] = "read" THEN "store" ELSE "restore")
  /\ UNCHANGED <<age, table, mine, due>>

(* _recent_failures: put the fresh list into the dictionary.               *)
StoreFailures(t) ==
  /\ step[t] \in {"store", "restore"}
  /\ table' = list[t] /\ owner' = t
  /\ Goto(t, IF step[t] = "store" THEN "enforce" ELSE "append")
  /\ UNCHANGED <<age, list, mine, due, reason>>

\* mutant: a refused attempt renews the failures
LockedOutRenewed(t) ==
  /\ age' = [i \in Ids |-> IF i \in list[t] THEN 0 ELSE age[i]]
  /\ UNCHANGED <<table, owner>>

(* 429; nothing is recorded.                                               *)
LockedOut(t) == UNCHANGED <<age, table, owner>>

(* _enforce_login_lockout                                                  *)
Enforce(t) ==
  /\ step[t] = "enforce"
  /\ \/ /\ Cardinality(list[t]) >= MaxFailures
        /\ LockedOut(t)
        /\ Goto(t, "refused")
     \/ /\ Cardinality(list[t]) < MaxFailures
        /\ Goto(t, "verify")
        /\ UNCHANGED <<age, table, owner>>
  /\ UNCHANGED <<list, mine, due, reason>>

(* verify_password, or no such user: the time stamp is taken.              *)
WrongPassword(t) ==
  /\ step[t] = "verify" /\ \E i \in Ids : age[i] = Unused
  /\ age' = [age EXCEPT ![FirstUnused] = 0]
  /\ mine' = [mine EXCEPT ![t] = FirstUnused]
  /\ due' = due \cup {FirstUnused}
  /\ Goto(t, "reread")
  /\ UNCHANGED <<table, owner, list, reason>>

(* `failures.append(now)`: the dictionary shows it while it holds the list *)
Appended(t) == table' = IF owner = t THEN table \cup {mine[t]} ELSE table

AppendFailure(t) ==
  /\ step[t] = "append"
  /\ list' = [list EXCEPT ![t] = @ \cup {mine[t]}]
  /\ Appended(t)
  /\ Goto(t, "put")
  /\ UNCHANGED <<age, owner, mine, due, reason>>

(* `_LOGIN_FAILURES[username] = failures`                                  *)
Put(t) == table' = list[t] /\ owner' = t

PutFailures(t) ==
  /\ step[t] = "put" /\ Put(t)
  /\ Goto(t, "refused")
  /\ UNCHANGED <<age, list, mine, due, reason>>

(* The right password: _clear_failed_logins.                               *)
RightPassword(t) ==
  /\ step[t] = "verify"
  /\ table' = {} /\ owner' = Nobody /\ due' = {}
  /\ Goto(t, "entered")
  /\ UNCHANGED <<age, list, mine, reason>>

(* 401, 429 or 200 is sent; the local list is garbage.                     *)
Answer(t) ==
  /\ step[t] \in {"refused", "entered"}
  /\ Goto(t, "idle")
  /\ list' = [list EXCEPT ![t] = {}]
  /\ mine' = [mine EXCEPT ![t] = 0]
  /\ reason' = [reason EXCEPT ![t] = 0]
  /\ owner' = IF owner = t THEN Nobody ELSE owner
  /\ UNCHANGED <<age, table, due>>

(* Failures out of the window that no list holds any more are forgotten by *)
(* the model, so that their numbers can be used again.                     *)
Tick ==
  /\ age' = [i \in Ids |->
       CASE age[i] = Unused -> Unused
         [] age[i] # Unused /\ age[i] < Window -> age[i] + 1
         [] OTHER ->
              IF i \in table \/ \E t \in Threads : i \in list[t] \/ mine[t] = i
                THEN Window ELSE Unused]
  /\ due' = {i \in due : age'[i] \in 0 .. Window - 1}
  /\ UNCHANGED <<table, owner, step, list, mine, reason>>

Login(t) ==
  \/ ReadFailures(t) \/ StoreFailures(t) \/ Enforce(t)
  \/ AppendFailure(t) \/ PutFailures(t) \/ Answer(t)

Next ==
  \/ \E t \in Threads : Arrive(t) \/ Login(t) \/ RightPassword(t) \/ WrongPassword(t)
  \/ Tick

Spec == Init /\ [][Next]_vars

(* Time goes on, threads are scheduled, and a password is right or wrong.  *)
FairSpec ==
  /\ Spec /\ WF_vars(Tick)
  /\ \A t \in Threads :
       WF_vars(Login(t)) /\ WF_vars(RightPassword(t) \/ WrongPassword(t))

-------------------------------------------------------------------------------

(* The lists hold failures that happened, and a thread that records one    *)
(* has one to record.                                                      *)
TypeOK ==
  /\ age \in [Ids -> {Unused} \cup 0 .. Window]
  /\ step \in [Threads -> {"idle", "read", "store", "enforce", "verify", "reread",
                           "restore", "append", "put", "refused", "entered"}]
  /\ list \in [Threads -> SUBSET Ids] /\ mine \in [Threads -> {0} \cup Ids]
  /\ owner \in Threads \cup {Nobody}
  /\ \A i \in table \cup UNION {list[t] : t \in Threads} : age[i] # Unused
  /\ \A t \in Threads :
       /\ owner = t => table = list[t]
       /\ step[t] \in {"reread", "restore", "append", "put"} => mine[t] # 0
       /\ mine[t] # 0 =>
            step[t] \in {"reread", "restore", "append", "put", "refused"}

(* 429 is answered only when LOCKOUT_FAILURES wrong passwords were given   *)
(* within the window before the attempt, whatever the other threads did to *)
(* the dictionary (_enforce_login_lockout).                                *)
LockoutJustified ==
  \A t \in Threads :
    step[t] = "refused" /\ mine[t] = 0 => reason[t] >= MaxFailures

(* Every failed attempt counts until it is a window old or the right       *)
(* password is given (_record_failed_login).                               *)
FailuresCount == (\A t \in Threads : step[t] = "idle") => due \subseteq table

(* "try again in a minute": a lockout ends however often it is tried, for  *)
(* refused attempts are not recorded (the detail of the 429).              *)
Locked == Cardinality(Recent(table)) >= MaxFailures

LockoutEnds == Locked ~> ~Locked

-------------------------------------------------------------------------------
(* The inductive invariants behind LockoutJustified and FailuresCount.      *)

(* What is recorded has happened, and no list that a 429 is decided on is   *)
(* longer than the failures that were in the window when it was read.       *)
ListsAreRecent ==
  /\ table \subseteq Ids
  /\ reason \in [Threads -> Nat]
  /\ \A t \in Threads :
       /\ mine[t] # 0 => age[mine[t]] # Unused
       /\ step[t] \in {"store", "enforce"} => Cardinality(list[t]) <= reason[t]

IInv == TypeOK /\ ListsAreRecent /\ LockoutJustified

(* Where the failures that are due are, while the only thread that logs in  *)
(* builds the list anew and adds its own.                                   *)
KeptBy(t) ==
  /\ due \subseteq Recent(Ids)
  /\ CASE step[t] \in {"store", "put"} -> due \subseteq list[t]
       [] step[t] = "reread" -> due \subseteq table \cup {mine[t]}
       [] step[t] \in {"restore", "append"} -> due \subseteq list[t] \cup {mine[t]}
       [] OTHER -> due \subseteq table

===============================================================================
