---------------------------- MODULE SlidingWindow -----------------------------
(***************************************************************************)
(* What the rate limiter promises each caller: of the requests of the last *)
(* Window ticks no more than the limit were let through, and a request is  *)
(* refused only when that many were.                                       *)
(***************************************************************************)
EXTENDS Integers, Sequences

CONSTANTS
  Callers,   (* whom the limiter tells apart                               *)
  Limit(_),  (* Limit(c): requests a window, none is no limit              *)
  Window     (* the window, in ticks                                       *)

VARIABLES
  recent,    (* recent[c]: ages of the requests let through, oldest first  *)
  answer     (* answer[c]: what became of the last request of c            *)

svars == <<recent, answer>>

Older(ages) == [i \in DOMAIN ages |-> ages[i] + 1]

(* Oldest first, so those that are too old are in front.                   *)
Within(ages) ==
  SubSeq(ages, 1 + CHOOSE n \in 0 .. Len(ages) :
                     \A i \in 1 .. Len(ages) : ages[i] >= Window <=> i <= n,
         Len(ages))

SInit ==
  /\ recent = [c \in Callers |-> <<>>]
  /\ answer = [c \in Callers |-> "none"]

SAdmit(c) ==
  /\ Len(recent[c]) < Limit(c)
  /\ recent' = [recent EXCEPT ![c] = Append(@, 0)]
  /\ answer' = [answer EXCEPT ![c] = "admitted"]

SRefuse(c) ==
  /\ 0 < Limit(c) /\ Limit(c) <= Len(recent[c])
  /\ answer' = [answer EXCEPT ![c] = "refused"]
  /\ UNCHANGED recent

SPass(c) ==
  /\ Limit(c) <= 0
  /\ answer' = [answer EXCEPT ![c] = "admitted"]
  /\ UNCHANGED recent

STick ==
  /\ recent' = [c \in Callers |-> Within(Older(recent[c]))]
  /\ UNCHANGED answer

SRestart == SInit'

SNext ==
  \/ \E c \in Callers : SAdmit(c) \/ SRefuse(c) \/ SPass(c)
  \/ STick
  \/ SRestart

SSpec == SInit /\ [][SNext]_svars

===============================================================================
