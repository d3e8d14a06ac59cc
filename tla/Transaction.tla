------------------------------ MODULE Transaction ------------------------------
(***************************************************************************)
(* db.transaction, the reentrant context manager every write goes through, *)
(* over SQLite's single write lock, for several connections at once.       *)
(*                                                                         *)
(* One connection belongs to one request at a time (auth.get_conn opens    *)
(* it, the finally clause closes it).  _TX_DEPTH is a process-wide         *)
(* dictionary keyed by id(conn); an element of Conns stands for such an    *)
(* address, so a connection that is opened later may be the same element   *)
(* and would find whatever entry its predecessor left behind.              *)
(*                                                                         *)
(* The SQLite part is external: in Python's default mode a transaction     *)
(* begins implicitly at the first INSERT, UPDATE or DELETE, which takes    *)
(* the one write lock or waits for busy_timeout; reads outside it see the  *)
(* committed file; commit may itself fail with "database is locked" (a     *)
(* DELETE-mode journal waits for readers).                                 *)
(***************************************************************************)
EXTENDS Blocks

CONSTANTS
  Conns,      (* addresses id(conn) of connection objects                  *)
  NoConn,     (* holder of the free lock                                   *)
  NoBlock,    (* block of a connection that runs none                      *)
  InitialDb   (* the database at start-up                                  *)

ASSUME ConstantsAssumption ==
  /\ NoConn \notin Conns
  /\ NoBlock \notin Blocks
  /\ InitialDb \in [Cells -> Values]

VARIABLES
  disk,       (* the committed database file                               *)
  work,       (* the uncommitted pages of the holder of the write lock     *)
  lock,       (* SQLite's write lock: its holder, or NoConn                *)
  open,       (* the connections that are open                             *)
  txDepth,    (* _TX_DEPTH; 0 stands for a missing key                     *)
  frames,     (* frames[c]: the local `depth` of each active transaction() *)
  block,      (* block[c]: the block c runs, or NoBlock                    *)
  pc,         (* pc[c]: how many of its instructions have been executed    *)
  raising,    (* raising[c]: an exception is propagating out of the block  *)
  result      (* result[c]: how the last block of c ended                  *)

vars == <<disk, work, lock, open, txDepth, frames, block, pc, raising, result>>

sqlite == <<disk, work, lock>>

TypeOK ==
  /\ disk \in [Cells -> Values]
  /\ work \in [Cells -> Values]
  /\ lock \in Conns \cup {NoConn}
  /\ open \subseteq Conns
  /\ txDepth \in [Conns -> Nat]
  /\ frames \in [Conns -> Seq(Nat)]
  /\ block \in [Conns -> Blocks \cup {NoBlock}]
  /\ pc \in [Conns -> Nat]
  /\ raising \in [Conns -> BOOLEAN]
  /\ result \in [Conns -> {"none", "ok", "failed"}]

-------------------------------------------------------------------------------
(* SQLite (external): the effect of each call on the file and the lock.     *)

Begin(c) == lock \in {NoConn, c}            \* the lock can be had, or is held

SqlWrite(c, k, v) ==
  /\ Begin(c)
  /\ lock' = c
  /\ work' = [(IF lock = c THEN work ELSE disk) EXCEPT ![k] = v]
  /\ UNCHANGED disk

SqlCommit(c) ==
  IF lock = c
    THEN disk' = work /\ lock' = NoConn /\ UNCHANGED work
    ELSE UNCHANGED sqlite

SqlRollback(c) ==
  IF lock = c
    THEN lock' = NoConn /\ UNCHANGED <<disk, work>>
    ELSE UNCHANGED sqlite

-------------------------------------------------------------------------------
(* The connection of a request: auth.get_conn.                              *)

Open(c) ==
  /\ c \notin open
  /\ open' = open \cup {c}
  /\ UNCHANGED <<sqlite, txDepth, frames, block, pc, raising, result>>

(* conn.close() rolls an open transaction back.                             *)
Close(c) ==
  /\ c \in open
  /\ block[c] = NoBlock
  /\ open' = open \ {c}
  /\ SqlRollback(c)
  /\ UNCHANGED <<txDepth, frames, block, pc, raising, result>>

(* An operation of store.py or service.py reaches its outermost block.      *)
Start(c, b) ==
  /\ c \in open
  /\ block[c] = NoBlock
  /\ block' = [block EXCEPT ![c] = b]
  /\ pc' = [pc EXCEPT ![c] = 0]
  /\ result' = [result EXCEPT ![c] = "none"]
  /\ UNCHANGED <<sqlite, open, txDepth, frames, raising>>

-------------------------------------------------------------------------------
(* The block.                                                               *)

Running(c) == block[c] # NoBlock /\ ~raising[c]

At(c, op) == Running(c) /\ block[c].code[pc[c] + 1].op = op

(* Mutants: the slips that the properties below catch in LeaveFrame,        *)
(* Outermost and the steps of a block.                                      *)

\* mutant: a nested block passes for the outermost
OutermostTooWide(c) == frames[c][Len(frames[c])] <= 1

\* mutant: the entry is put back on success only
LeaveFrameNotFinally(c) ==
  LET n == Len(frames[c]) IN
  /\ frames' = [frames EXCEPT ![c] = SubSeq(frames[c], 1, n - 1)]
  /\ txDepth' = IF raising[c] THEN txDepth ELSE [txDepth EXCEPT ![c] = frames[c][n]]

Outermost(c) == frames[c][Len(frames[c])] = 0

(* try ... finally of the innermost active transaction() of c: its frame    *)
(* goes, and _TX_DEPTH gets back what the frame had found there.            *)
LeaveFrame(c) ==
  LET n == Len(frames[c]) IN
  /\ frames' = [frames EXCEPT ![c] = SubSeq(frames[c], 1, n - 1)]
  /\ txDepth' = [txDepth EXCEPT ![c] = frames[c][n]]

\* mutant: nested entries do not count
EnterUncounted(c) ==
  /\ At(c, "enter")
  /\ frames' = [frames EXCEPT ![c] = Append(frames[c], txDepth[c])]
  /\ pc' = [pc EXCEPT ![c] = pc[c] + 1]
  /\ UNCHANGED <<sqlite, open, txDepth, block, raising, result>>

\* mutant: it waits for ever
WaitForLock(c) ==
  /\ At(c, "write")
  /\ ~Begin(c)
  /\ UNCHANGED vars

\* mutant: nested blocks commit too
ExitAlwaysCommits(c) ==
  /\ At(c, "exit")
  /\ SqlCommit(c)
  /\ LeaveFrame(c)
  /\ IF pc[c] + 1 = Len(block[c].code)
       THEN /\ block' = [block EXCEPT ![c] = NoBlock]
            /\ pc' = [pc EXCEPT ![c] = 0]
            /\ result' = [result EXCEPT ![c] = "ok"]
       ELSE /\ pc' = [pc EXCEPT ![c] = pc[c] + 1]
            /\ UNCHANGED <<block, result>>
  /\ UNCHANGED <<open, raising>>

\* mutant: the rollback is forgotten
UnwindKeepsLock(c) ==
  /\ raising[c]
  /\ frames[c] # <<>>
  /\ LeaveFrame(c)
  /\ UNCHANGED <<sqlite, open, block, pc, raising, result>>

-------------------------------------------------------------------------------

Enter(c) ==
  /\ At(c, "enter")
  /\ frames' = [frames EXCEPT ![c] = Append(frames[c], txDepth[c])]
  /\ txDepth' = [txDepth EXCEPT ![c] = txDepth[c] + 1]
  /\ pc' = [pc EXCEPT ![c] = pc[c] + 1]
  /\ UNCHANGED <<sqlite, open, block, raising, result>>

Write(c) ==
  /\ At(c, "write")
  /\ LET w == block[c].code[pc[c] + 1] IN SqlWrite(c, w.cell, w.val)
  /\ pc' = [pc EXCEPT ![c] = pc[c] + 1]
  /\ UNCHANGED <<open, txDepth, frames, block, raising, result>>

(* "database is locked": busy_timeout ran out before the lock was free.     *)
BusyTimeout(c) ==
  /\ At(c, "write")
  /\ ~Begin(c)
  /\ raising' = [raising EXCEPT ![c] = TRUE]
  /\ UNCHANGED <<sqlite, open, txDepth, frames, block, pc, result>>

(* The body raises: a ServiceError, an IntegrityError, a disk error ...     *)
Raise(c) ==
  /\ Running(c)
  /\ frames[c] # <<>>
  /\ raising' = [raising EXCEPT ![c] = TRUE]
  /\ UNCHANGED <<sqlite, open, txDepth, frames, block, pc, result>>

(* The body of the innermost transaction() is done: only depth 0 commits.   *)
Exit(c) ==
  /\ At(c, "exit")
  /\ IF Outermost(c) THEN SqlCommit(c) ELSE UNCHANGED sqlite
  /\ LeaveFrame(c)
  /\ IF pc[c] + 1 = Len(block[c].code)
       THEN /\ block' = [block EXCEPT ![c] = NoBlock]
            /\ pc' = [pc EXCEPT ![c] = 0]
            /\ result' = [result EXCEPT ![c] = "ok"]
       ELSE /\ pc' = [pc EXCEPT ![c] = pc[c] + 1]
            /\ UNCHANGED <<block, result>>
  /\ UNCHANGED <<open, raising>>

(* conn.commit() raises inside the try: rolled back and raised again.       *)
CommitFails(c) ==
  /\ At(c, "exit")
  /\ Outermost(c)
  /\ lock = c
  /\ SqlRollback(c)
  /\ LeaveFrame(c)
  /\ raising' = [raising EXCEPT ![c] = TRUE]
  /\ UNCHANGED <<open, block, pc, result>>

(* except Exception: only depth 0 rolls back; every level raises again.     *)
Unwind(c) ==
  /\ raising[c]
  /\ frames[c] # <<>>
  /\ IF Outermost(c) THEN SqlRollback(c) ELSE UNCHANGED sqlite
  /\ LeaveFrame(c)
  /\ UNCHANGED <<open, block, pc, raising, result>>

(* The exception has left the outermost block: the handler answers with it. *)
Caught(c) ==
  /\ raising[c]
  /\ frames[c] = <<>>
  /\ raising' = [raising EXCEPT ![c] = FALSE]
  /\ block' = [block EXCEPT ![c] = NoBlock]
  /\ pc' = [pc EXCEPT ![c] = 0]
  /\ result' = [result EXCEPT ![c] = "failed"]
  /\ UNCHANGED <<sqlite, open, txDepth, frames>>

(* The process dies; what was not committed is gone, and so is its memory.  *)
Crash ==
  /\ lock' = NoConn
  /\ open' = {}
  /\ txDepth' = [c \in Conns |-> 0]
  /\ frames' = [c \in Conns |-> <<>>]
  /\ block' = [c \in Conns |-> NoBlock]
  /\ pc' = [c \in Conns |-> 0]
  /\ raising' = [c \in Conns |-> FALSE]
  /\ result' = [c \in Conns |-> "none"]
  /\ UNCHANGED <<disk, work>>

-------------------------------------------------------------------------------
Init ==
  /\ disk = InitialDb
  /\ work = InitialDb
  /\ lock = NoConn
  /\ open = {}
  /\ txDepth = [c \in Conns |-> 0]
  /\ frames = [c \in Conns |-> <<>>]
  /\ block = [c \in Conns |-> NoBlock]
  /\ pc = [c \in Conns |-> 0]
  /\ raising = [c \in Conns |-> FALSE]
  /\ result = [c \in Conns |-> "none"]

(* What the thread of the request does by itself once a block has begun.    *)
Run(c) ==
  \/ Enter(c)
  \/ Write(c)
  \/ BusyTimeout(c)
  \/ Exit(c)
  \/ Unwind(c)
  \/ Caught(c)

Next ==
  \/ \E c \in Conns : Open(c) \/ Close(c)
  \/ \E c \in Conns, b \in Blocks : Start(c, b)
  \/ \E c \in Conns : Run(c) \/ Raise(c) \/ CommitFails(c)
  \/ Crash

Spec == Init /\ [][Next]_vars

(* A thread in a block is scheduled, and SQLite's busy handler gives up.    *)
FairSpec == Spec /\ \A c \in Conns : WF_vars(Run(c))

-------------------------------------------------------------------------------
(* Properties.                                                              *)

(* No connection keeps SQLite's write lock outside an outermost block: an   *)
(* exception path that forgets the rollback would lock every other request  *)
(* out until the connection is closed.                                      *)
LockOnlyInBlock ==
  \A c \in Conns : lock = c => frames[c] # <<>> /\ frames[c][1] = 0

(* A connection with no block under way has no entry in _TX_DEPTH.  A       *)
(* leftover entry would make the next connection at the same address take   *)
(* its outermost block for a nested one and never commit.                   *)
NoStaleDepth ==
  \A c \in Conns : frames[c] = <<>> => txDepth[c] = 0

(* The uncommitted pages are the committed file with the statements the     *)
(* block has executed so far, all of them: nothing of it was committed      *)
(* early, rolled back early, or written by somebody else.  A block that     *)
(* does not hold the lock has executed none.                                *)
WorkIsPrefix ==
  \A c \in Conns : Running(c) =>
    IF lock = c
      THEN work = Apply(disk, block[c], pc[c])
      ELSE \A i \in 1 .. pc[c] : block[c].code[i].op # "write"

(* The refinement: block by block, the file moves as AtomicBlocks says.     *)
Abstract == INSTANCE AtomicBlocks WITH db <- disk, running <- block

AtomicCommit == Abstract!ASpec

(* Whoever is in a block gets out of it, committed or not, however busy the *)
(* write lock is.                                                           *)
BlocksEnd ==
  \A c \in Conns : block[c] # NoBlock ~> block[c] = NoBlock

-------------------------------------------------------------------------------
(* The inductive invariant behind the safety properties.                    *)

(* The frames of c hold their own depths, and _TX_DEPTH their number.       *)
FramesHoldDepth ==
  \A c \in Conns :
    /\ txDepth[c] = Len(frames[c])
    /\ \A i \in 1 .. Len(frames[c]) : frames[c][i] = i - 1

(* There are as many frames as its block has opened and not yet closed.     *)
MatchesBlock(c) ==
  /\ block[c] = NoBlock => frames[c] = <<>> /\ ~raising[c]
  /\ Running(c) => /\ pc[c] < Len(block[c].code)
                   /\ block[c].nest[pc[c]] = Len(frames[c])

FramesMatchBlock == \A c \in Conns : MatchesBlock(c)

IInv ==
  /\ TypeOK
  /\ FramesHoldDepth
  /\ FramesMatchBlock
  /\ LockOnlyInBlock
  /\ WorkIsPrefix

===============================================================================
