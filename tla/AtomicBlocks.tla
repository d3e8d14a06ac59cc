----------------------------- MODULE AtomicBlocks -----------------------------
(***************************************************************************)
(* What db.transaction promises: "Commit on success, roll back on any      *)
(* exception ... Only the outermost block commits or rolls back."          *)
(*                                                                         *)
(* The database changes in one way only: a running block takes effect      *)
(* whole, at one instant, on the database as it is at that instant.  A     *)
(* block that fails, or that a crash cuts short, leaves no trace.          *)
(***************************************************************************)
EXTENDS Blocks

CONSTANTS
  Conns,      (* the connections of the requests                           *)
  NoBlock,    (* the block of a connection that runs none                  *)
  InitialDb   (* the database at start-up                                  *)

VARIABLES
  db,         (* the committed database, which is what every reader sees   *)
  running,    (* running[c]: the block c is in, or NoBlock                 *)
  result      (* result[c]: how the last block of c ended                  *)

avars == <<db, running, result>>

AInit ==
  /\ db = InitialDb
  /\ running = [c \in Conns |-> NoBlock]
  /\ result = [c \in Conns |-> "none"]

ABegin(c, b) ==
  /\ running[c] = NoBlock
  /\ running' = [running EXCEPT ![c] = b]
  /\ result' = [result EXCEPT ![c] = "none"]
  /\ UNCHANGED db

ACommit(c) ==
  /\ running[c] # NoBlock
  /\ db' = Apply(db, running[c], Len(running[c].code))
  /\ running' = [running EXCEPT ![c] = NoBlock]
  /\ result' = [result EXCEPT ![c] = "ok"]

AFail(c) ==
  /\ running[c] # NoBlock
  /\ running' = [running EXCEPT ![c] = NoBlock]
  /\ result' = [result EXCEPT ![c] = "failed"]
  /\ UNCHANGED db

ACrash ==
  /\ running' = [c \in Conns |-> NoBlock]
  /\ result' = [c \in Conns |-> "none"]
  /\ UNCHANGED db

ANext ==
  \/ \E c \in Conns, b \in Blocks : ABegin(c, b)
  \/ \E c \in Conns : ACommit(c) \/ AFail(c)
  \/ ACrash

ASpec == AInit /\ [][ANext]_avars

===============================================================================
