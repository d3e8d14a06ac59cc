-------------------------------- MODULE Blocks --------------------------------
(***************************************************************************)
(* The code a `with transaction(conn)` block runs, as data.                *)
(*                                                                         *)
(* A block is what service.py and store.py execute between entering the    *)
(* outermost transaction() and leaving it: nested enters and exits of the  *)
(* same context manager (store helpers open their own) and the INSERT,     *)
(* UPDATE and DELETE statements between them.  A statement is abstracted   *)
(* to the write of one value to one cell of the database.                  *)
(*                                                                         *)
(* Apply(base, b, n) is the database that the first n instructions of b    *)
(* make of base: for each cell, the value of the last write to it.         *)
(***************************************************************************)
EXTENDS Integers, Sequences

CONSTANTS
  Cells,    (* the cells of the database file                              *)
  Values,   (* what a cell may hold                                        *)
  Blocks    (* the blocks that the operations of the program run           *)

Instr == [op : {"enter", "exit"}] \cup
         [op : {"write"}, cell : Cells, val : Values]

(* nest[i] is the number of context managers open after i instructions.    *)
NestStep(b, i) ==
  CASE b.code[i].op = "enter" -> b.nest[i] = b.nest[i - 1] + 1
    [] b.code[i].op = "exit"  -> b.nest[i] = b.nest[i - 1] - 1
    [] OTHER                  -> b.nest[i] = b.nest[i - 1] /\ b.nest[i] > 0

(* One outermost block: every enter has its exit, the outermost closes     *)
(* with the last instruction and not before, and all writes are inside.    *)
WellNested(b) ==
  /\ b.code \in Seq(Instr)
  /\ Len(b.code) > 0
  /\ b.nest \in [0 .. Len(b.code) -> Nat]
  /\ \A i \in 0 .. Len(b.code) : b.nest[i] = 0 <=> i \in {0, Len(b.code)}
  /\ \A i \in 1 .. Len(b.code) : NestStep(b, i)

ASSUME BlocksAssumption == \A b \in Blocks : WellNested(b)

WritesCell(b, i, k) == b.code[i].op = "write" /\ b.code[i].cell = k

(* The write to k, if any, that no later one among the first n overwrites. *)
LastWrites(b, n, k) ==
  {i \in 1 .. n : WritesCell(b, i, k) /\ \A j \in 1 .. n : j > i => ~WritesCell(b, j, k)}

ElementOf(S) == CHOOSE i \in S : TRUE

Content(base, b, n, k) ==
  IF LastWrites(b, n, k) = {}
    THEN base[k]
    ELSE b.code[ElementOf(LastWrites(b, n, k))].val

Apply(base, b, n) == [k \in Cells |-> Content(base, b, n, k)]

===============================================================================
