----------------------------- MODULE MCTransaction -----------------------------
(***************************************************************************)
(* A small instance of Transaction: the shapes of block that service.py    *)
(* runs, on two cells.                                                     *)
(***************************************************************************)
EXTENDS Transaction, FiniteSets

CONSTANTS c1, c2, x, y   (* two connections, two cells *)

MCCells == {x, y}

MCValues == 0 .. 3

MCInitialDb == [k \in MCCells |-> 0]

In == [op |-> "enter"]

Out == [op |-> "exit"]

Set(k, v) == [op |-> "write", cell |-> k, val |-> v]

Opened(code, i, op) == Cardinality({j \in 1 .. i : code[j].op = op})

Block(code) ==
  [code |-> code,
   nest |-> [i \in 0 .. Len(code) |-> Opened(code, i, "enter") - Opened(code, i, "exit")]]

MCBlocks ==
  { Block(<<In, Set(x, 1), Set(x, 2), Out>>),             \* store.replace_rows
    Block(<<In, In, Set(y, 1), Out, In, Set(x, 3), Out, Out>>),
                                                          \* service.create_dataset
    Block(<<In, In, In, Set(x, 2), Out, Out, Set(y, 2), Out>>),
                                                          \* reset_all_to_seed, _clone_server_rows
    Block(<<In, In, Out, Out>>) }                         \* reset of no server

===============================================================================
