--------------------------- MODULE TransactionProofs ---------------------------
(***************************************************************************)
(* Transaction keeps its inductive invariant IInv and implements           *)
(* AtomicBlocks, for every set of connections, of cells and of well-nested *)
(* blocks.                                                                 *)
(***************************************************************************)
EXTENDS Transaction, SequenceTheorems, TLAPS

(* A write as instruction n + 1 changes its cell in what the block makes of *)
(* a database, and no other.                                                *)
LEMMA ApplyWrite ==
  ASSUME NEW b \in Blocks, NEW n \in Nat, NEW base,
         b.code[n + 1].op = "write"
  PROVE  Apply(base, b, n + 1)
           = [Apply(base, b, n) EXCEPT ![b.code[n + 1].cell] = b.code[n + 1].val]
<1> DEFINE w == b.code[n + 1]
<1>1. ASSUME NEW k \in Cells, k = w.cell
      PROVE  Content(base, b, n + 1, k) = w.val
  <2>1. LastWrites(b, n + 1, k) = {n + 1}
    BY <1>1 DEF LastWrites, WritesCell
  <2>2. ElementOf({n + 1}) = n + 1
    BY DEF ElementOf
  <2>3. QED
    BY <2>1, <2>2 DEF Content
<1>2. ASSUME NEW k \in Cells, k # w.cell
      PROVE  Content(base, b, n + 1, k) = Content(base, b, n, k)
  <2>1. LastWrites(b, n + 1, k) = LastWrites(b, n, k)
    BY <1>2 DEF LastWrites, WritesCell
  <2>2. QED
    BY <2>1 DEF Content
<1>3. QED
  BY <1>1, <1>2 DEF Apply

(* Entering or leaving a nested transaction() writes nothing.               *)
LEMMA ApplyOther ==
  ASSUME NEW b \in Blocks, NEW n \in Nat, NEW base,
         b.code[n + 1].op # "write"
  PROVE  Apply(base, b, n + 1) = Apply(base, b, n)
<1>1. ASSUME NEW k \in Cells
      PROVE  Content(base, b, n + 1, k) = Content(base, b, n, k)
  <2>1. LastWrites(b, n + 1, k) = LastWrites(b, n, k)
    BY DEF LastWrites, WritesCell
  <2>2. QED
    BY <2>1 DEF Content
<1>2. QED
  BY <1>1 DEF Apply

(* A block that has executed nothing has changed nothing.                   *)
LEMMA ApplyNothing ==
  ASSUME NEW b, NEW base \in [Cells -> Values]
  PROVE  Apply(base, b, 0) = base
<1>1. ASSUME NEW k \in Cells
      PROVE  Content(base, b, 0, k) = base[k]
  BY DEF Content, LastWrites
<1>2. QED
  BY <1>1 DEF Apply

-------------------------------------------------------------------------------
(* What well-nestedness says of the next instruction of a block.            *)
LEMMA NextInstr ==
  ASSUME NEW b \in Blocks, NEW n \in Nat, n < Len(b.code)
  PROVE  /\ b.code[n + 1].op \in {"enter", "exit", "write"}
         /\ b.code[n + 1].op = "write" => /\ b.code[n + 1].cell \in Cells
                                          /\ b.code[n + 1].val \in Values
         /\ Len(b.code) \in Nat
         /\ b.nest[n] \in Nat
         /\ b.nest[n + 1] \in Nat
         /\ b.nest[n + 1] = 0 <=> n + 1 = Len(b.code)
         /\ b.code[n + 1].op = "enter" => b.nest[n + 1] = b.nest[n] + 1
         /\ b.code[n + 1].op = "exit" => b.nest[n + 1] = b.nest[n] - 1
         /\ b.code[n + 1].op = "write" => /\ b.nest[n + 1] = b.nest[n]
                                          /\ b.nest[n] > 0
<1>1. /\ b.code \in Seq(Instr)
      /\ Len(b.code) \in Nat
      /\ b.nest \in [0 .. Len(b.code) -> Nat]
      /\ b.nest[n + 1] = 0 <=> n + 1 \in {0, Len(b.code)}
      /\ NestStep(b, n + 1)
  BY BlocksAssumption DEF WellNested
<1>2. b.code[n + 1] \in Instr
  BY <1>1
<1>3. b.code[n + 1].op \in {"enter", "exit", "write"}
  BY <1>2 DEF Instr
<1>4. b.code[n + 1].op = "write" => /\ b.code[n + 1].cell \in Cells
                                   /\ b.code[n + 1].val \in Values
  BY <1>2 DEF Instr
<1>5. QED
  BY <1>1, <1>3, <1>4, SMTT(30) DEF NestStep

(* A block starts outside every context manager.                            *)
LEMMA NestStart ==
  ASSUME NEW b \in Blocks
  PROVE  b.nest[0] = 0 /\ Len(b.code) \in Nat /\ 0 < Len(b.code)
BY BlocksAssumption DEF WellNested

(* What popping the last element of a sequence leaves.                      *)
LEMMA Popped ==
  ASSUME NEW s \in Seq(Nat), s # <<>>
  PROVE  /\ Len(s) \in Nat \ {0}
         /\ s[Len(s)] \in Nat
         /\ SubSeq(s, 1, Len(s) - 1) \in Seq(Nat)
         /\ Len(SubSeq(s, 1, Len(s) - 1)) = Len(s) - 1
         /\ \A i \in 1 .. Len(s) - 1 : SubSeq(s, 1, Len(s) - 1)[i] = s[i]
<1>1. Len(s) \in Nat \ {0} /\ \A i \in 1 .. Len(s) : s[i] \in Nat
  BY EmptySeq, ElementOfSeq
<1>2. PICK n \in Nat : Len(s) = n + 1
  <2>1. Len(s) - 1 \in Nat /\ Len(s) = (Len(s) - 1) + 1
    BY <1>1
  <2>2. QED
    BY <2>1
<1>3. \A i \in 1 .. n : s[i] \in Nat
  BY <1>1, <1>2
<1>4. /\ SubSeq(s, 1, n) \in Seq(Nat)
      /\ Len(SubSeq(s, 1, n)) = IF 1 <= n THEN n - 1 + 1 ELSE 0
      /\ \A i \in 1 .. n - 1 + 1 : SubSeq(s, 1, n)[i] = s[1 + i - 1]
  <2>1. n \in Int /\ 1 \in Int
    OBVIOUS
  <2>2. QED
    BY <2>1, <1>3, SubSeqProperties
<1>5. n - 1 + 1 = n /\ Len(s) - 1 = n /\ \A i \in 1 .. n : 1 + i - 1 = i
  BY <1>2
<1>6. QED
  BY <1>1, <1>2, <1>4, <1>5

(* What entering one more makes of the depths of the frames.               *)
LEMMA Appended ==
  ASSUME NEW s \in Seq(Nat), \A i \in 1 .. Len(s) : s[i] = i - 1
  PROVE  /\ Append(s, Len(s)) \in Seq(Nat)
         /\ Len(Append(s, Len(s))) = Len(s) + 1
         /\ \A i \in 1 .. Len(Append(s, Len(s))) : Append(s, Len(s))[i] = i - 1
         /\ Append(s, Len(s)) # <<>>
         /\ Append(s, Len(s))[1] = 0
<1>1. Len(s) \in Nat
  BY LenProperties
<1>2. /\ Append(s, Len(s)) \in Seq(Nat)
      /\ Len(Append(s, Len(s))) = Len(s) + 1
      /\ \A i \in 1 .. Len(s) : Append(s, Len(s))[i] = s[i]
      /\ Append(s, Len(s))[Len(s) + 1] = Len(s)
      /\ Append(s, Len(s)) # <<>>
  BY <1>1, AppendProperties
<1>3. QED
  <2> DEFINE t == Append(s, Len(s))
             m == Len(s)
  <2> HIDE DEF t, m
  <2>1. \A i \in 1 .. m + 1 : t[i] = i - 1
    BY <1>1, <1>2 DEF t, m
  <2>2. QED
    BY <1>1, <1>2, <2>1 DEF t, m

(* Leaving the innermost context manager of c.                              *)
LEMMA Leaving ==
  ASSUME TypeOK, FramesHoldDepth, NEW c \in Conns, frames[c] # <<>>, LeaveFrame(c)
  PROVE  /\ frames' \in [Conns -> Seq(Nat)]
         /\ txDepth' \in [Conns -> Nat]
         /\ FramesHoldDepth'
         /\ Len(frames[c]) \in Nat \ {0}
         /\ Len(frames'[c]) = Len(frames[c]) - 1
         /\ Outermost(c) <=> Len(frames[c]) = 1
         /\ Len(frames[c]) = 1 => frames'[c] = <<>>
         /\ \A d \in Conns : d # c => frames'[d] = frames[d]
<1> DEFINE s == frames[c]
           t == SubSeq(s, 1, Len(s) - 1)
<1>1. s \in Seq(Nat)
  BY DEF TypeOK
<1>2. /\ Len(s) \in Nat \ {0}
      /\ s[Len(s)] \in Nat
      /\ t \in Seq(Nat)
      /\ Len(t) = Len(s) - 1
      /\ \A i \in 1 .. Len(s) - 1 : t[i] = s[i]
  BY <1>1, Popped
<1>3. /\ frames' = [frames EXCEPT ![c] = t]
      /\ txDepth' = [txDepth EXCEPT ![c] = s[Len(s)]]
  BY DEF LeaveFrame
<1>4. s[Len(s)] = Len(s) - 1 /\ \A i \in 1 .. Len(s) : s[i] = i - 1
  <2>1. \A i \in 1 .. Len(s) : s[i] = i - 1
    BY DEF FramesHoldDepth
  <2>2. QED
    BY <1>2, <2>1
<1>5. Len(s) = 1 => t = <<>>
  BY <1>2
<1> HIDE DEF s, t
<1>6. /\ frames' \in [Conns -> Seq(Nat)]
      /\ txDepth' \in [Conns -> Nat]
      /\ frames'[c] = t
      /\ txDepth'[c] = s[Len(s)]
      /\ \A d \in Conns : d # c => frames'[d] = frames[d] /\ txDepth'[d] = txDepth[d]
  BY <1>2, <1>3 DEF TypeOK
<1>7. FramesHoldDepth'
  <2> SUFFICES ASSUME NEW d \in Conns
               PROVE  /\ txDepth'[d] = Len(frames'[d])
                      /\ \A i \in 1 .. Len(frames'[d]) : frames'[d][i] = i - 1
    BY DEF FramesHoldDepth
  <2>1. CASE d = c
    BY <2>1, <1>2, <1>4, <1>6
  <2>2. CASE d # c
    BY <2>2, <1>6 DEF FramesHoldDepth
  <2>3. QED
    BY <2>1, <2>2
<1>8. Outermost(c) <=> Len(s) = 1
  BY <1>2, <1>4 DEF Outermost, s
<1>9. QED
  BY <1>2, <1>5, <1>6, <1>7, <1>8 DEF s

(* As long as a block has only opened and closed context managers, it has   *)
(* changed nothing.                                                         *)
LEMMA NoWrites ==
  ASSUME NEW b \in Blocks, NEW n \in Nat, NEW base \in [Cells -> Values],
         \A i \in 1 .. n : b.code[i].op # "write"
  PROVE  Apply(base, b, n) = base
<1>1. ASSUME NEW k \in Cells
      PROVE  Content(base, b, n, k) = base[k]
  BY DEF Content, LastWrites, WritesCell
<1>2. QED
  BY <1>1 DEF Apply

-------------------------------------------------------------------------------
(* The outermost transaction() found depth 0.                               *)
LEMMA FirstFrame ==
  ASSUME TypeOK, FramesHoldDepth, NEW c \in Conns, frames[c] # <<>>
  PROVE  frames[c][1] = 0
<1>1. frames[c] \in Seq(Nat) /\ \A i \in 1 .. Len(frames[c]) : frames[c][i] = i - 1
  BY DEF TypeOK, FramesHoldDepth
<1>2. Len(frames[c]) \in Nat \ {0}
  BY <1>1, EmptySeq, LenProperties
<1>3. QED
  BY <1>1, <1>2

LEMMA FirstFramePrime ==
  ASSUME TypeOK', FramesHoldDepth', NEW c \in Conns, frames'[c] # <<>>
  PROVE  frames'[c][1] = 0
<1>1. frames'[c] \in Seq(Nat) /\ \A i \in 1 .. Len(frames'[c]) : frames'[c][i] = i - 1
  BY DEF TypeOK, FramesHoldDepth
<1>2. Len(frames'[c]) \in Nat \ {0}
  BY <1>1, EmptySeq, LenProperties
<1>3. QED
  BY <1>1, <1>2

-------------------------------------------------------------------------------
(* The steps of a block keep the invariant, one lemma for each.             *)

(* A connection that a step leaves alone stays in place in its block.       *)
LEMMA StillMatches ==
  ASSUME IInv, NEW d \in Conns,
         block'[d] = block[d], raising'[d] = raising[d],
         pc'[d] = pc[d], frames'[d] = frames[d]
  PROVE  MatchesBlock(d)'
BY DEF IInv, FramesMatchBlock, MatchesBlock, Running

LEMMA EnterKeeps ==
  ASSUME IInv, NEW c \in Conns, Enter(c)
  PROVE  IInv'
<1> DEFINE b == block[c]
           n == pc[c]
           t == Append(frames[c], txDepth[c])
<1>1. /\ b \in Blocks
      /\ n \in Nat
      /\ n < Len(b.code)
      /\ b.code[n + 1].op = "enter"
      /\ b.nest[n] = Len(frames[c])
  BY DEF IInv, TypeOK, FramesMatchBlock, MatchesBlock, Enter, At, Running
<1>2. /\ b.nest[n + 1] = b.nest[n] + 1
      /\ b.nest[n] \in Nat
      /\ n + 1 < Len(b.code)
  <2> HIDE DEF b, n
  <2>1. /\ b.nest[n + 1] = b.nest[n] + 1
        /\ b.nest[n] \in Nat
        /\ Len(b.code) \in Nat
        /\ b.nest[n + 1] = 0 <=> n + 1 = Len(b.code)
    BY <1>1, NextInstr
  <2>2. QED
    BY <1>1, <2>1
<1>3. /\ frames[c] \in Seq(Nat)
      /\ txDepth[c] \in Nat
      /\ txDepth[c] = Len(frames[c])
      /\ \A i \in 1 .. Len(frames[c]) : frames[c][i] = i - 1
  BY DEF IInv, TypeOK, FramesHoldDepth
<1>4. /\ t \in Seq(Nat)
      /\ Len(t) = Len(frames[c]) + 1
      /\ \A i \in 1 .. Len(t) : t[i] = i - 1
      /\ t # <<>>
      /\ t[1] = 0
  BY <1>3, Appended
<1> HIDE DEF b, n, t
<1>5. /\ frames' = [frames EXCEPT ![c] = t]
      /\ txDepth' = [txDepth EXCEPT ![c] = txDepth[c] + 1]
      /\ pc' = [pc EXCEPT ![c] = n + 1]
      /\ UNCHANGED <<disk, work, lock, open, block, raising, result>>
  BY DEF Enter, sqlite, t, n
<1>6. TypeOK'
  BY <1>1, <1>3, <1>4, <1>5, SMTT(30) DEF IInv, TypeOK
<1>7. FramesHoldDepth'
  BY <1>3, <1>4, <1>5 DEF IInv, TypeOK, FramesHoldDepth
<1>8. FramesMatchBlock'
  <2>1. /\ block'[c] = b /\ pc'[c] = n + 1 /\ frames'[c] = t
        /\ b # NoBlock
    BY <1>1, <1>5, ConstantsAssumption DEF IInv, TypeOK, b
  <2>2. MatchesBlock(c)'
    BY <2>1, <1>1, <1>2, <1>4 DEF MatchesBlock, Running
  <2>3. ASSUME NEW d \in Conns, d # c
        PROVE  MatchesBlock(d)'
    BY <2>3, <1>5, StillMatches DEF IInv, TypeOK
  <2>4. QED
    BY <2>2, <2>3 DEF FramesMatchBlock
<1>9. LockOnlyInBlock'
  BY <1>4, <1>5 DEF IInv, TypeOK, LockOnlyInBlock
<1>10. WorkIsPrefix'
  <2>1. Apply(disk, b, n + 1) = Apply(disk, b, n)
    BY <1>1, ApplyOther
  <2>2. QED
    BY <1>1, <1>5, <2>1, SMTT(30) DEF IInv, TypeOK, WorkIsPrefix, Running, b, n
<1>11. QED
  BY <1>6, <1>7, <1>8, <1>9, <1>10 DEF IInv

LEMMA WriteKeeps ==
  ASSUME IInv, NEW c \in Conns, Write(c)
  PROVE  IInv'
<1> DEFINE b == block[c]
           n == pc[c]
           w == b.code[n + 1]
           old == IF lock = c THEN work ELSE disk
<1>1. /\ b \in Blocks
      /\ n \in Nat
      /\ n < Len(b.code)
      /\ w.op = "write"
      /\ b.nest[n] = Len(frames[c])
  BY DEF IInv, TypeOK, FramesMatchBlock, MatchesBlock, Write, At, Running
<1>2. /\ b.nest[n + 1] = Len(frames[c])
      /\ b.nest[n] > 0
      /\ n + 1 < Len(b.code)
      /\ w.cell \in Cells
      /\ w.val \in Values
  <2> HIDE DEF b, n
  <2>1. /\ b.nest[n + 1] = b.nest[n]
        /\ b.nest[n] > 0
        /\ Len(b.code) \in Nat
        /\ w.cell \in Cells
        /\ w.val \in Values
        /\ b.nest[n + 1] = 0 <=> n + 1 = Len(b.code)
    BY <1>1, NextInstr
  <2>2. QED
    BY <1>1, <2>1
<1>3. frames[c] # <<>> /\ frames[c][1] = 0
  <2>1. frames[c] # <<>>
    BY <1>1, <1>2
  <2>2. QED
    BY <2>1, FirstFrame DEF IInv
<1>4. old = Apply(disk, b, n)
  <2>1. CASE lock = c
    BY <2>1 DEF IInv, WorkIsPrefix, Write, At
  <2>2. CASE lock # c
    <3>1. \A i \in 1 .. n : b.code[i].op # "write"
      BY <2>2 DEF IInv, WorkIsPrefix, Write, At
    <3>2. QED
      BY <2>2, <3>1, <1>1, NoWrites DEF IInv, TypeOK
  <2>3. QED
    BY <2>1, <2>2
<1>5. /\ lock \in {NoConn, c}
      /\ lock' = c
      /\ work' = [old EXCEPT ![w.cell] = w.val]
      /\ pc' = [pc EXCEPT ![c] = n + 1]
      /\ UNCHANGED <<disk, open, txDepth, frames, block, raising, result>>
  BY DEF Write, SqlWrite, Begin
<1>6. work' = Apply(disk, b, n + 1) /\ old \in [Cells -> Values]
  <2>1. old \in [Cells -> Values]
    BY DEF IInv, TypeOK
  <2>2. QED
    BY <1>1, <1>4, <1>5, <2>1, ApplyWrite
<1> HIDE DEF b, n, w, old
<1>7. TypeOK'
  BY <1>1, <1>2, <1>5, <1>6 DEF IInv, TypeOK
<1>8. FramesHoldDepth'
  BY <1>5 DEF IInv, FramesHoldDepth
<1>9. FramesMatchBlock'
  <2>1. /\ block'[c] = b /\ pc'[c] = n + 1 /\ frames'[c] = frames[c]
        /\ b # NoBlock
    BY <1>1, <1>5, ConstantsAssumption DEF IInv, TypeOK, b
  <2>2. MatchesBlock(c)'
    BY <2>1, <1>2 DEF MatchesBlock, Running
  <2>3. ASSUME NEW d \in Conns, d # c
        PROVE  MatchesBlock(d)'
    BY <2>3, <1>5, StillMatches DEF IInv, TypeOK
  <2>4. QED
    BY <2>2, <2>3 DEF FramesMatchBlock
<1>10. LockOnlyInBlock'
  BY <1>3, <1>5 DEF LockOnlyInBlock
<1>11. WorkIsPrefix'
  <2>1. ASSUME NEW d \in Conns, d # c, Running(d)
        PROVE  \A i \in 1 .. pc[d] : block[d].code[i].op # "write"
    BY <2>1, <1>5, ConstantsAssumption DEF IInv, WorkIsPrefix
  <2>2. QED
    BY <2>1, <1>5, <1>6 DEF IInv, TypeOK, WorkIsPrefix, Running, b, n
<1>12. QED
  BY <1>7, <1>8, <1>9, <1>10, <1>11 DEF IInv

(* Where an Exit happens: the context manager that closes is the outermost  *)
(* exactly when its exit is the last instruction of the block.              *)
LEMMA ExitPlace ==
  ASSUME IInv, NEW c \in Conns, At(c, "exit")
  PROVE  /\ block[c] \in Blocks
         /\ block[c] # NoBlock
         /\ pc[c] \in Nat
         /\ pc[c] < Len(block[c].code)
         /\ Len(block[c].code) \in Nat
         /\ frames[c] # <<>>
         /\ block[c].nest[pc[c] + 1] = Len(frames[c]) - 1
         /\ Outermost(c) <=> pc[c] + 1 = Len(block[c].code)
<1> DEFINE b == block[c]
           n == pc[c]
<1>1. /\ b \in Blocks
      /\ b # NoBlock
      /\ n \in Nat
      /\ n < Len(b.code)
      /\ b.code[n + 1].op = "exit"
      /\ b.nest[n] = Len(frames[c])
  BY ConstantsAssumption DEF IInv, TypeOK, FramesMatchBlock, MatchesBlock, At, Running
<1>2. frames[c] \in Seq(Nat) /\ \A i \in 1 .. Len(frames[c]) : frames[c][i] = i - 1
  BY DEF IInv, TypeOK, FramesHoldDepth
<1> HIDE DEF b, n
<1>3. /\ Len(b.code) \in Nat
      /\ b.nest[n] \in Nat
      /\ b.nest[n + 1] \in Nat
      /\ b.nest[n + 1] = 0 <=> n + 1 = Len(b.code)
      /\ b.nest[n + 1] = b.nest[n] - 1
  BY <1>1, NextInstr
<1>4. Len(frames[c]) \in Nat \ {0}
  BY <1>1, <1>3
<1>5. frames[c] # <<>>
  BY <1>4
<1>6. frames[c][Len(frames[c])] = Len(frames[c]) - 1
  BY <1>2, <1>4
<1>7. Outermost(c) <=> Len(frames[c]) = 1
  BY <1>4, <1>6 DEF Outermost
<1>8. QED
  BY <1>1, <1>3, <1>4, <1>5, <1>7 DEF b, n

LEMMA ExitKeeps ==
  ASSUME IInv, NEW c \in Conns, Exit(c)
  PROVE  IInv'
<1> DEFINE b == block[c]
           n == pc[c]
<1>1. /\ b \in Blocks
      /\ b # NoBlock
      /\ n \in Nat
      /\ n < Len(b.code)
      /\ Len(b.code) \in Nat
      /\ frames[c] # <<>>
      /\ b.nest[n + 1] = Len(frames[c]) - 1
      /\ Outermost(c) <=> n + 1 = Len(b.code)
      /\ b.code[n + 1].op = "exit"
      /\ ~raising[c]
  BY ExitPlace DEF Exit, At, Running
<1>2. /\ frames' \in [Conns -> Seq(Nat)]
      /\ txDepth' \in [Conns -> Nat]
      /\ FramesHoldDepth'
      /\ Len(frames[c]) \in Nat \ {0}
      /\ Len(frames'[c]) = Len(frames[c]) - 1
      /\ Outermost(c) <=> Len(frames[c]) = 1
      /\ Len(frames[c]) = 1 => frames'[c] = <<>>
      /\ \A d \in Conns : d # c => frames'[d] = frames[d]
  BY <1>1, Leaving DEF IInv, Exit
<1> HIDE DEF b, n
<1>3. CASE n + 1 = Len(b.code)
  <2>1. /\ SqlCommit(c)
        /\ block' = [block EXCEPT ![c] = NoBlock]
        /\ pc' = [pc EXCEPT ![c] = 0]
        /\ result' = [result EXCEPT ![c] = "ok"]
        /\ UNCHANGED <<open, raising>>
    BY <1>1, <1>3 DEF Exit, b, n
  <2>2. /\ lock' = IF lock = c THEN NoConn ELSE lock
        /\ work' = work
        /\ disk' = IF lock = c THEN work ELSE disk
    BY <2>1 DEF SqlCommit, sqlite
  <2>3. frames'[c] = <<>>
    BY <1>1, <1>2, <1>3
  <2>4. TypeOK'
    BY <1>2, <2>1, <2>2 DEF IInv, TypeOK
  <2>5. FramesMatchBlock'
    <3>1. MatchesBlock(c)'
      BY <1>1, <2>1, <2>3 DEF IInv, TypeOK, MatchesBlock, Running
    <3>2. ASSUME NEW d \in Conns, d # c
          PROVE  MatchesBlock(d)'
      BY <3>2, <1>2, <2>1, StillMatches DEF IInv, TypeOK
    <3>3. QED
      BY <3>1, <3>2 DEF FramesMatchBlock
  <2>6. LockOnlyInBlock'
    BY <1>2, <2>2, ConstantsAssumption DEF IInv, LockOnlyInBlock
  <2>7. WorkIsPrefix'
    <3>1. ~Running(c)'
      BY <2>1 DEF IInv, TypeOK, Running
    <3>2. ASSUME NEW d \in Conns, d # c, Running(d)'
          PROVE  /\ Running(d) /\ block'[d] = block[d] /\ pc'[d] = pc[d]
                 /\ lock' = d <=> lock = d
                 /\ lock = d => disk' = disk
      BY <3>2, <2>1, <2>2, ConstantsAssumption DEF IInv, TypeOK, Running
    <3>3. QED
      BY <3>1, <3>2, <2>2 DEF IInv, WorkIsPrefix
  <2>8. QED
    BY <1>2, <2>4, <2>5, <2>6, <2>7 DEF IInv
<1>4. CASE n + 1 # Len(b.code)
  <2>1. /\ pc' = [pc EXCEPT ![c] = n + 1]
        /\ UNCHANGED <<disk, work, lock, block, result, open, raising>>
    BY <1>1, <1>4 DEF Exit, sqlite, b, n
  <2>2. Len(frames'[c]) # 0
    BY <1>1, <1>2, <1>4
  <2>3. TypeOK'
    BY <1>1, <1>2, <2>1, SMTT(30) DEF IInv, TypeOK
  <2>4. FramesMatchBlock'
    <3>1. block'[c] = b /\ pc'[c] = n + 1
      BY <2>1 DEF IInv, TypeOK, b
    <3>2. MatchesBlock(c)'
      BY <1>1, <1>2, <1>4, <3>1 DEF MatchesBlock, Running
    <3>3. ASSUME NEW d \in Conns, d # c
          PROVE  MatchesBlock(d)'
      BY <3>3, <1>2, <2>1, StillMatches DEF IInv, TypeOK
    <3>4. QED
      BY <3>2, <3>3 DEF FramesMatchBlock
  <2>5. LockOnlyInBlock'
    <3>1. frames'[c] # <<>>
      BY <2>2
    <3>2. frames'[c][1] = 0
      BY <2>3, <3>1, <1>2, FirstFramePrime
    <3>3. QED
      BY <1>2, <2>1, <3>1, <3>2 DEF IInv, LockOnlyInBlock
  <2>6. WorkIsPrefix'
    <3>1. Apply(disk, b, n + 1) = Apply(disk, b, n)
      BY <1>1, ApplyOther
    <3>2. QED
      BY <1>1, <2>1, <3>1, SMTT(30) DEF IInv, TypeOK, WorkIsPrefix, Running, b, n
  <2>7. QED
    BY <1>2, <2>3, <2>4, <2>5, <2>6 DEF IInv
<1>5. QED
  BY <1>3, <1>4

(* An exception begins to propagate: nothing else changes.                  *)
LEMMA RaisingKeeps ==
  ASSUME IInv, NEW c \in Conns, Running(c),
         raising' = [raising EXCEPT ![c] = TRUE],
         UNCHANGED <<disk, work, lock, open, txDepth, frames, block, pc, result>>
  PROVE  IInv'
<1>1. TypeOK'
  BY DEF IInv, TypeOK
<1>2. FramesHoldDepth' /\ LockOnlyInBlock'
  BY DEF IInv, FramesHoldDepth, LockOnlyInBlock
<1>3. FramesMatchBlock'
  BY DEF IInv, TypeOK, FramesMatchBlock, MatchesBlock, Running
<1>4. WorkIsPrefix'
  BY DEF IInv, TypeOK, WorkIsPrefix, Running
<1>5. QED
  BY <1>1, <1>2, <1>3, <1>4 DEF IInv

(* A context manager is left by an exception, and the outermost rolls back. *)
LEMMA UnwindingKeeps ==
  ASSUME IInv, NEW c \in Conns, frames[c] # <<>>, block[c] # NoBlock,
         IF Outermost(c) THEN SqlRollback(c) ELSE UNCHANGED sqlite,
         LeaveFrame(c),
         raising' = [raising EXCEPT ![c] = TRUE],
         UNCHANGED <<open, block, pc, result>>
  PROVE  IInv'
<1>1. /\ frames' \in [Conns -> Seq(Nat)]
      /\ txDepth' \in [Conns -> Nat]
      /\ FramesHoldDepth'
      /\ Len(frames[c]) \in Nat \ {0}
      /\ Len(frames'[c]) = Len(frames[c]) - 1
      /\ Outermost(c) <=> Len(frames[c]) = 1
      /\ Len(frames[c]) = 1 => frames'[c] = <<>>
      /\ \A d \in Conns : d # c => frames'[d] = frames[d]
  BY Leaving DEF IInv
<1>2. /\ lock' = IF Outermost(c) /\ lock = c THEN NoConn ELSE lock
      /\ disk' = disk
      /\ work' = work
  BY DEF SqlRollback, sqlite
<1>3. TypeOK'
  BY <1>1, <1>2 DEF IInv, TypeOK
<1>4. FramesMatchBlock'
  <2>1. MatchesBlock(c)'
    BY DEF IInv, TypeOK, MatchesBlock, Running
  <2>2. ASSUME NEW d \in Conns, d # c
        PROVE  MatchesBlock(d)'
    BY <2>2, <1>1, StillMatches DEF IInv, TypeOK
  <2>3. QED
    BY <2>1, <2>2 DEF FramesMatchBlock
<1>5. LockOnlyInBlock'
  <2>1. ASSUME lock' = c
        PROVE  frames'[c] # <<>> /\ frames'[c][1] = 0
    <3>1. ~Outermost(c)
      BY <1>2, <2>1, ConstantsAssumption
    <3>2. Len(frames'[c]) # 0
      BY <1>1, <3>1
    <3>3. frames'[c] # <<>>
      BY <3>2
    <3>4. QED
      BY <1>1, <1>3, <3>3, FirstFramePrime
  <2>2. ASSUME NEW d \in Conns, d # c, lock' = d
        PROVE  frames'[d] # <<>> /\ frames'[d][1] = 0
    BY <2>2, <1>1, <1>2, ConstantsAssumption DEF IInv, LockOnlyInBlock
  <2>3. QED
    BY <2>1, <2>2 DEF LockOnlyInBlock
<1>6. WorkIsPrefix'
  <2>1. ~Running(c)'
    BY DEF IInv, TypeOK, Running
  <2>2. ASSUME NEW d \in Conns, d # c, Running(d)'
        PROVE  Running(d) /\ (lock' = d <=> lock = d)
    BY <2>2, <1>2, ConstantsAssumption DEF IInv, TypeOK, Running
  <2>3. QED
    BY <2>1, <2>2, <1>2 DEF IInv, WorkIsPrefix
<1>7. QED
  BY <1>1, <1>3, <1>4, <1>5, <1>6 DEF IInv

LEMMA CaughtKeeps ==
  ASSUME IInv, NEW c \in Conns, Caught(c)
  PROVE  IInv'
<1>1. TypeOK'
  BY DEF IInv, TypeOK, Caught, sqlite
<1>2. FramesHoldDepth' /\ LockOnlyInBlock'
  BY DEF IInv, FramesHoldDepth, LockOnlyInBlock, Caught, sqlite
<1>3. FramesMatchBlock'
  BY DEF IInv, TypeOK, FramesMatchBlock, MatchesBlock, Running, Caught
<1>4. WorkIsPrefix'
  BY DEF IInv, TypeOK, WorkIsPrefix, Running, Caught, sqlite
<1>5. QED
  BY <1>1, <1>2, <1>3, <1>4 DEF IInv

(* Opening a connection, and closing one that is in no block.               *)
LEMMA ConnectionKeeps ==
  ASSUME IInv, NEW c \in Conns, Open(c) \/ Close(c)
  PROVE  IInv'
<1>1. /\ UNCHANGED <<disk, work, lock, txDepth, frames, block, pc, raising, result>>
      /\ open' \subseteq Conns
  <2>1. CASE Open(c)
    BY <2>1 DEF IInv, TypeOK, Open, sqlite
  <2>2. CASE Close(c)
    <3>1. lock # c
      BY <2>2 DEF IInv, LockOnlyInBlock, FramesMatchBlock, MatchesBlock, Close
    <3>2. QED
      BY <2>2, <3>1 DEF IInv, TypeOK, Close, SqlRollback, sqlite
  <2>3. QED
    BY <2>1, <2>2
<1>2. QED
  BY <1>1 DEF IInv, TypeOK, FramesHoldDepth, FramesMatchBlock, MatchesBlock,
              LockOnlyInBlock, WorkIsPrefix, Running

LEMMA StartKeeps ==
  ASSUME IInv, NEW c \in Conns, NEW b \in Blocks, Start(c, b)
  PROVE  IInv'
<1>1. /\ block' = [block EXCEPT ![c] = b]
      /\ pc' = [pc EXCEPT ![c] = 0]
      /\ result' = [result EXCEPT ![c] = "none"]
      /\ UNCHANGED <<disk, work, lock, open, txDepth, frames, raising>>
  BY DEF Start, sqlite
<1>2. frames[c] = <<>> /\ lock # c
  BY DEF IInv, FramesMatchBlock, MatchesBlock, LockOnlyInBlock, Start
<1>3. TypeOK'
  BY <1>1 DEF IInv, TypeOK
<1>4. FramesHoldDepth' /\ LockOnlyInBlock'
  BY <1>1 DEF IInv, FramesHoldDepth, LockOnlyInBlock
<1>5. FramesMatchBlock'
  <2>1. block'[c] = b /\ pc'[c] = 0 /\ frames'[c] = <<>> /\ b # NoBlock
    BY <1>1, <1>2, ConstantsAssumption DEF IInv, TypeOK
  <2>2. MatchesBlock(c)'
    BY <2>1, NestStart DEF MatchesBlock, Running
  <2>3. ASSUME NEW d \in Conns, d # c
        PROVE  MatchesBlock(d)'
    BY <2>3, <1>1, StillMatches DEF IInv, TypeOK
  <2>4. QED
    BY <2>2, <2>3 DEF FramesMatchBlock
<1>6. WorkIsPrefix'
  <2>1. lock' # c /\ pc'[c] = 0
    BY <1>1, <1>2 DEF IInv, TypeOK
  <2>2. ASSUME NEW d \in Conns, d # c, Running(d)'
        PROVE  Running(d) /\ block'[d] = block[d] /\ pc'[d] = pc[d]
    BY <2>2, <1>1 DEF IInv, TypeOK, Running
  <2>3. QED
    BY <2>1, <2>2, <1>1 DEF IInv, WorkIsPrefix
<1>7. QED
  BY <1>3, <1>4, <1>5, <1>6 DEF IInv

LEMMA CrashKeeps ==
  ASSUME IInv, Crash
  PROVE  IInv'
<1>1. TypeOK'
  BY ConstantsAssumption DEF IInv, TypeOK, Crash
<1>2. FramesHoldDepth' /\ FramesMatchBlock'
  BY DEF FramesHoldDepth, FramesMatchBlock, MatchesBlock, Running, Crash
<1>3. LockOnlyInBlock' /\ WorkIsPrefix'
  BY ConstantsAssumption DEF LockOnlyInBlock, WorkIsPrefix, Running, Crash
<1>4. QED
  BY <1>1, <1>2, <1>3 DEF IInv

-------------------------------------------------------------------------------
(* The inductive invariant, and what follows from it.                       *)

LEMMA InitKeeps == Init => IInv
<1> SUFFICES ASSUME Init PROVE IInv
  OBVIOUS
<1>1. TypeOK
  BY ConstantsAssumption DEF Init, TypeOK
<1>2. FramesHoldDepth /\ FramesMatchBlock
  BY DEF Init, FramesHoldDepth, FramesMatchBlock, MatchesBlock, Running
<1>3. LockOnlyInBlock /\ WorkIsPrefix
  BY ConstantsAssumption DEF Init, LockOnlyInBlock, WorkIsPrefix, Running
<1>4. QED
  BY <1>1, <1>2, <1>3 DEF IInv

LEMMA StepKeeps == IInv /\ [Next]_vars => IInv'
<1> SUFFICES ASSUME IInv, [Next]_vars PROVE IInv'
  OBVIOUS
<1>1. ASSUME NEW c \in Conns, Open(c) \/ Close(c)
      PROVE  IInv'
  BY <1>1, ConnectionKeeps
<1>2. ASSUME NEW c \in Conns, NEW b \in Blocks, Start(c, b)
      PROVE  IInv'
  BY <1>2, StartKeeps
<1>3. ASSUME NEW c \in Conns, Enter(c)
      PROVE  IInv'
  BY <1>3, EnterKeeps
<1>4. ASSUME NEW c \in Conns, Write(c)
      PROVE  IInv'
  BY <1>4, WriteKeeps
<1>5. ASSUME NEW c \in Conns, BusyTimeout(c) \/ Raise(c)
      PROVE  IInv'
  BY <1>5, RaisingKeeps DEF BusyTimeout, Raise, At, sqlite
<1>6. ASSUME NEW c \in Conns, Exit(c)
      PROVE  IInv'
  BY <1>6, ExitKeeps
<1>7. ASSUME NEW c \in Conns, CommitFails(c)
      PROVE  IInv'
  <2>1. frames[c] # <<>> /\ block[c] # NoBlock
    BY <1>7, ExitPlace DEF CommitFails
  <2>2. QED
    BY <1>7, <2>1, UnwindingKeeps DEF CommitFails
<1>8. ASSUME NEW c \in Conns, Unwind(c)
      PROVE  IInv'
  <2>1. block[c] # NoBlock /\ raising' = [raising EXCEPT ![c] = TRUE]
    BY <1>8 DEF IInv, TypeOK, FramesMatchBlock, MatchesBlock, Unwind
  <2>2. QED
    BY <1>8, <2>1, UnwindingKeeps DEF Unwind
<1>9. ASSUME NEW c \in Conns, Caught(c)
      PROVE  IInv'
  BY <1>9, CaughtKeeps
<1>10. CASE Crash
  BY <1>10, CrashKeeps
<1>11. CASE UNCHANGED vars
  BY <1>11 DEF IInv, TypeOK, FramesHoldDepth, FramesMatchBlock, MatchesBlock,
               LockOnlyInBlock, WorkIsPrefix, Running, vars
<1>12. QED
  BY <1>1, <1>2, <1>3, <1>4, <1>5, <1>6, <1>7, <1>8, <1>9, <1>10, <1>11
     DEF Next, Run

(* The inductive invariant holds in every reachable state: types, frames,   *)
(* lock and uncommitted pages of db.transaction are what they should be.    *)
THEOREM Inductive == Spec => []IInv
BY InitKeeps, StepKeeps, PTL DEF Spec

(* Every variable of db.transaction keeps its type.                         *)
THEOREM TypeCorrect == Spec => []TypeOK
<1>1. IInv => TypeOK
  BY DEF IInv
<1>2. QED
  BY <1>1, Inductive, PTL

(* The write lock is held only inside an outermost transaction() block.     *)
THEOREM LockDiscipline == Spec => []LockOnlyInBlock
<1>1. IInv => LockOnlyInBlock
  BY DEF IInv
<1>2. QED
  BY <1>1, Inductive, PTL

(* What is uncommitted is the prefix of one block, executed on the          *)
(* committed file.                                                          *)
THEOREM UncommittedWork == Spec => []WorkIsPrefix
<1>1. IInv => WorkIsPrefix
  BY DEF IInv
<1>2. QED
  BY <1>1, Inductive, PTL

(* _TX_DEPTH never holds a leftover that the next connection at the same    *)
(* address would take for an open transaction.                              *)
THEOREM DepthReturnsToZero == Spec => []NoStaleDepth
<1>1. IInv => NoStaleDepth
  BY DEF IInv, FramesHoldDepth, NoStaleDepth
<1>2. QED
  BY <1>1, Inductive, PTL

-------------------------------------------------------------------------------
(* The refinement: which step of AtomicBlocks each step implements.         *)

(* The abstract specification computes what a block makes of a database in  *)
(* the same way.                                                            *)
LEMMA SameApply ==
  ASSUME NEW base, NEW b, NEW n
  PROVE  Abstract!Apply(base, b, n) = Apply(base, b, n)
<1>1. ASSUME NEW k
      PROVE  Abstract!LastWrites(b, n, k) = LastWrites(b, n, k)
  BY DEF Abstract!LastWrites, LastWrites, Abstract!WritesCell, WritesCell
<1>2. ASSUME NEW k
      PROVE  Abstract!Content(base, b, n, k) = Content(base, b, n, k)
  <2>1. Abstract!ElementOf(LastWrites(b, n, k)) = ElementOf(LastWrites(b, n, k))
    BY DEF Abstract!ElementOf, ElementOf
  <2>2. QED
    BY <1>1, <2>1 DEF Abstract!Content, Content
<1>3. QED
  BY <1>2 DEF Abstract!Apply, Apply

(* The outermost context manager closes: the block takes effect, whole.     *)
LEMMA ExitCommits ==
  ASSUME IInv, NEW c \in Conns, Exit(c), Outermost(c)
  PROVE  Abstract!ACommit(c)
<1> DEFINE b == block[c]
           n == pc[c]
<1>1. /\ b \in Blocks
      /\ b # NoBlock
      /\ n \in Nat
      /\ n + 1 = Len(b.code)
      /\ b.code[n + 1].op = "exit"
  BY ExitPlace DEF Exit, At
<1>2. disk' = Apply(disk, b, n)
  <2>1. SqlCommit(c) /\ Running(c)
    BY DEF Exit, At
  <2>2. CASE lock = c
    BY <2>1, <2>2 DEF IInv, WorkIsPrefix, SqlCommit
  <2>3. CASE lock # c
    <3>1. disk' = disk /\ \A i \in 1 .. n : b.code[i].op # "write"
      BY <2>1, <2>3 DEF IInv, WorkIsPrefix, SqlCommit, sqlite
    <3>2. QED
      BY <1>1, <3>1, NoWrites DEF IInv, TypeOK
  <2>4. QED
    BY <2>2, <2>3
<1>3. Apply(disk, b, n) = Apply(disk, b, n + 1)
  BY <1>1, ApplyOther
<1>4. /\ block' = [block EXCEPT ![c] = NoBlock]
      /\ result' = [result EXCEPT ![c] = "ok"]
  BY <1>1 DEF Exit
<1>5. disk' = Abstract!Apply(disk, b, Len(b.code))
  BY <1>1, <1>2, <1>3, SameApply
<1>6. QED
  BY <1>1, <1>4, <1>5 DEF Abstract!ACommit

(* The file, the blocks under way and their results stay: a stutter.        *)
LEMMA Stutters ==
  ASSUME UNCHANGED <<disk, block, result>>
  PROVE  [Abstract!ANext]_(Abstract!avars)
BY DEF Abstract!avars

LEMMA StepImplements == IInv /\ [Next]_vars => [Abstract!ANext]_(Abstract!avars)
<1> SUFFICES ASSUME IInv, [Next]_vars PROVE [Abstract!ANext]_(Abstract!avars)
  OBVIOUS
<1>1. ASSUME NEW c \in Conns, Open(c) \/ Close(c)
      PROVE  UNCHANGED <<disk, block, result>>
  BY <1>1 DEF Open, Close, SqlRollback, sqlite
<1>2. ASSUME NEW c \in Conns, NEW b \in Blocks, Start(c, b)
      PROVE  Abstract!ABegin(c, b)
  BY <1>2 DEF Start, Abstract!ABegin, sqlite
<1>3. ASSUME NEW c \in Conns, Enter(c) \/ Write(c) \/ BusyTimeout(c) \/ Raise(c)
      PROVE  UNCHANGED <<disk, block, result>>
  BY <1>3 DEF Enter, Write, SqlWrite, BusyTimeout, Raise, sqlite
<1>4. ASSUME NEW c \in Conns, Exit(c), ~Outermost(c)
      PROVE  UNCHANGED <<disk, block, result>>
  BY <1>4, ExitPlace DEF Exit, sqlite
<1>5. ASSUME NEW c \in Conns, CommitFails(c) \/ Unwind(c)
      PROVE  UNCHANGED <<disk, block, result>>
  BY <1>5 DEF CommitFails, Unwind, SqlRollback, sqlite
<1>6. ASSUME NEW c \in Conns, Caught(c)
      PROVE  Abstract!AFail(c)
  BY <1>6 DEF IInv, FramesMatchBlock, MatchesBlock, Caught, Abstract!AFail, sqlite
<1>7. ASSUME Crash
      PROVE  Abstract!ACrash
  BY <1>7 DEF Crash, Abstract!ACrash
<1>8. ASSUME UNCHANGED vars
      PROVE  UNCHANGED <<disk, block, result>>
  BY <1>8 DEF vars
<1>9. QED
  BY <1>1, <1>2, <1>3, <1>4, <1>5, <1>6, <1>7, <1>8, ExitCommits, Stutters
     DEF Next, Run, Abstract!ANext

(* db.transaction implements atomic blocks: the committed database changes  *)
(* only by one whole block at a time, on the database as it then is, and a  *)
(* block that raised, timed out, failed to commit or met a crash leaves     *)
(* nothing behind.                                                          *)
THEOREM Refinement == Spec => AtomicCommit
<1>1. Init => Abstract!AInit
  BY DEF Init, Abstract!AInit
<1>2. QED
  BY <1>1, StepImplements, Inductive, PTL DEF Spec, AtomicCommit, Abstract!ASpec

===============================================================================
