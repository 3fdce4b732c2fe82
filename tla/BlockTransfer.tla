--------------------------- MODULE BlockTransfer ---------------------------
(***************************************************************************)
(* What a blocking multi-block read or write of the Xihu block service     *)
(* promises its caller, with the pipelining left out: between the call and *)
(* the return every block of the request is moved exactly once, in any     *)
(* order, and the call returns only when all of them have been moved.      *)
(***************************************************************************)
EXTENDS Integers

CONSTANTS NumBlocks,  \* blocks of the store are 0 .. NumBlocks-1
          Values,     \* what a block may hold
          NoData      \* a block of caller memory nothing was copied to

VARIABLES op,     \* the request under way, or NoOp
          mem,    \* the caller's buffer, one entry per block
          disk,   \* the block store
          moved   \* indices of the request already moved

btVars == <<op, mem, disk, moved>>

Blocks == 0 .. NumBlocks - 1
Memory == [Blocks -> Values \cup {NoData}]
Requests == [type : {"Read", "Write"}, bid : Blocks, tot : 0 .. NumBlocks]
NoOp == [type |-> "none", bid |-> 0, tot |-> 0]

BTInit == /\ op = NoOp
          /\ mem \in Memory
          /\ disk \in [Blocks -> Values]
          /\ moved = {}

Start(r, m) == /\ op = NoOp
               /\ r.bid + r.tot <= NumBlocks
               /\ op' = r
               /\ mem' = m
               /\ moved' = {}
               /\ UNCHANGED disk

MoveIn(j) == /\ op # NoOp
             /\ op.type = "Read"
             /\ j \in 0 .. op.tot - 1
             /\ j \notin moved
             /\ mem' = [mem EXCEPT ![j] = disk[op.bid + j]]
             /\ moved' = moved \cup {j}
             /\ UNCHANGED <<op, disk>>

MoveOut(j) == /\ op # NoOp
              /\ op.type = "Write"
              /\ j \in 0 .. op.tot - 1
              /\ j \notin moved
              /\ disk' = [disk EXCEPT ![op.bid + j] = mem[j]]
              /\ moved' = moved \cup {j}
              /\ UNCHANGED <<op, mem>>

Finish == /\ op # NoOp
          /\ moved = 0 .. op.tot - 1
          /\ op' = NoOp
          /\ moved' = {}
          /\ UNCHANGED <<mem, disk>>

BTNext == \/ \E r \in Requests, m \in Memory : Start(r, m)
          \/ \E j \in Blocks : MoveIn(j) \/ MoveOut(j)
          \/ Finish

BTSpec == BTInit /\ [][BTNext]_btVars
=============================================================================
