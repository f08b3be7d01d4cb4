----------------------------- MODULE FifoQueue -----------------------------
(***************************************************************************)
(* What nsCommon::CConcurrentQueue promises its users: an unbounded FIFO   *)
(* whose operations take effect one at a time.  `taken' is the history of  *)
(* what has been removed, oldest first.                                    *)
(***************************************************************************)
EXTENDS Sequences

CONSTANT Item

VARIABLES queue, taken

vars == <<queue, taken>>

Init == /\ queue = << >>
        /\ taken = << >>

Put(x) == /\ queue' = Append(queue, x)
          /\ taken' = taken

Get == /\ queue # << >>
       /\ queue' = Tail(queue)
       /\ taken' = Append(taken, Head(queue))

Next == (\E x \in Item : Put(x)) \/ Get

Spec == Init /\ [][Next]_vars
=============================================================================
