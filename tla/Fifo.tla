-------------------------------- MODULE Fifo --------------------------------
(***************************************************************************)
(* What kern/include/queue.h promises of a queue: q_addtail adds at the    *)
(* end, q_remhead takes from the front, and nothing else is seen.          *)
(***************************************************************************)
EXTENDS Sequences

CONSTANTS Elem, Nothing

VARIABLES contents, got    \* got: what the last q_remhead returned

FifoInit == contents = <<>> /\ got = Nothing

Put(x) == contents' = Append(contents, x) /\ UNCHANGED got

Get ==
  /\ contents # <<>>
  /\ got' = Head(contents)
  /\ contents' = Tail(contents)

FifoNext == Get \/ \E x \in Elem : Put(x)

FifoSpec == FifoInit /\ [][FifoNext]_<<contents, got>>
============================================================================
