----------------------------- MODULE AtomicDisk -----------------------------
(***************************************************************************)
(* What a client of the disk driver relies on: a sector is written, and    *)
(* read, at one instant, and the transfer is that of the sector and the    *)
(* data of the client's own request.                                       *)
(***************************************************************************)
EXTENDS Naturals, Sequences

CONSTANTS Thread, Requests, OldDisk

VARIABLES req,      \* per thread, its request
          disk,
          moved     \* per thread, the data of the sectors it has had read

DInit ==
  /\ req \in [Thread -> Requests]
  /\ disk = OldDisk
  /\ moved = [t \in Thread |-> <<>>]

\* A writer's next sector: any of its request, as a failed one is not retried.
WriteSector(t) ==
  /\ req[t].rw = "write"
  /\ \E i \in 1..req[t].len :
       disk' = [disk EXCEPT ![req[t].sector + i - 1] = <<t, i>>]
  /\ UNCHANGED <<req, moved>>

ReadSector(t) ==
  /\ req[t].rw = "read"
  /\ Len(moved[t]) < req[t].len
  /\ moved' = [moved EXCEPT ![t] = Append(@, disk[req[t].sector + Len(@)])]
  /\ UNCHANGED <<req, disk>>

DNext == \E t \in Thread : WriteSector(t) \/ ReadSector(t)

DSpec == DInit /\ [][DNext]_<<req, disk, moved>>
============================================================================
