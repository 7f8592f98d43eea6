------------------------------ MODULE SfsRetry ------------------------------
(***************************************************************************)
(* sfs_rwblock, which tries a block again when the disk reports an error,  *)
(* on top of lhd_io, for one block and one uio.  uiomove advances the uio  *)
(* before a sector is written and after it was read.                       *)
(***************************************************************************)
EXTENDS Naturals

CONSTANT MaxTries    \* tries of sfs_rwblock before it gives up: 10 in the code

VARIABLES rw,
          resid,      \* uio_resid, in blocks
          tries,
          returned,   \* what lhd_io returned, or "none" while it is to be called
          written,    \* the block on the disk is the one given
          got,        \* the reader has the block
          outcome     \* what sfs_rwblock returned

retry_vars == <<rw, resid, tries, returned, written, got, outcome>>

RetryInit ==
  /\ rw \in {"read", "write"}
  /\ resid = 1
  /\ tries = 0
  /\ returned = "none" /\ outcome = "none"
  /\ written = FALSE /\ got = FALSE

\* lhd_io on what is left of the uio; see Lhd for its steps.
d_io ==
  /\ returned = "none" /\ outcome = "none"
  /\ \/ /\ resid = 0
        /\ returned' = "ok"
        /\ UNCHANGED <<resid, written, got>>
     \/ /\ resid = 1 /\ rw = "write"
        /\ resid' = 0
        /\ \/ returned' = "ok" /\ written' = TRUE
           \/ returned' = "EIO" /\ UNCHANGED written
        /\ UNCHANGED got
     \/ /\ resid = 1 /\ rw = "read"
        /\ \/ returned' = "ok" /\ got' = TRUE /\ resid' = 0
           \/ returned' = "EIO" /\ UNCHANGED <<got, resid>>
        /\ UNCHANGED written
     \/ /\ resid = 1      \* the copy fails
        /\ returned' = "EFAULT"
        /\ UNCHANGED <<resid, written, got>>
  /\ UNCHANGED <<rw, tries, outcome>>

sfs_rwblock ==
  /\ returned # "none"
  /\ returned' = "none"
  /\ IF returned = "EIO" /\ tries < MaxTries
       THEN tries' = tries + 1 /\ UNCHANGED outcome
       ELSE outcome' = returned /\ UNCHANGED tries
  /\ UNCHANGED <<rw, resid, written, got>>

RetryNext == d_io \/ sfs_rwblock
RetrySpec == RetryInit /\ [][RetryNext]_retry_vars
----------------------------------------------------------------------------
\* A block I/O that reports success has been done: sfs_rwblock reports "giving
\* up" when it has not.
SuccessIsDone ==
  outcome = "ok" => IF rw = "write" THEN written ELSE got
============================================================================
