------------------------------- MODULE Files -------------------------------
(***************************************************************************)
(* What a file system promises: names for files, files that are sequences  *)
(* of blocks, and operations that change one file or one name and nothing  *)
(* else.  A failing operation changes nothing, with two exceptions that    *)
(* the code makes: a write past the end that fails leaves the hole before  *)
(* it, and a truncation that fails may have discarded blocks.              *)
(***************************************************************************)
EXTENDS Naturals, Sequences, FiniteSets, Functions

CONSTANTS Name, Datum, Zero, MaxBlocks

VARIABLES dir,       \* from the names in use to files
          contents   \* from the files that have a name or are open

fvars == <<dir, contents>>

Padded(s, n) == [i \in 1..(IF n > Len(s) THEN n ELSE Len(s)) |->
                   IF i <= Len(s) THEN s[i] ELSE Zero]

Without(f, x) == Restrict(f, DOMAIN f \ {x})
With(f, x, y) == [z \in DOMAIN f \cup {x} |-> IF z = x THEN y ELSE f[z]]
Named == Range(dir)

FilesInit == dir = <<>> /\ contents = <<>>

Create(n, f) ==
  /\ n \notin DOMAIN dir /\ f \notin DOMAIN contents
  /\ dir' = With(dir, n, f)
  /\ contents' = With(contents, f, <<>>)

MakeLink(n, f) ==
  /\ n \notin DOMAIN dir /\ f \in DOMAIN contents
  /\ dir' = With(dir, n, f)
  /\ UNCHANGED contents

\* The file goes with its last name, unless it is open.
Remove(n) ==
  /\ n \in DOMAIN dir
  /\ dir' = Without(dir, n)
  /\ \/ UNCHANGED contents
     \/ dir[n] \notin Range(dir') /\ contents' = Without(contents, dir[n])

Rename(n1, n2) ==
  /\ n1 \in DOMAIN dir /\ n2 \notin DOMAIN dir
  /\ dir' = With(Without(dir, n1), n2, dir[n1])
  /\ UNCHANGED contents

(* What changes files only. *)
WriteBlock(f, i, x) ==
  /\ \/ contents' = [contents EXCEPT ![f] = [Padded(@, i) EXCEPT ![i] = x]]
     \/ contents' = [contents EXCEPT ![f] = Padded(@, i - 1)]

Truncate(f, len) ==
  /\ \/ contents' = [contents EXCEPT ![f] = SubSeq(Padded(@, len), 1, len)]
     \/ \E lost \in SUBSET (len + 1 .. Len(contents[f])) :
          contents' = [contents EXCEPT ![f] = [i \in DOMAIN @ |-> IF i \in lost THEN Zero ELSE @[i]]]

\* The last close of a file without a name.
Forget(f) ==
  /\ f \notin Named
  /\ contents' = Without(contents, f)

FilesNext ==
  /\ fvars' # fvars
  /\ \/ \E n \in Name, f \in DOMAIN contents' : Create(n, f)
     \/ \E n \in Name : Remove(n)
     \/ \E n1, n2 \in Name : Rename(n1, n2)
     \/ \E n \in Name, f \in DOMAIN contents : MakeLink(n, f)
     \/ /\ UNCHANGED dir
        /\ \E f \in DOMAIN contents :
             \/ \E i \in 1..MaxBlocks, x \in Datum : WriteBlock(f, i, x)
             \/ \E len \in 0..MaxBlocks : Truncate(f, len)
             \/ Forget(f)

FilesSpec == FilesInit /\ [][FilesNext]_fvars
============================================================================
