----------------------------- MODULE SfsVnodes -----------------------------
(***************************************************************************)
(* sfs_loadvnode and sfs_reclaim of one inode by several threads, step by  *)
(* step.  Only the counts are locked: the table of vnodes is not, and both *)
(* functions sleep in I/O.  A structure is not used again once freed.      *)
(***************************************************************************)
EXTENDS Naturals

CONSTANTS Thread,
          MaxVnodes     \* bound on the vnode structures made for the inode

None == 0
Vnode == 1..MaxVnodes

VARIABLES table,      \* the vnodes of the inode in sfs_vnodes
          refcount,   \* 0 for a structure that was not made yet, or is freed
          made,       \* structures made so far
          at, mine    \* where each thread is, and the vnode it is dealing with

sv_vars == <<table, refcount, made, at, mine>>

SfsVnodesInit ==
  /\ table = {} /\ made = 0
  /\ refcount = [v \in Vnode |-> 0]
  /\ at = [t \in Thread |-> "idle"]
  /\ mine = [t \in Thread |-> None]

Goes(t, place) == at' = [at EXCEPT ![t] = place]

\* The search of sfs_loadvnode: the first entry with this inode number.
Search(t) ==
  /\ at[t] = "idle"
  /\ \/ /\ table = {}
        /\ Goes(t, "reading") /\ UNCHANGED mine
     \/ \E v \in table :
          /\ \A w \in table : v <= w
          /\ mine' = [mine EXCEPT ![t] = v]
          /\ Goes(t, "found")
  /\ UNCHANGED <<table, refcount, made>>

VOP_INCREF(t) ==
  /\ at[t] = "found"
  /\ refcount' = [refcount EXCEPT ![mine[t]] = @ + 1]
  /\ Goes(t, "using")
  /\ UNCHANGED <<table, made, mine>>

\* sfs_rblock has returned: a new vnode, or an error.
Loaded(t) ==
  /\ at[t] = "reading"
  /\ \/ /\ made < MaxVnodes
        /\ made' = made + 1
        /\ refcount' = [refcount EXCEPT ![made'] = 1]
        /\ table' = table \cup {made'}
        /\ mine' = [mine EXCEPT ![t] = made']
        /\ Goes(t, "using")
     \/ Goes(t, "idle") /\ UNCHANGED <<table, refcount, made, mine>>

vnode_decref(t) ==
  /\ at[t] = "using"
  /\ \/ /\ refcount[mine[t]] > 1
        /\ refcount' = [refcount EXCEPT ![mine[t]] = @ - 1]
        /\ Goes(t, "idle")
     \/ /\ refcount[mine[t]] = 1
        /\ Goes(t, "reclaim") /\ UNCHANGED refcount
  /\ UNCHANGED <<table, made, mine>>

\* sfs_reclaim, to the release of vn_countlock.
CheckCount(t) ==
  /\ at[t] = "reclaim"
  /\ \/ /\ refcount[mine[t]] # 1
        /\ refcount' = [refcount EXCEPT ![mine[t]] = @ - 1]
        /\ Goes(t, "idle")
     \/ /\ refcount[mine[t]] = 1
        /\ Goes(t, "writing") /\ UNCHANGED refcount
  /\ UNCHANGED <<table, made, mine>>

\* The truncation or write of the inode has returned: the vnode leaves the
\* table, or the error leaves it there.
Written(t) ==
  /\ at[t] = "writing"
  /\ \/ table' = table \ {mine[t]} /\ Goes(t, "kill")
     \/ UNCHANGED table /\ Goes(t, "idle")
  /\ UNCHANGED <<refcount, made, mine>>

VOP_KILL(t) ==
  /\ at[t] = "kill"
  /\ refcount' = [refcount EXCEPT ![mine[t]] = 0]
  /\ Goes(t, "idle")
  /\ UNCHANGED <<table, made, mine>>

SfsVnodesNext ==
  \E t \in Thread :
    \/ Search(t) \/ VOP_INCREF(t) \/ Loaded(t) \/ vnode_decref(t)
    \/ CheckCount(t) \/ Written(t) \/ VOP_KILL(t)

SfsVnodesSpec == SfsVnodesInit /\ [][SfsVnodesNext]_sv_vars
----------------------------------------------------------------------------
\* The assertion of vnode_kill: the one reference left is that of the thread
\* that reclaims the vnode.
KilledUnreferenced == \A t \in Thread : at[t] = "kill" => refcount[mine[t]] = 1
============================================================================
