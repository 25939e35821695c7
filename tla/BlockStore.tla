----------------------------- MODULE BlockStore -----------------------------
(***************************************************************************)
(* What the users of an allocator may rely on: a store of blocks, each a   *)
(* sequence of cells under a handle, where an operation on one block never *)
(* shows in another, and a resized block keeps its common prefix.          *)
(***************************************************************************)
EXTENDS Integers, Sequences

CONSTANTS Handle, Value

VARIABLE store    \* the blocks in use: handle -> sequence of values

StoreInit == store = << >>

(* Blocks outside S are the same before and after. *)
Others(S) == \A b \in DOMAIN store \ S : store'[b] = store[b]

CommonPrefix(s, t) ==
  \A i \in (1 .. Len(s)) \cap (1 .. Len(t)) : s[i] = t[i]

Acquire(a) ==
  /\ a \in Handle \ DOMAIN store
  /\ DOMAIN store' = DOMAIN store \cup {a}
  /\ Others({})

Release(a) ==
  /\ a \in DOMAIN store
  /\ DOMAIN store' = DOMAIN store \ {a}
  /\ Others({a})

Resize(a, b) ==
  /\ a \in DOMAIN store
  /\ b \in (Handle \ DOMAIN store) \cup {a}
  /\ DOMAIN store' = (DOMAIN store \ {a}) \cup {b}
  /\ Others({a})
  /\ CommonPrefix(store[a], store'[b])

Update(a, i, v) ==
  /\ a \in DOMAIN store
  /\ i \in 1 .. Len(store[a])
  /\ store' = [store EXCEPT ![a][i] = v]

StoreNext ==
  \/ \E a \in Handle : Acquire(a) \/ Release(a)
  \/ \E a, b \in Handle : Resize(a, b)
  \/ \E a \in DOMAIN store, v \in Value :
       \E i \in 1 .. Len(store[a]) : Update(a, i, v)

StoreSpec == StoreInit /\ [][StoreNext]_store
=============================================================================
