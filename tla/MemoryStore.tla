---------------------------- MODULE MemoryStore ----------------------------
(***************************************************************************)
(* The in-memory store that CacheModule.register({isGlobal: true}) puts    *)
(* behind CACHE_MANAGER (src/src/app.module.ts).  The store is a library,  *)
(* so this is its contract as the services use it:                         *)
(*                                                                         *)
(*   get   answers with a REFERENCE to the stored object, or undefined     *)
(*   set   stores a deep CLONE of the object it is given                   *)
(*   del   removes the entry                                               *)
(*   keys  lists the keys present when it is called                        *)
(*                                                                         *)
(* Every call takes effect when it is made and answers at the next await.  *)
(* Time-to-live and the bound on the number of entries are left open: an   *)
(* entry may lapse at any moment, which is all a caller can rely on.       *)
(*                                                                         *)
(* Objects live in a heap, a sequence whose positions are the references,  *)
(* because two callers that read the same key share one object and see     *)
(* each other's in-place changes.  An index maps the keys that are present *)
(* to the references of their objects.                                     *)
(***************************************************************************)
EXTENDS Naturals, Sequences

\* The answer of get for a key that is not present.
Undefined == 0

NoEntries == [key \in {} |-> Undefined]

Present(index, key) == key \in DOMAIN index

Get(index, key) == IF Present(index, key) THEN index[key] ELSE Undefined

Put(index, key, ref) ==
    [k \in DOMAIN index \cup {key} |-> IF k = key THEN ref ELSE index[k]]

Delete(index, key) == [k \in DOMAIN index \ {key} |-> index[k]]

\* An index over a set of keys into a heap of n objects.
IsIndex(index, keys, n) ==
    DOMAIN index \subseteq keys /\ index \in [DOMAIN index -> 1..n]
=============================================================================
