------------------------------ MODULE Refcount ------------------------------
(***************************************************************************)
(* The reference counts of sccp_refcount.c (the build without              *)
(* CS_ASTOBJ_REFCOUNT).  An object carries its count and a live marker and *)
(* is linked into a hash bucket; buckets are created when their first      *)
(* object comes and freed when their last one goes.                        *)
(*                                                                         *)
(* All objects of the model hash to the same bucket, where threads meet;   *)
(* buckets share nothing but objectslock.  A slot is a pointer variable or *)
(* structure field that owns one reference; the callers keep two threads   *)
(* from working on one slot at a time, and hold the reference they pass    *)
(* (rules 1 to 4 at the top of the file).  A critical section under        *)
(* objectslock or the list's lock is one step; what the code reads without *)
(* a lock is a step of its own.                                            *)
(***************************************************************************)
EXTENDS Integers, FiniteSets

CONSTANTS
  Objects,   \* what sccp_calloc may return
  Slots,     \* variables that own a reference
  Threads,
  NoObj,     \* NULL
  NoSlot

ASSUME RefcountAssumption ==
  /\ NoObj \notin Objects
  /\ IsFiniteSet(Slots) /\ IsFiniteSet(Threads)
  /\ Slots \cap Threads = {}
  /\ NoSlot \notin Slots \cup Threads

(* Thread t's own reference is the local oldPtr of sccp_refcount_replace. *)
References == Slots \cup Threads

VARIABLES
  obj,       \* life of each object
  refcount,  \* obj->refcount
  ref,       \* what each slot points to
  bucket,    \* objects[hash] is not NULL
  list,      \* objects[hash]->refCountedObjects
  pc,        \* where each thread is
  cur,       \* the object it works on
  dst, src,  \* the slots it works on
  seen,      \* the count it fetched before its compare-and-swap
  empty      \* cleanup_objects

vars == <<obj, refcount, ref, bucket, list, pc, cur, dst, src, seen, empty>>
shared == <<obj, refcount, ref, bucket, list>>

ObjStates == {"unborn", "born", "live", "dead", "freed"}
PCs == {"idle", "create", "insert", "publish", "incr", "swap", "check", "fetch",
        "cas", "kill", "lookup", "unlink", "destroy", "bucket", "bucketfree",
        "crashed"}

TypeOK ==
  /\ obj \in [Objects -> ObjStates]
  /\ refcount \in [Objects -> Nat]
  /\ ref \in [References -> Objects \cup {NoObj}]
  /\ bucket \in BOOLEAN
  /\ list \in SUBSET Objects
  /\ pc \in [Threads -> PCs]
  /\ cur \in [Threads -> Objects \cup {NoObj}]
  /\ dst \in [Threads -> References \cup {NoSlot}]
  /\ src \in [Threads -> Slots \cup {NoSlot}]
  /\ seen \in [Threads -> Nat]
  /\ empty \in [Threads -> BOOLEAN]

Init ==
  /\ obj = [o \in Objects |-> "unborn"]
  /\ refcount = [o \in Objects |-> 0]
  /\ ref = [r \in References |-> NoObj]
  /\ bucket = FALSE
  /\ list = {}
  /\ pc = [t \in Threads |-> "idle"]
  /\ cur = [t \in Threads |-> NoObj]
  /\ dst = [t \in Threads |-> NoSlot]
  /\ src = [t \in Threads |-> NoSlot]
  /\ seen = [t \in Threads |-> 0]
  /\ empty = [t \in Threads |-> FALSE]

-----------------------------------------------------------------------------
(* No other thread works on slot s. *)
NotBusy(s) == \A t \in Threads : dst[t] # s /\ src[t] # s

(* Thread t goes on at p, its other locals as they are. *)
Goto(t, p) ==
  /\ pc' = [pc EXCEPT ![t] = p]
  /\ UNCHANGED <<cur, dst, src, seen, empty>>

(* Thread t returns to its caller. *)
Return(t) ==
  /\ pc' = [pc EXCEPT ![t] = "idle"]
  /\ cur' = [cur EXCEPT ![t] = NoObj]
  /\ dst' = [dst EXCEPT ![t] = NoSlot]
  /\ src' = [src EXCEPT ![t] = NoSlot]
  /\ empty' = [empty EXCEPT ![t] = FALSE]
  /\ UNCHANGED seen

(* Thread t starts an operation on slot d that reads slot s. *)
Call(t, p, o, d, s) ==
  /\ pc[t] = "idle"
  /\ pc' = [pc EXCEPT ![t] = p]
  /\ cur' = [cur EXCEPT ![t] = o]
  /\ dst' = [dst EXCEPT ![t] = d]
  /\ src' = [src EXCEPT ![t] = s]
  /\ UNCHANGED <<seen, empty>>

-----------------------------------------------------------------------------
(* sccp_refcount_object_alloc up to its unlocked look at objects[hash]. *)
Alloc(t, o, d) ==
  /\ obj[o] = "unborn"
  /\ NotBusy(d)
  /\ ref[d] = NoObj
  /\ Call(t, IF bucket THEN "insert" ELSE "create", o, d, NoSlot)
  /\ obj' = [obj EXCEPT ![o] = "born"]
  /\ refcount' = [refcount EXCEPT ![o] = 1]
  /\ ref' = [ref EXCEPT ![d] = o]
  /\ UNCHANGED <<bucket, list>>

(* objectslock is held for writing: the bucket is created with the object, *)
(* unless another thread created it since; then nothing is inserted.       *)
AllocCreate(t) ==
  /\ pc[t] = "create"
  /\ bucket' = TRUE
  /\ list' = IF bucket THEN list ELSE list \cup {cur[t]}
  /\ Goto(t, "publish")
  /\ UNCHANGED <<obj, refcount, ref>>

(* No memory for the bucket: the object is freed and NULL returned. *)
AllocCreateFails(t) ==
  /\ pc[t] = "create"
  /\ ~bucket
  /\ obj' = [obj EXCEPT ![cur[t]] = "freed"]
  /\ refcount' = [refcount EXCEPT ![cur[t]] = 0]
  /\ ref' = [ref EXCEPT ![dst[t]] = NoObj]
  /\ Return(t)
  /\ UNCHANGED <<bucket, list>>

(* The other branch dereferences objects[hash] again, under the locks. *)
AllocInsert(t) ==
  /\ pc[t] = "insert"
  /\ list' = IF bucket THEN list \cup {cur[t]} ELSE list
  /\ Goto(t, IF bucket THEN "publish" ELSE "crashed")
  /\ UNCHANGED <<obj, refcount, ref, bucket>>

(* obj->alive = SCCP_LIVE_MARKER, after the object is in the list. *)
AllocPublish(t) ==
  /\ pc[t] = "publish"
  /\ obj' = [obj EXCEPT ![cur[t]] = "live"]
  /\ Return(t)
  /\ UNCHANGED <<refcount, ref, bucket, list>>

-----------------------------------------------------------------------------
(* sccp_refcount_retain of the reference in slot s, kept in slot d: first  *)
(* find_obj, then the increment.                                           *)
Retain(t, s, d) ==
  /\ s # d
  /\ NotBusy(s) /\ NotBusy(d)
  /\ ref[s] # NoObj /\ ref[d] = NoObj
  /\ obj[ref[s]] = "live"
  /\ Call(t, "incr", ref[s], d, s)
  /\ UNCHANGED shared

RetainIncr(t) ==
  /\ pc[t] = "incr"
  /\ refcount' = [refcount EXCEPT ![cur[t]] = @ + 1]
  /\ ref' = [ref EXCEPT ![dst[t]] = cur[t]]
  /\ Return(t)
  /\ UNCHANGED <<obj, bucket, list>>

(* sccp_refcount_replace of slot d by the reference in slot s: retain the  *)
(* new object, store it, release the old one.                              *)
Replace(t, s, d) ==
  /\ s # d
  /\ NotBusy(s) /\ NotBusy(d)
  /\ ref[s] # NoObj
  /\ obj[ref[s]] = "live"
  /\ Call(t, "swap", ref[s], d, s)
  /\ UNCHANGED shared

ReplaceSwap(t) ==
  /\ pc[t] = "swap"
  /\ refcount' = [refcount EXCEPT ![cur[t]] = @ + 1]
  /\ ref' = [ref EXCEPT ![dst[t]] = cur[t], ![t] = ref[dst[t]]]
  /\ pc' = [pc EXCEPT ![t] = IF ref[dst[t]] = NoObj THEN "idle" ELSE "check"]
  /\ cur' = [cur EXCEPT ![t] = ref[dst[t]]]
  /\ dst' = [dst EXCEPT ![t] = IF ref[dst[t]] = NoObj THEN NoSlot ELSE t]
  /\ src' = [src EXCEPT ![t] = NoSlot]
  /\ UNCHANGED <<obj, bucket, list, seen, empty>>

-----------------------------------------------------------------------------
(* sccp_refcount_release of the reference in slot d. *)
Release(t, d) ==
  /\ NotBusy(d)
  /\ ref[d] # NoObj
  /\ Call(t, "check", ref[d], d, NoSlot)
  /\ UNCHANGED shared

(* find_obj and the test for a positive count; without them the pointer is *)
(* only cleared.                                                           *)
ReleaseCheck(t) ==
  /\ pc[t] = "check"
  /\ IF obj[cur[t]] = "live" /\ refcount[cur[t]] > 0
     THEN /\ Goto(t, "fetch")
          /\ UNCHANGED ref
     ELSE /\ Return(t)
          /\ ref' = [ref EXCEPT ![dst[t]] = NoObj]
  /\ UNCHANGED <<obj, refcount, bucket, list>>

ReleaseFetch(t) ==
  /\ pc[t] = "fetch"
  /\ seen' = [seen EXCEPT ![t] = refcount[cur[t]]]
  /\ pc' = [pc EXCEPT ![t] = "cas"]
  /\ UNCHANGED <<cur, dst, src, empty>>
  /\ UNCHANGED shared

(* CAS32: the count changed meanwhile, so once more. *)
ReleaseRetry(t) ==
  /\ pc[t] = "cas"
  /\ refcount[cur[t]] # seen[t]
  /\ Goto(t, "fetch")
  /\ UNCHANGED shared

(* Mutants: the count is written back without compare-and-swap; it is      *)
(* decremented twice; the old value is taken for the new one; the caller's *)
(* pointer is not cleared (rule 4).                                        *)
ReleaseStore(t) ==
  /\ pc[t] = "cas"
  /\ refcount' = [refcount EXCEPT ![cur[t]] = seen[t] - 1]
  /\ ref' = [ref EXCEPT ![dst[t]] = NoObj]
  /\ IF seen[t] = 1 THEN Goto(t, "kill") ELSE Return(t)
  /\ UNCHANGED <<obj, bucket, list>>
ReleaseKeepsPointer(t) ==
  /\ pc[t] = "cas"
  /\ refcount[cur[t]] = seen[t]
  /\ refcount' = [refcount EXCEPT ![cur[t]] = seen[t] - 1]
  /\ IF seen[t] = 1 THEN Goto(t, "kill") ELSE Return(t)
  /\ UNCHANGED <<obj, ref, bucket, list>>

(* The reference is gone; whoever takes the last one finalizes. *)
ReleaseCas(t) ==
  /\ pc[t] = "cas"
  /\ refcount[cur[t]] = seen[t]
  /\ refcount' = [refcount EXCEPT ![cur[t]] = seen[t] - 1]
  /\ ref' = [ref EXCEPT ![dst[t]] = NoObj]
  /\ IF seen[t] = 1 THEN Goto(t, "kill") ELSE Return(t)
  /\ UNCHANGED <<obj, bucket, list>>

(* The live marker is taken off. *)
Kill(t) ==
  /\ pc[t] = "kill"
  /\ obj' = [obj EXCEPT ![cur[t]] = "dead"]
  /\ Goto(t, "lookup")
  /\ UNCHANGED <<refcount, ref, bucket, list>>

-----------------------------------------------------------------------------
(* sccp_refcount_remove_obj: the unlocked look at objects[hash]. *)
RemoveLookup(t) ==
  /\ pc[t] = "lookup"
  /\ IF bucket THEN Goto(t, "unlink") ELSE Return(t)
  /\ UNCHANGED shared

(* Under the list's lock: take the object out if it is there. *)
RemoveUnlink(t) ==
  /\ pc[t] = "unlink"
  /\ list' = list \ {cur[t]}
  /\ pc' = [pc EXCEPT ![t] = IF ~bucket THEN "crashed"
                             ELSE IF cur[t] \in list THEN "destroy" ELSE "bucket"]
  /\ empty' = [empty EXCEPT ![t] = list' = {}]
  /\ UNCHANGED <<obj, refcount, ref, bucket, cur, dst, src, seen>>

(* The destructor runs and the memory is freed. *)
RemoveDestroy(t) ==
  /\ pc[t] = "destroy"
  /\ obj' = [obj EXCEPT ![cur[t]] = "freed"]
  /\ Goto(t, "bucket")
  /\ UNCHANGED <<refcount, ref, bucket, list>>

RemoveBucketCheck(t) ==
  /\ pc[t] = "bucket"
  /\ IF empty[t] /\ bucket THEN Goto(t, "bucketfree") ELSE Return(t)
  /\ UNCHANGED shared

(* Under objectslock and the list's lock: free the bucket if it is still   *)
(* empty.                                                                  *)
RemoveBucketFree(t) ==
  /\ pc[t] = "bucketfree"
  /\ bucket' = (bucket /\ list # {})
  /\ IF bucket THEN Return(t) ELSE Goto(t, "crashed")
  /\ UNCHANGED <<obj, refcount, ref, list>>

-----------------------------------------------------------------------------
Operation(t) ==
  \/ \E d \in Slots :
       \/ \E o \in Objects : Alloc(t, o, d)
       \/ \E s \in Slots : Retain(t, s, d) \/ Replace(t, s, d)
       \/ Release(t, d)
  \/ AllocCreate(t) \/ AllocCreateFails(t) \/ AllocInsert(t) \/ AllocPublish(t)
  \/ RetainIncr(t) \/ ReplaceSwap(t)
  \/ ReleaseCheck(t) \/ ReleaseFetch(t) \/ ReleaseRetry(t) \/ ReleaseCas(t)
  \/ Kill(t) \/ RemoveLookup(t) \/ RemoveUnlink(t) \/ RemoveDestroy(t)
  \/ RemoveBucketCheck(t) \/ RemoveBucketFree(t)

(* A NULL dereference ends the process. *)
Next ==
  /\ \A t \in Threads : pc[t] # "crashed"
  /\ \E t \in Threads : Operation(t)

Spec == Init /\ [][Next]_vars

-----------------------------------------------------------------------------
Owners(o) == {r \in References : ref[r] = o}

(* The count is the number of slots that own a reference, at every step of *)
(* every interleaving (sccp_refcount.c:754-841).                           *)
CountMatches == \A o \in Objects : refcount[o] = Cardinality(Owners(o))

(* No slot points to an object that lost its live marker or was freed      *)
(* (sccp_refcount.c:807-830, 473-487).                                     *)
NoDangling ==
  \A r \in References : ref[r] # NoObj => obj[ref[r]] \in {"born", "live"}

(* One thread at most finalizes an object: only one compare-and-swap gets  *)
(* it to zero (sccp_refcount.c:815-823).                                   *)
Finalizing == {"kill", "lookup", "unlink", "destroy"}
FinalizedOnce ==
  \A t, u \in Threads :
    pc[t] \in Finalizing /\ pc[u] \in Finalizing /\ cur[t] = cur[u] => t = u

(* Nothing freed is left in a list, which the CLI and the destruction at   *)
(* unload walk through (sccp_refcount.c:460-487, 228-256).                 *)
ListedAlive == \A o \in list : bucket /\ obj[o] \in {"born", "live", "dead"}

(* An object that lost its last reference gets none again.                 *)
(* (sccp_refcount.c:422-444, 767-777).                                     *)
NoResurrection ==
  [][\A o \in Objects : obj[o] \in {"dead", "freed"} => Owners(o)' = {}]_vars

=============================================================================
