--------------------------- MODULE RefcountProofs ---------------------------
(***************************************************************************)
(* Proofs about Refcount, for any number of objects, slots and threads.    *)
(***************************************************************************)
EXTENDS Refcount, FiniteSetTheorems, TLAPS

Allocating == {"create", "insert", "publish"}
Releasing == {"check", "fetch", "cas"}

(* What a thread inside an operation knows of its object and slots. *)
Local(t) ==
  /\ pc[t] = "idle" => dst[t] = NoSlot /\ src[t] = NoSlot
  /\ pc[t] \in Allocating =>
       /\ cur[t] \in Objects /\ dst[t] \in Slots
       /\ ref[dst[t]] = cur[t]
       /\ obj[cur[t]] = "born" /\ refcount[cur[t]] = 1
  /\ pc[t] \in {"incr", "swap"} =>
       /\ cur[t] \in Objects /\ dst[t] \in Slots /\ src[t] \in Slots
       /\ ref[src[t]] = cur[t]
       /\ obj[cur[t]] = "live"
  /\ pc[t] = "incr" => ref[dst[t]] = NoObj
  /\ pc[t] \in Releasing =>
       /\ cur[t] \in Objects /\ dst[t] \in References
       /\ ref[dst[t]] = cur[t]
       /\ obj[cur[t]] = "live"
  /\ pc[t] \in Finalizing =>
       /\ cur[t] \in Objects
       /\ refcount[cur[t]] = 0
       /\ obj[cur[t]] = IF pc[t] = "kill" THEN "live" ELSE "dead"
  /\ ref[t] # NoObj => pc[t] \in Releasing /\ dst[t] = t

LocalInv == \A t \in Threads : Local(t)

(* Threads work on different slots. *)
Exclusive ==
  \A t, u \in Threads : t # u =>
    /\ dst[t] # NoSlot => dst[t] # dst[u] /\ dst[t] # src[u]
    /\ src[t] # NoSlot => src[t] # src[u]

(* An object being born is known to the slot of its allocator alone; a     *)
(* thread's own slot is worked on by that thread alone.                    *)
BornInv ==
  /\ \A r \in References : ref[r] # NoObj /\ obj[ref[r]] = "born" =>
       \E t \in Threads : pc[t] \in Allocating \cup {"crashed"} /\ cur[t] = ref[r] /\ dst[t] = r
  /\ \A t, u \in Threads : dst[t] = u => t = u

(* An object in no one's slots counts no reference. *)
LifeInv ==
  \A o \in Objects : obj[o] \in {"unborn", "dead", "freed"} => refcount[o] = 0

(* The inductive invariant: counts, slots and the lives of objects         *)
(* (sccp_refcount.c:277-338, 446-500, 754-860).                            *)
IInv ==
  /\ TypeOK
  /\ CountMatches
  /\ NoDangling
  /\ FinalizedOnce
  /\ LocalInv
  /\ Exclusive
  /\ BornInv
  /\ LifeInv

-----------------------------------------------------------------------------
(* The owners of an object can be counted. *)
LEMMA OwnersFinite == \A o : IsFiniteSet(Owners(o))
<1>1. IsFiniteSet(References)
  BY RefcountAssumption, FS_Union DEF References
<1> QED
  BY <1>1, FS_Subset DEF Owners

(* A slot that points to an object is counted. *)
LEMMA HeldCounts ==
  ASSUME IInv, NEW r \in References, ref[r] # NoObj
  PROVE  refcount[ref[r]] \in Nat \ {0}
<1>1. ref[r] \in Objects /\ r \in Owners(ref[r])
  BY DEF IInv, TypeOK, Owners
<1>2. refcount[ref[r]] = Cardinality(Owners(ref[r]))
  BY <1>1 DEF IInv, CountMatches
<1> QED
  BY <1>1, <1>2, OwnersFinite, FS_EmptySet, FS_CardinalityType

(* What the compare-and-swap of a release does. *)
LEMMA CasFacts ==
  ASSUME IInv, NEW t \in Threads, ReleaseCas(t)
  PROVE  /\ cur[t] \in Objects /\ dst[t] \in References /\ ref[dst[t]] = cur[t]
         /\ obj[cur[t]] = "live"
         /\ seen[t] = refcount[cur[t]]
         /\ seen[t] \in Nat \ {0}
<1>1. /\ cur[t] \in Objects /\ dst[t] \in References /\ ref[dst[t]] = cur[t]
      /\ obj[cur[t]] = "live"
      /\ seen[t] = refcount[cur[t]]
  BY DEF ReleaseCas, IInv, LocalInv, Local, Releasing
<1>2. ref[dst[t]] # NoObj
  BY <1>1, RefcountAssumption
<1> QED
  BY <1>1, <1>2, HeldCounts

(* The slot an object is being born into is its only reference. *)
LEMMA BornAlone ==
  ASSUME IInv, NEW t \in Threads, pc[t] \in Allocating
  PROVE  \A r \in References : ref[r] = cur[t] => r = dst[t]
<1>1. /\ cur[t] \in Objects /\ dst[t] \in References /\ ref[dst[t]] = cur[t]
      /\ refcount[cur[t]] = 1
  BY DEF IInv, LocalInv, Local, References
<1>2. Cardinality(Owners(cur[t])) = 1
  BY <1>1 DEF IInv, CountMatches
<1>3. PICK x : Owners(cur[t]) = {x}
  BY <1>2, OwnersFinite, FS_Singleton
<1> QED
  BY <1>1, <1>3 DEF Owners

(* Nobody points to an object whose count is zero. *)
LEMMA ZeroAlone ==
  ASSUME IInv, NEW t \in Threads, pc[t] \in Finalizing
  PROVE  \A r \in References : ref[r] # cur[t]
<1>1. cur[t] \in Objects /\ refcount[cur[t]] = 0
  BY DEF IInv, LocalInv, Local
<1> QED
  BY <1>1, HeldCounts, RefcountAssumption

(* Every operation keeps the types. *)
LEMMA TypeStep ==
  ASSUME IInv, NEW t \in Threads, Operation(t)
  PROVE  TypeOK'
<1> USE RefcountAssumption DEF IInv, TypeOK, ObjStates, PCs, References
<1>1. ASSUME NEW o \in Objects, NEW d \in Slots, Alloc(t, o, d) PROVE TypeOK'
  BY <1>1 DEF Alloc, Call
<1>2. ASSUME NEW s \in Slots, NEW d \in Slots, Retain(t, s, d) \/ Replace(t, s, d)
      PROVE TypeOK'
  BY <1>2 DEF Retain, Replace, Call, shared
<1>3. ASSUME NEW d \in Slots, Release(t, d) PROVE TypeOK'
  BY <1>3 DEF Release, Call, shared
<1>4. CASE AllocCreate(t) \/ AllocInsert(t)
  <2>1. cur[t] \in Objects
    BY <1>4 DEF LocalInv, Local, Allocating, AllocCreate, AllocInsert
  <2>2. list' \in SUBSET Objects /\ bucket' \in BOOLEAN
    BY <1>4, <2>1 DEF AllocCreate, AllocInsert
  <2>3. pc' \in [Threads -> PCs]
    BY <1>4 DEF AllocCreate, AllocInsert, Goto
  <2> QED
    BY <1>4, <2>2, <2>3 DEF AllocCreate, AllocInsert, Goto
<1>5. CASE AllocCreateFails(t)
  BY <1>5 DEF AllocCreateFails, Return
<1>6. CASE AllocPublish(t)
  BY <1>6 DEF AllocPublish, Return
<1>7. CASE RetainIncr(t)
  BY <1>7 DEF LocalInv, Local, RetainIncr, Return
<1>8. CASE ReplaceSwap(t)
  BY <1>8 DEF LocalInv, Local, ReplaceSwap
<1>9. CASE ReleaseCheck(t)
  BY <1>9 DEF ReleaseCheck, Goto, Return
<1>10. CASE ReleaseFetch(t) \/ ReleaseRetry(t)
  BY <1>10 DEF LocalInv, Local, Releasing, ReleaseFetch, ReleaseRetry, Goto, shared
<1>11. CASE ReleaseCas(t)
  <2>1. /\ refcount' \in [Objects -> Nat] /\ ref' \in [References -> Objects \cup {NoObj}]
        /\ UNCHANGED <<obj, bucket, list>>
    <3>1. cur[t] \in Objects /\ dst[t] \in References /\ seen[t] - 1 \in Nat
      BY <1>11, CasFacts
    <3> QED
      BY <1>11, <3>1 DEF ReleaseCas
  <2>2. CASE seen[t] = 1
    <3>1. pc' = [pc EXCEPT ![t] = "kill"] /\ UNCHANGED <<cur, dst, src, seen, empty>>
      BY <1>11, <2>2 DEF ReleaseCas, Goto
    <3> QED
      BY <2>1, <3>1
  <2>3. CASE seen[t] # 1
    <3>1. Return(t)
      BY <1>11, <2>3 DEF ReleaseCas
    <3> QED
      BY <2>1, <3>1 DEF Return
  <2> QED
    BY <2>2, <2>3
<1>12. CASE Kill(t)
  BY <1>12 DEF Kill, Goto
<1>13. CASE RemoveLookup(t) \/ RemoveUnlink(t) \/ RemoveBucketCheck(t) \/ RemoveBucketFree(t)
  BY <1>13 DEF RemoveLookup, RemoveUnlink, RemoveBucketCheck, RemoveBucketFree,
     Goto, Return, shared
<1>14. CASE RemoveDestroy(t)
  BY <1>14 DEF RemoveDestroy, Goto
<1> QED
  BY <1>1, <1>2, <1>3, <1>4, <1>5, <1>6, <1>7, <1>8, <1>9, <1>10, <1>11, <1>12,
     <1>13, <1>14 DEF Operation

(* Two threads never come to work on one slot. *)
LEMMA ExclusiveStep ==
  ASSUME IInv, NEW t \in Threads, Operation(t)
  PROVE  Exclusive'
<1> USE RefcountAssumption DEF IInv, TypeOK, Exclusive, LocalInv, Local, References, NotBusy
<1>1. ASSUME NEW o \in Objects, NEW d \in Slots, Alloc(t, o, d) PROVE Exclusive'
  BY <1>1 DEF Alloc, Call
<1>2. ASSUME NEW s \in Slots, NEW d \in Slots, Retain(t, s, d) \/ Replace(t, s, d)
      PROVE Exclusive'
  BY <1>2 DEF Retain, Replace, Call, shared
<1>3. ASSUME NEW d \in Slots, Release(t, d) PROVE Exclusive'
  BY <1>3 DEF Release, Call, shared
<1>4. CASE AllocCreate(t) \/ AllocInsert(t)
  BY <1>4 DEF AllocCreate, AllocInsert, Goto
<1>5. CASE AllocCreateFails(t)
  BY <1>5 DEF AllocCreateFails, Return
<1>6. CASE AllocPublish(t)
  BY <1>6 DEF AllocPublish, Return
<1>7. CASE RetainIncr(t)
  BY <1>7 DEF RetainIncr, Return
<1>8. CASE ReplaceSwap(t)
  BY <1>8 DEF ReplaceSwap, BornInv
<1>9. CASE ReleaseCheck(t)
  BY <1>9 DEF ReleaseCheck, Goto, Return
<1>10. CASE ReleaseFetch(t) \/ ReleaseRetry(t)
  BY <1>10 DEF ReleaseFetch, ReleaseRetry, Goto, shared
<1>11. CASE ReleaseCas(t)
  BY <1>11 DEF ReleaseCas, Goto, Return
<1>12. CASE Kill(t)
  BY <1>12 DEF Kill, Goto
<1>13. CASE RemoveLookup(t) \/ RemoveUnlink(t) \/ RemoveBucketCheck(t) \/ RemoveBucketFree(t)
  BY <1>13 DEF RemoveLookup, RemoveUnlink, RemoveBucketCheck, RemoveBucketFree,
     Goto, Return, shared
<1>14. CASE RemoveDestroy(t)
  BY <1>14 DEF RemoveDestroy, Goto
<1> QED
  BY <1>1, <1>2, <1>3, <1>4, <1>5, <1>6, <1>7, <1>8, <1>9, <1>10, <1>11, <1>12,
     <1>13, <1>14 DEF Operation

(* An object outside its life counts no reference. *)
LEMMA LifeStep ==
  ASSUME IInv, NEW t \in Threads, Operation(t)
  PROVE  LifeInv'
<1> USE RefcountAssumption DEF IInv, TypeOK, LifeInv, LocalInv, Local, Finalizing, Allocating
<1>1. ASSUME NEW o \in Objects, NEW d \in Slots, Alloc(t, o, d) PROVE LifeInv'
  BY <1>1 DEF Alloc, Call
<1>2. ASSUME NEW s \in Slots, NEW d \in Slots, Retain(t, s, d) \/ Replace(t, s, d)
      PROVE LifeInv'
  BY <1>2 DEF Retain, Replace, Call, shared
<1>3. ASSUME NEW d \in Slots, Release(t, d) PROVE LifeInv'
  BY <1>3 DEF Release, Call, shared
<1>4. CASE AllocCreate(t) \/ AllocInsert(t)
  BY <1>4 DEF AllocCreate, AllocInsert, Goto
<1>5. CASE AllocCreateFails(t)
  BY <1>5 DEF AllocCreateFails, Return
<1>6. CASE AllocPublish(t)
  BY <1>6 DEF AllocPublish, Return
<1>7. CASE RetainIncr(t)
  BY <1>7 DEF RetainIncr, Return
<1>8. CASE ReplaceSwap(t)
  BY <1>8 DEF ReplaceSwap
<1>9. CASE ReleaseCheck(t)
  BY <1>9 DEF ReleaseCheck, Goto, Return
<1>10. CASE ReleaseFetch(t) \/ ReleaseRetry(t)
  BY <1>10 DEF ReleaseFetch, ReleaseRetry, Goto, shared
<1>11. CASE ReleaseCas(t)
  <2>1. /\ UNCHANGED obj
        /\ \A o \in Objects : o # cur[t] => refcount'[o] = refcount[o]
        /\ obj[cur[t]] = "live"
    BY <1>11, CasFacts DEF ReleaseCas
  <2> QED
    BY <2>1
<1>12. CASE Kill(t)
  BY <1>12 DEF Kill, Goto
<1>13. CASE RemoveLookup(t) \/ RemoveUnlink(t) \/ RemoveBucketCheck(t) \/ RemoveBucketFree(t)
  BY <1>13 DEF RemoveLookup, RemoveUnlink, RemoveBucketCheck, RemoveBucketFree,
     Goto, Return, shared
<1>14. CASE RemoveDestroy(t)
  BY <1>14 DEF RemoveDestroy, Goto
<1> QED
  BY <1>1, <1>2, <1>3, <1>4, <1>5, <1>6, <1>7, <1>8, <1>9, <1>10, <1>11, <1>12,
     <1>13, <1>14 DEF Operation

(* A second thread never comes to finalize an object. *)
LEMMA FinalizeStep ==
  ASSUME IInv, NEW t \in Threads, Operation(t)
  PROVE  FinalizedOnce'
<1> USE RefcountAssumption DEF IInv, TypeOK, FinalizedOnce, LocalInv, Local, Finalizing, Releasing
<1>1. ASSUME NEW o \in Objects, NEW d \in Slots, Alloc(t, o, d) PROVE FinalizedOnce'
  BY <1>1 DEF Alloc, Call
<1>2. ASSUME NEW s \in Slots, NEW d \in Slots, Retain(t, s, d) \/ Replace(t, s, d)
      PROVE FinalizedOnce'
  BY <1>2 DEF Retain, Replace, Call, shared
<1>3. ASSUME NEW d \in Slots, Release(t, d) PROVE FinalizedOnce'
  BY <1>3 DEF Release, Call, shared
<1>4. CASE AllocCreate(t) \/ AllocInsert(t)
  BY <1>4 DEF AllocCreate, AllocInsert, Goto
<1>5. CASE AllocCreateFails(t)
  BY <1>5 DEF AllocCreateFails, Return
<1>6. CASE AllocPublish(t)
  BY <1>6 DEF AllocPublish, Return
<1>7. CASE RetainIncr(t)
  BY <1>7 DEF RetainIncr, Return
<1>8. CASE ReplaceSwap(t)
  BY <1>8 DEF ReplaceSwap
<1>9. CASE ReleaseCheck(t)
  BY <1>9 DEF ReleaseCheck, Goto, Return
<1>10. CASE ReleaseFetch(t) \/ ReleaseRetry(t)
  BY <1>10 DEF ReleaseFetch, ReleaseRetry, Goto, shared
<1>11. CASE ReleaseCas(t)
  <2>1. CASE seen[t] = 1
    <3>1. \A u \in Threads : pc[u] \in Finalizing => cur[u] # cur[t]
      BY <1>11, <2>1, CasFacts
    <3> QED
      BY <1>11, <2>1, <3>1 DEF ReleaseCas, Goto
  <2>2. CASE seen[t] # 1
    BY <1>11, <2>2 DEF ReleaseCas, Return
  <2> QED
    BY <2>1, <2>2
<1>12. CASE Kill(t)
  BY <1>12 DEF Kill, Goto
<1>13. CASE RemoveLookup(t) \/ RemoveUnlink(t) \/ RemoveBucketCheck(t) \/ RemoveBucketFree(t)
  BY <1>13 DEF RemoveLookup, RemoveUnlink, RemoveBucketCheck, RemoveBucketFree,
     Goto, Return, shared
<1>14. CASE RemoveDestroy(t)
  BY <1>14 DEF RemoveDestroy, Goto
<1> QED
  BY <1>1, <1>2, <1>3, <1>4, <1>5, <1>6, <1>7, <1>8, <1>9, <1>10, <1>11, <1>12,
     <1>13, <1>14 DEF Operation

(* No operation takes a referenced object away (sccp_refcount.c:807-830).   *)
LEMMA DanglingStep ==
  ASSUME IInv, NEW t \in Threads, Operation(t)
  PROVE  NoDangling'
<1> USE RefcountAssumption DEF IInv, TypeOK, NoDangling, LocalInv, Local, Finalizing, Allocating, Releasing
<1>1. ASSUME NEW o \in Objects, NEW d \in Slots, Alloc(t, o, d) PROVE NoDangling'
  BY <1>1 DEF Alloc, Call
<1>2. ASSUME NEW s \in Slots, NEW d \in Slots, Retain(t, s, d) \/ Replace(t, s, d)
      PROVE NoDangling'
  BY <1>2 DEF Retain, Replace, Call, shared
<1>3. ASSUME NEW d \in Slots, Release(t, d) PROVE NoDangling'
  BY <1>3 DEF Release, Call, shared
<1>4. CASE AllocCreate(t) \/ AllocInsert(t)
  BY <1>4 DEF AllocCreate, AllocInsert, Goto
<1>5. CASE AllocCreateFails(t)
  <2>1. pc[t] \in Allocating
    BY <1>5 DEF AllocCreateFails
  <2>2. \A r \in References : ref[r] = cur[t] => r = dst[t]
    BY <2>1, BornAlone
  <2> QED
    BY <1>5, <2>2 DEF AllocCreateFails
<1>6. CASE AllocPublish(t)
  BY <1>6 DEF AllocPublish, Return
<1>7. CASE RetainIncr(t)
  BY <1>7 DEF RetainIncr, Return
<1>8. CASE ReplaceSwap(t)
  BY <1>8 DEF ReplaceSwap
<1>9. CASE ReleaseCheck(t)
  BY <1>9 DEF ReleaseCheck, Goto, Return
<1>10. CASE ReleaseFetch(t) \/ ReleaseRetry(t)
  BY <1>10 DEF ReleaseFetch, ReleaseRetry, Goto, shared
<1>11. CASE ReleaseCas(t)
  BY <1>11 DEF ReleaseCas, Goto, Return
<1>12. CASE Kill(t)
  <2>1. \A r \in References : ref[r] # cur[t]
    BY <1>12, ZeroAlone DEF Kill
  <2> QED
    BY <1>12, <2>1 DEF Kill
<1>13. CASE RemoveLookup(t) \/ RemoveUnlink(t) \/ RemoveBucketCheck(t) \/ RemoveBucketFree(t)
  BY <1>13 DEF RemoveLookup, RemoveUnlink, RemoveBucketCheck, RemoveBucketFree,
     Goto, Return, shared
<1>14. CASE RemoveDestroy(t)
  BY <1>14 DEF RemoveDestroy, Goto
<1> QED
  BY <1>1, <1>2, <1>3, <1>4, <1>5, <1>6, <1>7, <1>8, <1>9, <1>10, <1>11, <1>12,
     <1>13, <1>14 DEF Operation

(* An object being born is reached by its allocator alone                   *)
(* (sccp_refcount.c:277-338).                                              *)
LEMMA BornStep ==
  ASSUME IInv, NEW t \in Threads, Operation(t)
  PROVE  BornInv'
<1> USE RefcountAssumption DEF IInv, TypeOK, BornInv, LocalInv, Local, Finalizing, Allocating, Releasing, References
<1>1. ASSUME NEW o \in Objects, NEW d \in Slots, Alloc(t, o, d) PROVE BornInv'
  BY <1>1 DEF Alloc, Call, NoDangling
<1>2. ASSUME NEW s \in Slots, NEW d \in Slots, Retain(t, s, d) \/ Replace(t, s, d)
      PROVE BornInv'
  BY <1>2 DEF Retain, Replace, Call, shared
<1>3. ASSUME NEW d \in Slots, Release(t, d) PROVE BornInv'
  BY <1>3 DEF Release, Call, shared
<1>4. CASE AllocCreate(t) \/ AllocInsert(t)
  BY <1>4 DEF AllocCreate, AllocInsert, Goto
<1>5. CASE AllocCreateFails(t)
  BY <1>5 DEF AllocCreateFails, Return
<1>6. CASE AllocPublish(t)
  BY <1>6 DEF AllocPublish, Return
<1>7. CASE RetainIncr(t)
  BY <1>7 DEF RetainIncr, Return
<1>8. CASE ReplaceSwap(t)
  BY <1>8 DEF ReplaceSwap, Exclusive
<1>9. CASE ReleaseCheck(t)
  BY <1>9 DEF ReleaseCheck, Goto, Return
<1>10. CASE ReleaseFetch(t) \/ ReleaseRetry(t)
  BY <1>10 DEF ReleaseFetch, ReleaseRetry, Goto, shared
<1>11. CASE ReleaseCas(t)
  BY <1>11 DEF ReleaseCas, Goto, Return
<1>12. CASE Kill(t)
  BY <1>12 DEF Kill, Goto
<1>13. CASE RemoveLookup(t) \/ RemoveUnlink(t) \/ RemoveBucketCheck(t) \/ RemoveBucketFree(t)
  BY <1>13 DEF RemoveLookup, RemoveUnlink, RemoveBucketCheck, RemoveBucketFree,
     Goto, Return, shared
<1>14. CASE RemoveDestroy(t)
  BY <1>14 DEF RemoveDestroy, Goto
<1> QED
  BY <1>1, <1>2, <1>3, <1>4, <1>5, <1>6, <1>7, <1>8, <1>9, <1>10, <1>11, <1>12,
     <1>13, <1>14 DEF Operation

(* How a store into slot r changes the number of slots that own p. *)
Own(f, p) == {x \in References : f[x] = p}
Stores(f, g, r, o) == g = [f EXCEPT ![r] = o]
LEMMA StoreCounts ==
  ASSUME NEW f \in [References -> Objects \cup {NoObj}], NEW g, NEW r \in References,
         NEW o, Stores(f, g, r, o), NEW p \in Objects
  PROVE  /\ Cardinality(Own(f, p)) \in Nat
         /\ Cardinality(Own(g, p)) = IF p = o /\ f[r] # p THEN Cardinality(Own(f, p)) + 1
                                     ELSE IF p # o /\ f[r] = p
                                     THEN Cardinality(Own(f, p)) - 1
                                     ELSE Cardinality(Own(f, p))
<1>1. IsFiniteSet(References)
  BY RefcountAssumption, FS_Union DEF References
<1>2. IsFiniteSet(Own(f, p)) /\ Cardinality(Own(f, p)) \in Nat
  <2>1. Own(f, p) \in SUBSET References
    BY DEF Own
  <2> QED
    BY <1>1, <2>1, FS_Subset, FS_CardinalityType
<1>3. CASE p = o /\ f[r] # p
  <2>1. Own(g, p) = Own(f, p) \cup {r} /\ r \notin Own(f, p)
    BY <1>3 DEF Own, Stores
  <2>2. Cardinality(Own(f, p) \cup {r}) = Cardinality(Own(f, p)) + 1
    BY <1>2, <2>1, FS_AddElement
  <2> QED
    BY <1>2, <1>3, <2>1, <2>2
<1>4. CASE p # o /\ f[r] = p
  <2>1. Own(g, p) = Own(f, p) \ {r} /\ r \in Own(f, p)
    BY <1>4 DEF Own, Stores
  <2>2. Cardinality(Own(f, p) \ {r}) = Cardinality(Own(f, p)) - 1
    BY <1>2, <2>1, FS_RemoveElement
  <2> QED
    BY <1>2, <1>4, <2>1, <2>2
<1>5. CASE p = o <=> f[r] = p
  <2>1. Own(g, p) = Own(f, p)
    BY <1>5 DEF Own, Stores
  <2> QED
    BY <1>2, <1>5, <2>1
<1> QED
  BY <1>3, <1>4, <1>5

(* Every operation keeps the counts equal to the number of owners          *)
(* (sccp_refcount.c:754-860).                                              *)
LEMMA CountStep ==
  ASSUME IInv, NEW t \in Threads, Operation(t)
  PROVE  CountMatches'
<1> SUFFICES ASSUME NEW p \in Objects
    PROVE refcount'[p] = Cardinality(Own(ref', p))
  BY DEF CountMatches, Owners, Own
<1>a. refcount[p] = Cardinality(Own(ref, p)) /\ refcount[p] \in Nat
  BY DEF IInv, TypeOK, CountMatches, Owners, Own
<1>b. ref \in [References -> Objects \cup {NoObj}] /\ refcount \in [Objects -> Nat]
  BY DEF IInv, TypeOK
<1>c. Slots \subseteq References /\ Threads \subseteq References
  BY DEF References
<1> USE RefcountAssumption
<1>0. CASE UNCHANGED <<ref, refcount>>
  BY <1>0, <1>a
<1>1. ASSUME NEW o \in Objects, NEW d \in Slots, Alloc(t, o, d)
      PROVE refcount'[p] = Cardinality(Own(ref', p))
  <2>1. ref' = [ref EXCEPT ![d] = o] /\ ref[d] = NoObj /\ refcount' = [refcount EXCEPT ![o] = 1]
    BY <1>1 DEF Alloc
  <2>2. refcount[o] = 0
    BY <1>1 DEF Alloc, IInv, LifeInv
  <2>s. Stores(ref, ref', d, o)
    BY <2>1 DEF Stores
  <2>3. Cardinality(Own(ref', p)) = IF p = o /\ ref[d] # p THEN Cardinality(Own(ref, p)) + 1
                                     ELSE IF p # o /\ ref[d] = p
                                     THEN Cardinality(Own(ref, p)) - 1
                                     ELSE Cardinality(Own(ref, p))
    BY <2>s, <2>1, <2>2, <1>b, <1>c, StoreCounts
  <2> QED
    BY <2>1, <2>2, <2>3, <1>a, <1>b
<1>2. CASE AllocCreateFails(t)
  <2>1. /\ cur[t] \in Objects /\ dst[t] \in References /\ ref[dst[t]] = cur[t]
        /\ refcount[cur[t]] = 1
    BY <1>2 DEF AllocCreateFails, IInv, LocalInv, Local, Allocating, References
  <2>2. ref' = [ref EXCEPT ![dst[t]] = NoObj] /\ refcount' = [refcount EXCEPT ![cur[t]] = 0]
    BY <1>2 DEF AllocCreateFails
  <2>s. Stores(ref, ref', dst[t], NoObj)
    BY <2>2 DEF Stores
  <2>3. Cardinality(Own(ref', p)) = IF p = NoObj /\ ref[dst[t]] # p THEN Cardinality(Own(ref, p)) + 1
                                     ELSE IF p # NoObj /\ ref[dst[t]] = p
                                     THEN Cardinality(Own(ref, p)) - 1
                                     ELSE Cardinality(Own(ref, p))
    BY <2>s, <2>1, <2>2, <1>b, <1>c, StoreCounts
  <2> QED
    BY <2>1, <2>2, <2>3, <1>a, <1>b
<1>3. CASE RetainIncr(t)
  <2>1. cur[t] \in Objects /\ dst[t] \in References /\ ref[dst[t]] = NoObj
    BY <1>3 DEF RetainIncr, IInv, LocalInv, Local, References
  <2>2. ref' = [ref EXCEPT ![dst[t]] = cur[t]] /\ refcount' = [refcount EXCEPT ![cur[t]] = @ + 1]
    BY <1>3 DEF RetainIncr
  <2>s. Stores(ref, ref', dst[t], cur[t])
    BY <2>2 DEF Stores
  <2>3. Cardinality(Own(ref', p)) = IF p = cur[t] /\ ref[dst[t]] # p THEN Cardinality(Own(ref, p)) + 1
                                     ELSE IF p # cur[t] /\ ref[dst[t]] = p
                                     THEN Cardinality(Own(ref, p)) - 1
                                     ELSE Cardinality(Own(ref, p))
    BY <2>s, <2>1, <2>2, <1>b, <1>c, StoreCounts
  <2> QED
    BY <2>1, <2>2, <2>3, <1>a, <1>b
<1>4. CASE ReplaceSwap(t)
  <2> DEFINE d == dst[t]
             old == ref[d]
             mid == [ref EXCEPT ![t] = old]
  <2>1. /\ cur[t] \in Objects /\ d \in Slots /\ ref[t] = NoObj /\ t \notin Slots
    BY <1>4 DEF ReplaceSwap, IInv, LocalInv, Local, Releasing
  <2>2. old \in Objects \cup {NoObj}
    BY <2>1, <1>b, <1>c
  <2>3. mid \in [References -> Objects \cup {NoObj}] /\ mid[d] = old
    BY <2>1, <2>2, <1>b, <1>c
  <2>4. ref' = [mid EXCEPT ![d] = cur[t]]
    BY <1>4, <2>1, <1>b, <1>c DEF ReplaceSwap
  <2>5. Cardinality(Own(mid, p)) = Cardinality(Own(ref, p)) + (IF p = old THEN 1 ELSE 0)
    <3>1. t \in References /\ ref[t] # p
      BY <2>1, <1>c
    <3>2. Cardinality(Own(mid, p)) = IF p = old /\ ref[t] # p THEN Cardinality(Own(ref, p)) + 1
                                     ELSE IF p # old /\ ref[t] = p
                                     THEN Cardinality(Own(ref, p)) - 1
                                     ELSE Cardinality(Own(ref, p))
      <4>1. Stores(ref, mid, t, old)
        BY DEF Stores
      <4> HIDE DEF old, mid
      <4> QED
        BY <4>1, <3>1, <1>b, StoreCounts
    <3> QED
      BY <3>1, <3>2, <1>a
  <2>6. Cardinality(Own(ref', p)) = Cardinality(Own(mid, p))
          + (IF p = cur[t] THEN 1 ELSE 0) - (IF p = old THEN 1 ELSE 0)
    <3> HIDE DEF mid
    <3> QED
      <4>1. d \in References
        BY <2>1, <1>c
      <4>2. /\ Cardinality(Own(mid, p)) \in Nat
            /\ Cardinality(Own(ref', p)) = IF p = cur[t] /\ mid[d] # p THEN Cardinality(Own(mid, p)) + 1
                                     ELSE IF p # cur[t] /\ mid[d] = p
                                     THEN Cardinality(Own(mid, p)) - 1
                                     ELSE Cardinality(Own(mid, p))
        <5>1. Stores(mid, ref', d, cur[t])
          BY <2>4 DEF Stores
        <5> HIDE DEF d, old
        <5> QED
          BY <5>1, <4>1, <2>3, StoreCounts
      <4> QED
        BY <4>2, <2>3
  <2>7. refcount' = [refcount EXCEPT ![cur[t]] = @ + 1]
    BY <1>4 DEF ReplaceSwap
  <2> QED
    BY <2>1, <2>5, <2>6, <2>7, <1>a, <1>b
<1>5. CASE ReleaseCheck(t)
  <2>1. /\ cur[t] \in Objects /\ dst[t] \in References /\ ref[dst[t]] = cur[t]
        /\ obj[cur[t]] = "live"
    BY <1>5 DEF ReleaseCheck, IInv, LocalInv, Local, Releasing
  <2>2. refcount[cur[t]] > 0
    BY <2>1, HeldCounts
  <2> QED
    BY <1>5, <2>1, <2>2, <1>0 DEF ReleaseCheck
<1>6. CASE ReleaseCas(t)
  <2>1. ref' = [ref EXCEPT ![dst[t]] = NoObj]
        /\ refcount' = [refcount EXCEPT ![cur[t]] = seen[t] - 1]
    BY <1>6 DEF ReleaseCas
  <2>2. cur[t] \in Objects /\ dst[t] \in References /\ ref[dst[t]] = cur[t]
        /\ seen[t] = refcount[cur[t]]
    BY <1>6, CasFacts
  <2>s. Stores(ref, ref', dst[t], NoObj)
    BY <2>1 DEF Stores
  <2>3. Cardinality(Own(ref', p)) = IF p = NoObj /\ ref[dst[t]] # p THEN Cardinality(Own(ref, p)) + 1
                                     ELSE IF p # NoObj /\ ref[dst[t]] = p
                                     THEN Cardinality(Own(ref, p)) - 1
                                     ELSE Cardinality(Own(ref, p))
    BY <2>s, <2>1, <2>2, <1>b, <1>c, StoreCounts
  <2> QED
    BY <2>1, <2>2, <2>3, <1>a, <1>b
<1>7. ASSUME NEW s \in Slots, NEW d \in Slots,
             Retain(t, s, d) \/ Replace(t, s, d) \/ Release(t, d)
      PROVE refcount'[p] = Cardinality(Own(ref', p))
  BY <1>7, <1>0 DEF Retain, Replace, Release, shared
<1>8. ASSUME NEW d \in Slots, Release(t, d)
      PROVE refcount'[p] = Cardinality(Own(ref', p))
  BY <1>8, <1>0 DEF Release, shared
<1>9. CASE \/ AllocCreate(t) \/ AllocInsert(t) \/ AllocPublish(t)
           \/ ReleaseFetch(t) \/ ReleaseRetry(t) \/ Kill(t)
           \/ RemoveLookup(t) \/ RemoveUnlink(t) \/ RemoveDestroy(t)
           \/ RemoveBucketCheck(t) \/ RemoveBucketFree(t)
  BY <1>9, <1>0 DEF AllocCreate, AllocInsert, AllocPublish, ReleaseFetch, ReleaseRetry,
     Kill, RemoveLookup, RemoveUnlink, RemoveDestroy, RemoveBucketCheck,
     RemoveBucketFree, shared
<1> QED
  BY <1>1, <1>2, <1>3, <1>4, <1>5, <1>6, <1>7, <1>8, <1>9 DEF Operation

(* What a thread knows of its object and slots survives every operation of  *)
(* the others (sccp_refcount.c:277-338, 446-500, 754-860).                 *)
LEMMA LocalStep ==
  ASSUME IInv, NEW t \in Threads, Operation(t)
  PROVE  LocalInv'
<1>z. \A u \in Threads : pc[u] \in Finalizing => \A r \in References : ref[r] # cur[u]
  BY ZeroAlone
<1>b. \A u \in Threads : pc[u] \in Allocating =>
        \A r \in References : ref[r] = cur[u] => r = dst[u]
  BY BornAlone
<1> USE RefcountAssumption, <1>z, <1>b DEF IInv, TypeOK, LocalInv, Local, Exclusive, BornInv, FinalizedOnce, Finalizing, Allocating, Releasing, References, NotBusy
<1>1. ASSUME NEW o \in Objects, NEW d \in Slots, Alloc(t, o, d) PROVE LocalInv'
  BY <1>1 DEF Alloc, Call
<1>2. ASSUME NEW s \in Slots, NEW d \in Slots, Retain(t, s, d) \/ Replace(t, s, d)
      PROVE LocalInv'
  BY <1>2 DEF Retain, Replace, Call, shared
<1>3. ASSUME NEW d \in Slots, Release(t, d) PROVE LocalInv'
  <2>1. /\ ref[d] \in Objects /\ d \in References /\ obj[ref[d]] = "live" /\ d \notin Threads
        /\ UNCHANGED <<obj, refcount, ref>>
        /\ pc' = [pc EXCEPT ![t] = "check"] /\ cur' = [cur EXCEPT ![t] = ref[d]]
        /\ dst' = [dst EXCEPT ![t] = d] /\ src' = [src EXCEPT ![t] = NoSlot]
    BY <1>3 DEF Release, Call, shared, NoDangling
  <2>2. ref[t] = NoObj
    BY <1>3 DEF Release, Call
  <2>3. Local(t)'
    BY <2>1, <2>2
  <2>4. ASSUME NEW u \in Threads, u # t PROVE Local(u)'
    BY <2>1, <2>4
  <2> QED
    BY <2>3, <2>4
<1>4. CASE AllocCreate(t) \/ AllocInsert(t)
  BY <1>4 DEF AllocCreate, AllocInsert, Goto
<1>5. CASE AllocCreateFails(t)
  BY <1>5 DEF AllocCreateFails, Return
<1>6. CASE AllocPublish(t)
  BY <1>6 DEF AllocPublish, Return
<1>7. CASE RetainIncr(t)
  BY <1>7 DEF RetainIncr, Return
<1>8. CASE ReplaceSwap(t)
  <2>1. /\ cur[t] \in Objects /\ obj[cur[t]] = "live" /\ dst[t] \in Slots /\ src[t] \in Slots
        /\ ref[src[t]] = cur[t]
        /\ UNCHANGED <<obj, seen>>
        /\ refcount' = [refcount EXCEPT ![cur[t]] = @ + 1]
        /\ ref' = [ref EXCEPT ![dst[t]] = cur[t], ![t] = ref[dst[t]]]
        /\ pc' = [pc EXCEPT ![t] = IF ref[dst[t]] = NoObj THEN "idle" ELSE "check"]
        /\ cur' = [cur EXCEPT ![t] = ref[dst[t]]]
        /\ dst' = [dst EXCEPT ![t] = IF ref[dst[t]] = NoObj THEN NoSlot ELSE t]
        /\ src' = [src EXCEPT ![t] = NoSlot]
    BY <1>8 DEF ReplaceSwap
  <2>2. dst[t] # t /\ t \in References
    BY <2>1
  <2>3. ref[dst[t]] # NoObj => ref[dst[t]] \in Objects /\ obj[ref[dst[t]]] = "live"
    BY <2>1, <1>8 DEF ReplaceSwap, NoDangling
  <2>4. Local(t)'
    <3>1. CASE ref[dst[t]] = NoObj
      BY <2>1, <2>2, <3>1
    <3>2. CASE ref[dst[t]] # NoObj
      BY <2>1, <2>2, <2>3, <3>2
    <3> QED
      BY <3>1, <3>2
  <2>5. ASSUME NEW u \in Threads, u # t PROVE Local(u)'
    <3>1. pc'[u] = pc[u] /\ cur'[u] = cur[u] /\ dst'[u] = dst[u] /\ src'[u] = src[u]
      BY <2>1, <2>5
    <3>2. \A r \in References : r # dst[t] /\ r # t => ref'[r] = ref[r]
      BY <2>1
    <3>3. \A o \in Objects : o # cur[t] => refcount'[o] = refcount[o]
      BY <2>1
    <3>4. pc[u] \in Allocating \cup Finalizing => cur[u] # cur[t]
      BY <2>1
    <3> QED
      BY <2>1, <2>5, <3>1, <3>2, <3>3, <3>4
  <2> QED
    BY <2>4, <2>5
<1>9. CASE ReleaseCheck(t)
  BY <1>9 DEF ReleaseCheck, Goto, Return
<1>10. CASE ReleaseFetch(t) \/ ReleaseRetry(t)
  BY <1>10 DEF ReleaseFetch, ReleaseRetry, Goto, shared
<1>11. CASE ReleaseCas(t)
  BY <1>11 DEF ReleaseCas, Goto, Return
<1>12. CASE Kill(t)
  BY <1>12 DEF Kill, Goto
<1>13. CASE RemoveLookup(t) \/ RemoveUnlink(t) \/ RemoveBucketCheck(t) \/ RemoveBucketFree(t)
  BY <1>13 DEF RemoveLookup, RemoveUnlink, RemoveBucketCheck, RemoveBucketFree,
     Goto, Return, shared
<1>14. CASE RemoveDestroy(t)
  BY <1>14 DEF RemoveDestroy, Goto
<1> QED
  BY <1>1, <1>2, <1>3, <1>4, <1>5, <1>6, <1>7, <1>8, <1>9, <1>10, <1>11, <1>12,
     <1>13, <1>14 DEF Operation

-----------------------------------------------------------------------------
(* No reference, no object and no thread exists at the start. *)
LEMMA InitIInv == Init => IInv
<1> SUFFICES ASSUME Init PROVE IInv
  OBVIOUS
<1> USE RefcountAssumption DEF Init
<1>1. TypeOK
  BY DEF TypeOK, ObjStates, PCs
<1>2. CountMatches
  <2>1. \A o \in Objects : Owners(o) = {}
    BY DEF Owners
  <2> QED
    BY <2>1, FS_EmptySet DEF CountMatches
<1>3. NoDangling /\ FinalizedOnce /\ Exclusive /\ LifeInv
  BY DEF NoDangling, FinalizedOnce, Finalizing, Exclusive, LifeInv, References
<1>4. LocalInv
  BY DEF LocalInv, Local, Allocating, Releasing, Finalizing, References
<1>5. BornInv
  BY DEF BornInv, References
<1> QED
  BY <1>1, <1>2, <1>3, <1>4, <1>5 DEF IInv

(* A step that changes nothing keeps the invariant. *)
LEMMA StutterIInv == IInv /\ UNCHANGED vars => IInv'
BY DEF IInv, vars, TypeOK, CountMatches, Owners, NoDangling, FinalizedOnce, LocalInv, Local,
   Exclusive, BornInv, LifeInv

(* The inductive invariant holds in every state, whatever the threads do   *)
(* (sccp_refcount.c:277-338, 446-500, 754-860).                            *)
THEOREM Inductive == Spec => []IInv
<1>1. IInv /\ [Next]_vars => IInv'
  <2>1. ASSUME IInv, NEW t \in Threads, Operation(t) PROVE IInv'
    BY <2>1, TypeStep, CountStep, DanglingStep, FinalizeStep, LocalStep, ExclusiveStep,
       BornStep, LifeStep DEF IInv
  <2> QED
    BY <2>1, StutterIInv DEF Next
<1> QED
  BY InitIInv, <1>1, PTL DEF Spec

(* A count is the number of slots that own a reference, for any number of  *)
(* threads retaining, replacing and releasing (sccp_refcount.c:754-860).   *)
THEOREM CountsExact == Spec => []CountMatches
<1>1. IInv => CountMatches
  BY DEF IInv
<1> QED
  BY Inductive, <1>1, PTL

(* No one ever owns a reference to a dead or freed object.                 *)
(* (sccp_refcount.c:807-830, 473-487)                                      *)
THEOREM ReferencesLive == Spec => []NoDangling
<1>1. IInv => NoDangling
  BY DEF IInv
<1> QED
  BY Inductive, <1>1, PTL

(* Destructors run at most once at a time (sccp_refcount.c:815-823).       *)
THEOREM NoDoubleFinalize == Spec => []FinalizedOnce
<1>1. IInv => FinalizedOnce
  BY DEF IInv
<1> QED
  BY Inductive, <1>1, PTL

(* A dead object stays without references (sccp_refcount.c:422-444).       *)
THEOREM DeadStaysDead == Spec => NoResurrection
<1>1. IInv /\ IInv' /\ [Next]_vars =>
        [\A o \in Objects : obj[o] \in {"dead", "freed"} => Owners(o)' = {}]_vars
  <2> SUFFICES ASSUME IInv, IInv', NEW t \in Threads, Operation(t),
                      NEW o \in Objects, obj[o] \in {"dead", "freed"}
               PROVE  Owners(o)' = {}
    BY DEF Next
  <2>1. obj'[o] \in {"dead", "freed"}
    BY DEF Operation, Alloc, AllocCreate, AllocCreateFails, AllocInsert, AllocPublish, Retain,
       RetainIncr, Replace, ReplaceSwap, Release, ReleaseCheck, ReleaseFetch, ReleaseRetry,
       ReleaseCas, Kill, RemoveLookup, RemoveUnlink, RemoveDestroy, RemoveBucketCheck,
       RemoveBucketFree, shared, IInv, TypeOK, LocalInv, Local, Allocating, Finalizing
  <2>2. \A r \in References : ref'[r] # o
    BY <2>1, RefcountAssumption DEF IInv, NoDangling
  <2> QED
    BY <2>2 DEF Owners
<1> QED
  BY Inductive, <1>1, PTL DEF Spec, NoResurrection
=============================================================================
