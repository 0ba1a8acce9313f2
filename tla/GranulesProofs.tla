---------------------------- MODULE GranulesProofs ----------------------------
(***************************************************************************)
(* The safety of the granule registry, for every finite set of grants and  *)
(* of heap addresses, every set of indices and every batch size.           *)
(*                                                                         *)
(* The properties of Granules are not inductive: that a shared granule is  *)
(* not retired rests on its user count, the count on who owns it, and the  *)
(* exclusive claim on which put call is still retiring what.  Inv below    *)
(* ties the heap, the registry, the claims and the callers together.       *)
(***************************************************************************)
EXTENDS Granules, FiniteSetTheorems, TLAPS

Owners(g) == {c \in Grant : g \in owned[c]}

\* A grant is not acquiring what it owns already; an idle one owns nothing.
WantFresh ==
  \A c \in Grant :
    /\ pc[c] = "idle" => owned[c] = {}
    /\ \A g \in owned[c] : index[g] \notin want[c]

\* What the registry holds is mapped and has a user.
RegisteredUsable ==
  \A i \in Index : registry[i] # NoGranule =>
    /\ registry[i] \in live
    /\ index[registry[i]] = i
    /\ work[registry[i]] = "init"
    /\ users[registry[i]] # 0

\* What a grant owns is registered.
OwnedRegistered == \A c \in Grant : \A g \in owned[c] : registry[index[g]] = g

\* What a put call has detached is live, has no user, is out of the registry
\* and belongs to that call alone.
DetachedPrivate ==
  \A c \in Grant : \A g \in detached[c] :
    /\ g \in live
    /\ users[g] = 0
    /\ registry[index[g]] # g
    /\ pc[c] \in {"queue", "join"}
    /\ pc[c] = "queue" => work[g] = "init"
    /\ pc[c] = "join" => work[g] # "init"
    /\ \A d \in Grant : g \in detached[d] => d = c

\* A pending callback has a caller waiting to join it.
PendingDetached ==
  \A g \in Granule : work[g] \in Pending => \E c \in Grant : g \in detached[c]

\* A granule that is not fully retired holds its claim, alone.
ClaimHeld == \A g \in live : work[g] # "done" => index[g] \in claimed

ClaimUnique ==
  \A g, h \in live : work[g] # "done" /\ work[h] # "done" /\ index[g] = index[h] => g = h

\* A claim belongs to a granule.
ClaimUsed ==
  \A i \in claimed : \E g \in live : index[g] = i /\ work[g] # "done"

\* A live granule is registered or detached.
LiveAccounted ==
  \A g \in live : registry[index[g]] = g \/ \E c \in Grant : g \in detached[c]

UsersCounted == \A g \in live : users[g] = Cardinality(Owners(g))

\* A referenced page is mapped.
PinsMapped ==
  \A c \in Grant : \A i \in pins[c] :
    \E g \in live : index[g] = i /\ work[g] \in {"init", "queued", "running"}

Inv ==
  /\ TypeOK
  /\ WantFresh
  /\ RegisteredUsable
  /\ OwnedRegistered
  /\ DetachedPrivate
  /\ PendingDetached
  /\ ClaimHeld
  /\ ClaimUnique
  /\ ClaimUsed
  /\ LiveAccounted
  /\ UsersCounted
  /\ PinsMapped

-----------------------------------------------------------------------------
(* User counts are cardinalities of finite sets of grants.                 *)

\* The owners of a granule are finitely many.
LEMMA OwnersFinite ==
  ASSUME NEW g \in Granule
  PROVE  IsFiniteSet(Owners(g)) /\ Cardinality(Owners(g)) \in Nat
  BY GrantFinite, FS_Subset, FS_CardinalityType DEF Owners

\* A counted owner can leave: the count drops by one.
LEMMA OwnerLeaves ==
  ASSUME NEW S, IsFiniteSet(S), NEW c \in S
  PROVE  /\ Cardinality(S) # 0
         /\ Cardinality(S \ {c}) = Cardinality(S) - 1
         /\ Cardinality(S) = 1 => S = {c}
<1>1. IsFiniteSet(S \ {c}) /\ Cardinality(S \ {c}) = Cardinality(S) - 1
  BY FS_RemoveElement
<1>2. Cardinality(S) # 0
  BY FS_EmptySet
<1>3. ASSUME Cardinality(S) = 1 PROVE S = {c}
  <2>1. Cardinality(S \ {c}) = 0
    BY <1>1, <1>3
  <2>2. S \ {c} = {}
    BY <2>1, <1>1, FS_EmptySet
  <2>. QED BY <2>2
<1>. QED BY <1>1, <1>2, <1>3

-----------------------------------------------------------------------------
(* Each step preserves Inv.                                                *)

\* Steps that only move a caller: starting an admission or a teardown, turning
\* to the rollback, publishing, going to the next batch, returning.
LEMMA ControlStep ==
  ASSUME Inv, NEW c \in Grant,
         \/ Prepare(c) \/ Publish(c) \/ Unprepare(c) \/ EndBatch(c) \/ Return(c)
         \/ \E i \in Index : GetFails(c, i)
  PROVE  Inv'
<1>. USE DEF Inv, heap
<1>1. UNCHANGED <<owned, detached, registry, claimed, heap, pins>>
  BY DEF Prepare, Publish, Unprepare, EndBatch, Return, GetFails
<1>2. TypeOK'
  BY DEF TypeOK, PcState, Prepare, Publish, Unprepare, EndBatch, Return, GetFails
<1>3. WantFresh'
  BY DEF TypeOK, WantFresh, Prepare, Publish, Unprepare, EndBatch, Return,
         GetFails
<1>4. DetachedPrivate'
  BY DEF TypeOK, DetachedPrivate, Prepare, Publish, Unprepare, EndBatch, Return,
         GetFails
<1>5. (RegisteredUsable /\ OwnedRegistered /\ PendingDetached /\ LiveAccounted
       /\ UsersCounted)'
  BY <1>1 DEF RegisteredUsable, OwnedRegistered, PendingDetached, LiveAccounted,
              UsersCounted, Owners
<1>6. (ClaimHeld /\ ClaimUnique /\ ClaimUsed /\ PinsMapped)'
  BY <1>1 DEF ClaimHeld, ClaimUnique, ClaimUsed, PinsMapped
<1>. QED BY <1>2, <1>3, <1>4, <1>5, <1>6

\* The new user of a shared granule was not one of its owners.
LEMMA GetSharedStep ==
  ASSUME Inv, NEW c \in Grant, NEW i \in Index, GetShared(c, i)
  PROVE  Inv'
<1>. USE NoGranuleFresh DEF Inv, TypeOK, heap, Pending, GetShared, Acquire
<1>1. TypeOK'
  BY DEF PcState, WorkState
<1>2. UsersCounted'
  <2>. DEFINE r == registry[i]
  <2>1. r \in live /\ r \in Granule /\ index[r] = i
    BY DEF RegisteredUsable
  <2>2. c \notin Owners(r) /\ (Owners(r))' = Owners(r) \cup {c}
    BY <2>1 DEF Owners, WantFresh
  <2>3. Cardinality(Owners(r) \cup {c}) = Cardinality(Owners(r)) + 1
    BY <2>1, <2>2, OwnersFinite, FS_AddElement
  <2>4. users'[r] = Cardinality((Owners(r))')
    BY <2>1, <2>2, <2>3 DEF UsersCounted
  <2>5. ASSUME NEW g \in live, g # r
        PROVE  (Owners(g))' = Owners(g) /\ users'[g] = users[g]
    BY <2>5, <2>1 DEF Owners
  <2>. QED BY <2>1, <2>4, <2>5 DEF UsersCounted
<1>3. (WantFresh /\ RegisteredUsable /\ OwnedRegistered
       /\ DetachedPrivate /\ PendingDetached /\ LiveAccounted)'
  BY DEF WantFresh, RegisteredUsable, OwnedRegistered, DetachedPrivate,
         PendingDetached, LiveAccounted
<1>4. (ClaimHeld /\ ClaimUnique /\ ClaimUsed
       /\ PinsMapped)'
  BY DEF RegisteredUsable, OwnedRegistered, DetachedPrivate, PendingDetached,
         ClaimHeld, ClaimUnique, ClaimUsed, LiveAccounted, PinsMapped
<1>. QED BY <1>1, <1>2, <1>3, <1>4

\* A free claim means no unretired granule of the index exists.
LEMMA GetNewStep ==
  ASSUME Inv, NEW c \in Grant, NEW i \in Index, GetNew(c, i)
  PROVE  Inv'
<1>. USE NoGranuleFresh DEF Inv, TypeOK, heap, Pending, GetNew, Acquire, Claimable
<1>1. TypeOK'
  BY DEF PcState, WorkState
<1>2. UsersCounted'
  <2>1. PICK n \in Granule \ live :
          /\ live' = live \cup {n}
          /\ users' = [users EXCEPT ![n] = 1]
          /\ owned' = [owned EXCEPT ![c] = @ \cup {n}]
    OBVIOUS
  <2>2. Owners(n) = {}
    BY DEF Owners, OwnedRegistered, RegisteredUsable
  <2>3. (Owners(n))' = {c}
    BY <2>1, <2>2 DEF Owners
  <2>4. users'[n] = Cardinality((Owners(n))')
    BY <2>1, <2>3, FS_Singleton
  <2>5. ASSUME NEW g \in live
        PROVE  (Owners(g))' = Owners(g) /\ users'[g] = users[g]
    BY <2>1 DEF Owners
  <2>. QED BY <2>1, <2>4, <2>5 DEF UsersCounted
<1>3. (WantFresh /\ RegisteredUsable /\ OwnedRegistered
       /\ DetachedPrivate /\ PendingDetached /\ LiveAccounted)'
  BY DEF WantFresh, RegisteredUsable, OwnedRegistered, DetachedPrivate,
         PendingDetached, LiveAccounted
<1>4. (ClaimHeld /\ ClaimUnique /\ ClaimUsed
       /\ PinsMapped)'
  BY DEF RegisteredUsable, OwnedRegistered, DetachedPrivate, PendingDetached,
         ClaimHeld, ClaimUnique, ClaimUsed, LiveAccounted, PinsMapped
<1>. QED BY <1>1, <1>2, <1>3, <1>4

\* A final user is the only owner, so nobody loses a granule it uses.
LEMMA DetachStep ==
  ASSUME Inv, NEW c \in Grant, Detach(c)
  PROVE  Inv'
<1>. USE NoGranuleFresh DEF Inv, TypeOK
<1>. PICK B \in SUBSET owned[c] :
       /\ users' = [g \in Granule |-> IF g \in B THEN users[g] - 1 ELSE users[g]]
       /\ registry' = [i \in Index |-> IF registry[i] \in FinalUsers(B)
                                       THEN NoGranule ELSE registry[i]]
       /\ detached' = [detached EXCEPT ![c] = FinalUsers(B)]
       /\ owned' = [owned EXCEPT ![c] = @ \ B]
  BY DEF Detach
<1>. pc[c] = "put" /\ pc' = [pc EXCEPT ![c] = "queue"]
     /\ UNCHANGED <<want, claimed, live, index, work, pins>>
  BY DEF Detach
<1>a. ASSUME NEW g \in B
      PROVE  /\ g \in live /\ c \in Owners(g)
             /\ IsFiniteSet(Owners(g)) /\ users[g] = Cardinality(Owners(g))
  BY OwnersFinite DEF OwnedRegistered, RegisteredUsable, Owners, UsersCounted
<1>b. ASSUME NEW g \in B
      PROVE  /\ users[g] # 0
             /\ Cardinality(Owners(g) \ {c}) = users[g] - 1
             /\ users[g] = 1 => Owners(g) = {c}
  BY <1>a, OwnerLeaves
<1>c. \A g \in FinalUsers(B) : g \in B /\ \A d \in Grant : g \in owned[d] => d = c
  BY <1>b DEF FinalUsers, Owners
<1>1. TypeOK'
  <2>1. B \subseteq Granule
    OBVIOUS
  <2>2. \A g \in B : users[g] \in Nat /\ users[g] # 0
    BY <2>1, <1>b
  <2>3. users' \in [Granule -> Nat]
    BY <2>2
  <2>4. FinalUsers(B) \in SUBSET Granule
    BY <2>1 DEF FinalUsers
  <2>. QED BY <2>3, <2>4 DEF PcState
<1>2. UsersCounted'
  <2>1. ASSUME NEW g \in B PROVE (Owners(g))' = Owners(g) \ {c}
    BY DEF Owners
  <2>2. ASSUME NEW g \in live \ B PROVE (Owners(g))' = Owners(g)
    BY DEF Owners
  <2>. QED BY <1>b, <2>1, <2>2 DEF UsersCounted
<1>3. (WantFresh /\ RegisteredUsable /\ OwnedRegistered
       /\ DetachedPrivate /\ PendingDetached /\ LiveAccounted)'
  <2>. USE DEF FinalUsers
  <2>1. WantFresh' /\ RegisteredUsable'
    BY <1>b DEF WantFresh, RegisteredUsable
  <2>2. OwnedRegistered'
    BY <1>c DEF OwnedRegistered
  <2>3. DetachedPrivate'
    BY <1>b, <1>c DEF DetachedPrivate, OwnedRegistered, RegisteredUsable
  <2>4. PendingDetached' /\ LiveAccounted'
    BY DEF PendingDetached, LiveAccounted, DetachedPrivate
  <2>. QED BY <2>1, <2>2, <2>3, <2>4
<1>4. (ClaimHeld /\ ClaimUnique /\ ClaimUsed /\ PinsMapped)'
  BY DEF ClaimHeld, ClaimUnique, ClaimUsed, PinsMapped
<1>. QED BY <1>1, <1>2, <1>3, <1>4

\* Queueing moves only granules this caller detached.
LEMMA QueueStep ==
  ASSUME Inv, NEW c \in Grant, Queue(c)
  PROVE  Inv'
<1>. USE NoGranuleFresh DEF Inv, TypeOK, heap, Pending, Queue
<1>1. TypeOK'
  BY DEF PcState, WorkState
<1>2. UsersCounted'
  BY DEF UsersCounted, Owners, DetachedPrivate
<1>3. (WantFresh /\ RegisteredUsable /\ OwnedRegistered
       /\ DetachedPrivate /\ PendingDetached /\ LiveAccounted)'
  BY DEF WantFresh, RegisteredUsable, OwnedRegistered, DetachedPrivate,
         PendingDetached, LiveAccounted
<1>4. (ClaimHeld /\ ClaimUnique /\ ClaimUsed
       /\ PinsMapped)'
  BY DEF RegisteredUsable, OwnedRegistered, DetachedPrivate, PendingDetached,
         ClaimHeld, ClaimUnique, ClaimUsed, LiveAccounted, PinsMapped
<1>. QED BY <1>1, <1>2, <1>3, <1>4

\* A joined granule is fully retired, so freeing it loses no claim.
LEMMA JoinStep ==
  ASSUME Inv, NEW c \in Grant, NEW g \in Granule, Join(c, g)
  PROVE  Inv'
<1>. USE NoGranuleFresh DEF Inv, TypeOK, heap, Pending, Join, Flushed
<1>0. work[g] = "done"
  BY DEF WorkState, DetachedPrivate
<1>1. TypeOK'
  BY DEF PcState, WorkState
<1>2. UsersCounted'
  BY DEF UsersCounted, Owners, DetachedPrivate
<1>3. (WantFresh /\ RegisteredUsable /\ OwnedRegistered
       /\ DetachedPrivate /\ PendingDetached /\ LiveAccounted)'
  BY DEF WantFresh, RegisteredUsable, OwnedRegistered, DetachedPrivate,
         PendingDetached, LiveAccounted
<1>4. (ClaimHeld /\ ClaimUnique /\ ClaimUsed
       /\ PinsMapped)'
  BY <1>0 DEF RegisteredUsable, OwnedRegistered, DetachedPrivate, PendingDetached,
         ClaimHeld, ClaimUnique, ClaimUsed, LiveAccounted, PinsMapped
<1>. QED BY <1>1, <1>2, <1>3, <1>4

\* A callback starts on a detached granule.
LEMMA WorkStartStep ==
  ASSUME Inv, NEW g \in Granule, WorkStart(g)
  PROVE  Inv'
<1>. USE NoGranuleFresh DEF Inv, TypeOK, heap, Pending, WorkStart
<1>1. TypeOK'
  BY DEF PcState, WorkState
<1>2. UsersCounted'
  BY DEF UsersCounted, Owners, DetachedPrivate
<1>3. (WantFresh /\ RegisteredUsable /\ OwnedRegistered
       /\ DetachedPrivate /\ PendingDetached /\ LiveAccounted)'
  BY DEF WantFresh, RegisteredUsable, OwnedRegistered, DetachedPrivate,
         PendingDetached, LiveAccounted
<1>4. (ClaimHeld /\ ClaimUnique /\ ClaimUsed
       /\ PinsMapped)'
  BY DEF RegisteredUsable, OwnedRegistered, DetachedPrivate, PendingDetached,
         ClaimHeld, ClaimUnique, ClaimUsed, LiveAccounted, PinsMapped
<1>. QED BY <1>1, <1>2, <1>3, <1>4

\* Unmapping waits for every reference to the index.
LEMMA WorkUnmapStep ==
  ASSUME Inv, NEW g \in Granule, WorkUnmap(g)
  PROVE  Inv'
<1>. USE NoGranuleFresh DEF Inv, TypeOK, heap, Pending, WorkUnmap
<1>1. TypeOK'
  BY DEF PcState, WorkState
<1>2. UsersCounted'
  BY DEF UsersCounted, Owners, DetachedPrivate
<1>3. (WantFresh /\ RegisteredUsable /\ OwnedRegistered
       /\ DetachedPrivate /\ PendingDetached /\ LiveAccounted)'
  BY DEF WantFresh, RegisteredUsable, OwnedRegistered, DetachedPrivate,
         PendingDetached, LiveAccounted
<1>4. (ClaimHeld /\ ClaimUnique /\ ClaimUsed
       /\ PinsMapped)'
  BY DEF RegisteredUsable, OwnedRegistered, DetachedPrivate, PendingDetached,
         ClaimHeld, ClaimUnique, ClaimUsed, LiveAccounted, PinsMapped
<1>. QED BY <1>1, <1>2, <1>3, <1>4

\* The released claim was the only one of its index.
LEMMA WorkReleaseStep ==
  ASSUME Inv, NEW g \in Granule, WorkRelease(g)
  PROVE  Inv'
<1>. USE NoGranuleFresh DEF Inv, TypeOK, heap, Pending, WorkRelease
<1>1. TypeOK'
  BY DEF PcState, WorkState
<1>2. UsersCounted'
  BY DEF UsersCounted, Owners, DetachedPrivate
<1>3. (WantFresh /\ RegisteredUsable /\ OwnedRegistered
       /\ DetachedPrivate /\ PendingDetached /\ LiveAccounted)'
  BY DEF WantFresh, RegisteredUsable, OwnedRegistered, DetachedPrivate,
         PendingDetached, LiveAccounted
<1>4. (ClaimHeld /\ ClaimUnique /\ ClaimUsed
       /\ PinsMapped)'
  BY DEF RegisteredUsable, OwnedRegistered, DetachedPrivate, PendingDetached,
         ClaimHeld, ClaimUnique, ClaimUsed, LiveAccounted, PinsMapped
<1>. QED BY <1>1, <1>2, <1>3, <1>4

\* A reference is taken on a registered granule.
LEMMA PinStep ==
  ASSUME Inv, NEW c \in Grant, NEW i \in Index, Pin(c, i)
  PROVE  Inv'
<1>. USE NoGranuleFresh DEF Inv, TypeOK, heap, Pending, Pin
<1>1. TypeOK'
  BY DEF PcState, WorkState
<1>2. UsersCounted'
  BY DEF UsersCounted, Owners, DetachedPrivate
<1>3. (WantFresh /\ RegisteredUsable /\ OwnedRegistered
       /\ DetachedPrivate /\ PendingDetached /\ LiveAccounted)'
  BY DEF WantFresh, RegisteredUsable, OwnedRegistered, DetachedPrivate,
         PendingDetached, LiveAccounted
<1>4. (ClaimHeld /\ ClaimUnique /\ ClaimUsed
       /\ PinsMapped)'
  BY DEF RegisteredUsable, OwnedRegistered, DetachedPrivate, PendingDetached,
         ClaimHeld, ClaimUnique, ClaimUsed, LiveAccounted, PinsMapped
<1>. QED BY <1>1, <1>2, <1>3, <1>4

\* Dropping a reference needs no mapping.
LEMMA UnpinStep ==
  ASSUME Inv, NEW c \in Grant, NEW i \in Index, Unpin(c, i)
  PROVE  Inv'
<1>. USE NoGranuleFresh DEF Inv, TypeOK, heap, Pending, Unpin
<1>1. TypeOK'
  BY DEF PcState, WorkState
<1>2. UsersCounted'
  BY DEF UsersCounted, Owners, DetachedPrivate
<1>3. (WantFresh /\ RegisteredUsable /\ OwnedRegistered
       /\ DetachedPrivate /\ PendingDetached /\ LiveAccounted)'
  BY DEF WantFresh, RegisteredUsable, OwnedRegistered, DetachedPrivate,
         PendingDetached, LiveAccounted
<1>4. (ClaimHeld /\ ClaimUnique /\ ClaimUsed
       /\ PinsMapped)'
  BY DEF RegisteredUsable, OwnedRegistered, DetachedPrivate, PendingDetached,
         ClaimHeld, ClaimUnique, ClaimUsed, LiveAccounted, PinsMapped
<1>. QED BY <1>1, <1>2, <1>3, <1>4

-----------------------------------------------------------------------------
(* The theorems.                                                           *)

\* An empty registry satisfies Inv.
LEMMA InitInv == Init => Inv
  BY NoGranuleFresh, FS_EmptySet
  DEF Init, Inv, TypeOK, WantFresh, RegisteredUsable, OwnedRegistered,
         DetachedPrivate, PendingDetached, ClaimHeld, ClaimUnique, ClaimUsed,
         LiveAccounted, UsersCounted, PinsMapped, PcState, WorkState, Pending,
         Owners

\* Every step of every caller and callback preserves Inv.
LEMMA NextInv == Inv /\ [Next]_vars => Inv'
<1>. SUFFICES ASSUME Inv, [Next]_vars PROVE Inv'
  OBVIOUS
<1>1. ASSUME NEW c \in Grant, Prepare(c) \/ Publish(c) \/ Unprepare(c) PROVE Inv'
  BY <1>1, ControlStep
<1>2. ASSUME NEW c \in Grant, Get(c) PROVE Inv'
  BY <1>2, GetSharedStep, GetNewStep, ControlStep DEF Get
<1>3. ASSUME NEW c \in Grant, Put(c) PROVE Inv'
  BY <1>3, DetachStep, QueueStep, ControlStep, JoinStep DEF Put
<1>4. ASSUME NEW g \in Granule, Worker(g) PROVE Inv'
  BY <1>4, WorkStartStep, WorkUnmapStep, WorkReleaseStep DEF Worker
<1>5. ASSUME NEW c \in Grant, NEW i \in Index, Pin(c, i) \/ Unpin(c, i) PROVE Inv'
  BY <1>5, PinStep, UnpinStep
<1>6. CASE UNCHANGED vars
  BY <1>6 DEF vars, heap, Inv, TypeOK, WantFresh, RegisteredUsable,
         OwnedRegistered, DetachedPrivate, PendingDetached, ClaimHeld,
         ClaimUnique, ClaimUsed, LiveAccounted, UsersCounted, PinsMapped, Owners
<1>. QED BY <1>1, <1>2, <1>3, <1>4, <1>5, <1>6 DEF Next

\* Inv holds in every reachable state.
THEOREM Invariance == Spec => []Inv
  BY InitInv, NextInv, PTL DEF Spec

\* The registry, its user counts and the retirement steps are well typed; in
\* particular users never drops below zero.
THEOREM TypeCorrect == Spec => []TypeOK
<1>1. Inv => TypeOK
  BY DEF Inv
<1>. QED BY <1>1, Invariance, PTL

\* What a grant holds is live, registered and not being retired, whatever other
\* grants release at the same time (hyper_granules_put detaches final users only).
THEOREM OwnedUsable == Spec => []OwnedStaysUsable
<1>1. Inv => OwnedStaysUsable
  BY NoGranuleFresh DEF Inv, TypeOK, OwnedStaysUsable, OwnedRegistered,
         RegisteredUsable
<1>. QED BY <1>1, Invariance, PTL

\* users is the number of grants that hold the granule, and a granule with no
\* user is about to be retired by exactly the put call that detached it.
THEOREM UsersCorrect == Spec => []UsersAccounted
<1>1. Inv => UsersAccounted
  BY NoGranuleFresh DEF Inv, TypeOK, UsersAccounted, UsersCounted, LiveAccounted,
         RegisteredUsable, Owners
<1>. QED BY <1>1, Invariance, PTL

\* At most one granule of an index is between request_mem_region and
\* release_mem_region.
THEOREM ClaimExclusive == Spec => []ExclusiveClaim
<1>1. Inv => ExclusiveClaim
  BY DEF Inv, ExclusiveClaim, ClaimUnique
<1>. QED BY <1>1, Invariance, PTL

\* Claims are held exactly by the granules that are not fully retired.
THEOREM ClaimsCorrect == Spec => []ClaimAccounted
<1>1. Inv => ClaimAccounted
  BY DEF Inv, TypeOK, ClaimAccounted, ClaimHeld, ClaimUsed
<1>. QED BY <1>1, Invariance, PTL

\* A callback never runs on a freed granule.
THEOREM CallbackSafe == Spec => []NoUseAfterFree
<1>1. Inv => NoUseAfterFree
  BY DEF Inv, NoUseAfterFree, PendingDetached, DetachedPrivate
<1>. QED BY <1>1, Invariance, PTL

\* A page that is referenced is mapped.
THEOREM PinsSafe == Spec => []PinnedStaysMapped
<1>1. Inv => PinnedStaysMapped
  BY DEF Inv, TypeOK, PinnedStaysMapped, PinsMapped, Mapped
<1>. QED BY <1>1, Invariance, PTL
=============================================================================
