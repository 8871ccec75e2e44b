--------------------------- MODULE EventBusProofs ---------------------------
(***************************************************************************)
(* Proofs about EventBus, for every set of hooks and extensions and every  *)
(* bound: type correctness, that no dispatch ever indexes out of the       *)
(* vector it walks whatever its callbacks do, that the value of a filter   *)
(* chain has been through the surviving links, and that the bus implements *)
(* EventDelivery.                                                          *)
(***************************************************************************)
EXTENDS EventBus, SequenceTheorems, FiniteSetTheorems, TLAPS

LEMMA TopType ==
  ASSUME stack \in Seq(Frames), stack # <<>>
  PROVE  /\ Len(stack) \in Nat \ {0}
         /\ Len(stack) \in 1 .. Len(stack)
         /\ Top \in Frames
  BY EmptySeq, LenProperties, ElementOfSeq DEF Top

LEMMA SetTopType ==
  ASSUME stack \in Seq(Frames), stack # <<>>, NEW f \in Frames,
         stack' = [stack EXCEPT ![Len(stack)] = f]
  PROVE  /\ stack' \in Seq(Frames)
         /\ Len(stack') = Len(stack)
         /\ \A k \in 1 .. Len(stack) : stack'[k] = IF k = Len(stack) THEN f ELSE stack[k]
  BY TopType, ExceptSeq

LEMMA PrefixType ==
  ASSUME NEW S, NEW s \in Seq(S), NEW n \in 0 .. Len(s)
  PROVE  /\ SubSeq(s, 1, n) \in Seq(S)
         /\ Len(SubSeq(s, 1, n)) = n
         /\ \A k \in 1 .. n : SubSeq(s, 1, n)[k] = s[k]
  <1>1. Len(s) \in Nat /\ n \in Int /\ 1 \in Int
    BY LenProperties
  <1>2. \A i \in 1 .. n : s[i] \in S
    BY <1>1, ElementOfSeq
  <1>3. /\ SubSeq(s, 1, n) \in Seq(S)
        /\ Len(SubSeq(s, 1, n)) = (IF 1 <= n THEN n - 1 + 1 ELSE 0)
        /\ \A k \in 1 .. n - 1 + 1 : SubSeq(s, 1, n)[k] = s[1 + k - 1]
    BY <1>1, <1>2, SubSeqProperties
  <1>4. \A k \in 1 .. n : 1 + k - 1 = k /\ k \in 1 .. n - 1 + 1
    BY <1>1
  <1>5. (IF 1 <= n THEN n - 1 + 1 ELSE 0) = n
    BY <1>1
  <1> QED BY <1>3, <1>4, <1>5

LEMMA BelowType ==
  ASSUME stack \in Seq(Frames), stack # <<>>
  PROVE  /\ Below \in Seq(Frames)
         /\ Len(Below) = Len(stack) - 1
         /\ \A k \in 1 .. Len(stack) - 1 : Below[k] = stack[k]
  <1>1. Len(stack) - 1 \in 0 .. Len(stack)
    BY TopType
  <1> QED BY <1>1, PrefixType DEF Below

LEMMA PushType ==
  ASSUME stack \in Seq(Frames), NEW f \in Frames, stack' = Append(stack, f)
  PROVE  /\ stack' \in Seq(Frames)
         /\ Len(stack) \in Nat
         /\ Len(stack') = Len(stack) + 1
         /\ stack'[Len(stack) + 1] = f
         /\ \A k \in 1 .. Len(stack) : stack'[k] = stack[k]
  BY AppendProperties, LenProperties

\* The inductive invariant: the types, and what keeps indices and depths right.
TombsAreSlots == \A h \in Hooks : tombs[h] \subseteq slots[h]
SlotsAreOld == \A h \in Hooks : \A t \in slots[h] : t <= next_token[h]
BusInv ==
  /\ TypeOK
  /\ TombsAreSlots
  /\ SlotsAreOld
  /\ DepthCountsDispatches
  /\ IndexStable
  /\ IdleHookIsSwept

-----------------------------------------------------------------------------
\* Vectors are finite, and ranks are counts of their tokens.
LEMMA SlotsFinite ==
  ASSUME TypeOK, NEW h \in Hooks
  PROVE  IsFiniteSet(slots[h]) /\ Cardinality(slots[h]) \in Nat
  <1>1. IsFiniteSet(Tokens)
    BY ConstantsAssumption, FS_Interval DEF Tokens
  <1>2. slots[h] \in SUBSET Tokens
    BY DEF TypeOK
  <1> QED BY <1>1, <1>2, FS_Subset, FS_CardinalityType

LEMMA FramesFinite ==
  ASSUME TypeOK, NEW h
  PROVE  /\ IsFiniteSet(FramesOf(h))
         /\ Cardinality(FramesOf(h)) \in Nat
         /\ Cardinality(FramesOf(h)) = 0 <=> FramesOf(h) = {}
  <1>1. Len(stack) \in Nat
    BY LenProperties DEF TypeOK
  <1>2. IsFiniteSet(1 .. Len(stack))
    BY <1>1, FS_Interval
  <1>3. FramesOf(h) \in SUBSET (1 .. Len(stack))
    BY DEF FramesOf
  <1> QED BY <1>2, <1>3, FS_Subset, FS_CardinalityType, FS_EmptySet

\* A hook with a dispatch in flight has a positive depth.
LEMMA BusyIsDeep ==
  ASSUME TypeOK, DepthCountsDispatches, NEW k \in 1 .. Len(stack)
  PROVE  stack[k].hook \in Hooks /\ depth[stack[k].hook] # 0
  <1>1. stack[k] \in Frames
    BY ElementOfSeq DEF TypeOK
  <1>2. stack[k].hook \in Hooks
    BY <1>1 DEF Frames
  <1>3. k \in FramesOf(stack[k].hook)
    BY DEF FramesOf
  <1> QED BY <1>2, <1>3, FramesFinite DEF DepthCountsDispatches

LEMMA InitBus == Init => BusInv
  <1> SUFFICES ASSUME Init PROVE BusInv
    OBVIOUS
  <1> USE DEF Init
  <1>1. Len(stack) = 0
    BY EmptySeq
  <1>2. TypeOK
    <2>1. 0 \in 0 .. MaxTokens
      BY ConstantsAssumption
    <2>2. stack \in Seq(Frames)
      BY EmptySeq
    <2> QED BY <2>1, <2>2 DEF TypeOK, Owners
  <1>3. \A h \in Hooks : FramesOf(h) = {}
    BY <1>1 DEF FramesOf
  <1>4. DepthCountsDispatches
    BY <1>3, FS_EmptySet DEF DepthCountsDispatches
  <1> QED BY <1>1, <1>2, <1>4
          DEF BusInv, TombsAreSlots, SlotsAreOld, IndexStable, IdleHookIsSwept

-----------------------------------------------------------------------------
\* A step that keeps every dispatch where it is in its loop, or ends its callback,
\* and compacts the hooks of H that have no dispatch in flight, after marking the
\* tombstones t, preserves the invariant.
SamePlaces ==
  /\ stack' \in Seq(Frames)
  /\ Len(stack') = Len(stack)
  /\ \A k \in 1 .. Len(stack) :
       /\ stack'[k].hook = stack[k].hook
       /\ stack'[k].n = stack[k].n
       /\ stack'[k].i = stack[k].i
       /\ stack'[k].cur \in {stack[k].cur, NoToken}

\* Tombstones are only erased, or only added, as the hook's depth allows.
SweptHooks ==
  /\ slots' \in [Hooks -> SUBSET Tokens]
  /\ tombs' \in [Hooks -> SUBSET Tokens]
  /\ \A h \in Hooks :
       \/ depth[h] = 0 /\ slots'[h] \subseteq slots[h] /\ tombs'[h] = {}
       \/ /\ slots'[h] = slots[h]
          /\ tombs'[h] \subseteq slots[h]
          /\ depth[h] = 0 => tombs'[h] = tombs[h]

LEMMA SweepKeepsBus ==
  ASSUME BusInv, SamePlaces, SweptHooks,
         next_token' = next_token, depth' = depth, capacity' = capacity, owner' = owner,
         handles' \subseteq Hooks \X Tokens, disabled' \subseteq ExtensionIds,
         undefined' \in BOOLEAN
  PROVE  BusInv'
  <1> USE DEF BusInv
  <1>1. TombsAreSlots' /\ SlotsAreOld'
    BY DEF TombsAreSlots, SlotsAreOld, SweptHooks
  <1>2. TypeOK'
    BY DEF TypeOK, SamePlaces, SweptHooks
  <1>3. \A h \in Hooks : FramesOf(h)' = FramesOf(h)
    BY DEF FramesOf, SamePlaces
  <1>4. DepthCountsDispatches'
    BY <1>3 DEF DepthCountsDispatches
  <1>5. IndexStable'
    <2> SUFFICES ASSUME NEW k \in 1 .. Len(stack)
                 PROVE  /\ stack'[k].i <= stack'[k].n
                        /\ stack'[k].n <= Cardinality(slots'[stack'[k].hook])
                        /\ stack'[k].cur # NoToken =>
                             /\ stack'[k].cur \in slots'[stack'[k].hook]
                             /\ RankIn(slots'[stack'[k].hook], stack'[k].cur) = stack'[k].i
      BY DEF IndexStable, Rank, SamePlaces
    <2>1. stack[k].hook \in Hooks /\ slots'[stack[k].hook] = slots[stack[k].hook]
      BY BusyIsDeep DEF SweptHooks
    <2>3. /\ stack[k].i <= stack[k].n
          /\ stack[k].n <= Cardinality(slots[stack[k].hook])
          /\ stack[k].cur # NoToken => /\ stack[k].cur \in slots[stack[k].hook]
                                       /\ RankIn(slots[stack[k].hook], stack[k].cur) = stack[k].i
      BY DEF IndexStable, Rank
    <2>4. /\ stack'[k].hook = stack[k].hook /\ stack'[k].n = stack[k].n
          /\ stack'[k].i = stack[k].i /\ stack'[k].cur \in {stack[k].cur, NoToken}
      BY DEF SamePlaces
    <2>5. CASE stack'[k].cur = NoToken
      BY <2>1, <2>3, <2>4, <2>5
    <2>6. CASE stack'[k].cur = stack[k].cur
      BY <2>1, <2>3, <2>4, <2>6
    <2> QED BY <2>4, <2>5, <2>6
  <1>6. IdleHookIsSwept'
    <2> SUFFICES ASSUME NEW h \in Hooks, FramesOf(h)' = {} PROVE tombs'[h] = {}
      BY DEF IdleHookIsSwept
    <2>1. FramesOf(h) = {} /\ depth[h] = 0 /\ tombs[h] = {}
      BY <1>3, FramesFinite DEF DepthCountsDispatches, IdleHookIsSwept
    <2> QED BY <2>1 DEF SweptHooks
  <1> QED BY <1>1, <1>2, <1>4, <1>5, <1>6

LEMMA UnsubscribeKeepsBus ==
  ASSUME BusInv, NEW h \in Hooks, NEW t \in Tokens, Unsubscribe(h, t)
  PROVE  BusInv'
  <1>1. SweptHooks
    BY DEF Unsubscribe, Compact, SweptHooks, BusInv, TypeOK, TombsAreSlots
  <1>2. /\ next_token' = next_token /\ depth' = depth /\ capacity' = capacity
        /\ owner' = owner /\ stack' = stack
        /\ handles' \subseteq Hooks \X Tokens
        /\ disabled' \subseteq ExtensionIds /\ undefined' \in BOOLEAN
    BY DEF Unsubscribe, BusInv, TypeOK
  <1>3. SamePlaces
    BY <1>2 DEF SamePlaces, BusInv, TypeOK
  <1> QED BY <1>1, <1>2, <1>3, SweepKeepsBus

\* Ending the top callback leaves every dispatch where it was in its loop.
LEMMA EndCallbackPlaces ==
  ASSUME stack \in Seq(Frames), stack # <<>>, NEW v \in Seq(Tokens),
         stack' = [stack EXCEPT ![Len(stack)] =
                     [Top EXCEPT !.cur = NoToken, !.moved = FALSE, !.val = v]]
  PROVE  SamePlaces
  <1> DEFINE f == [Top EXCEPT !.cur = NoToken, !.moved = FALSE, !.val = v]
  <1>1. Top \in Frames
    BY TopType
  <1>2. f \in Frames
    BY <1>1 DEF Frames
  <1>3. f.hook = Top.hook /\ f.n = Top.n /\ f.i = Top.i /\ f.cur = NoToken
    BY <1>1 DEF Frames
  <1> HIDE DEF f
  <1>4. stack' = [stack EXCEPT ![Len(stack)] = f]
    BY DEF f
  <1> QED BY <1>2, <1>3, <1>4, SetTopType DEF SamePlaces, Top

LEMMA ReturnKeepsBus ==
  ASSUME BusInv, Return
  PROVE  BusInv'
  <1>1. stack \in Seq(Frames) /\ stack # <<>> /\ Top.cur # NoToken
    BY DEF BusInv, TypeOK, Return
  <1>2. Top \in Frames
    BY <1>1, TopType
  <1>3. PICK v \in Seq(Tokens) :
          v = IF Top.hook \in Filters THEN Append(Top.val, Top.cur) ELSE Top.val
    BY <1>1, <1>2, AppendProperties DEF Frames
  <1>4. stack' = [stack EXCEPT ![Len(stack)] =
                    [Top EXCEPT !.cur = NoToken, !.moved = FALSE, !.val = v]]
    BY <1>2, <1>3 DEF Return, SetTop, Frames
  <1>5. SamePlaces
    BY <1>1, <1>4, EndCallbackPlaces
  <1>6. SweptHooks
    BY DEF Return, SweptHooks, BusInv, TypeOK, TombsAreSlots
  <1> QED BY <1>5, <1>6, SweepKeepsBus DEF Return, BusInv, TypeOK

LEMMA ThrowKeepsBus ==
  ASSUME BusInv, Throw
  PROVE  BusInv'
  <1>1. stack \in Seq(Frames) /\ stack # <<>> /\ Top.cur # NoToken
    BY DEF BusInv, TypeOK, Throw
  <1>2. Top \in Frames
    BY <1>1, TopType
  <1>3. stack' = [stack EXCEPT ![Len(stack)] =
                    [Top EXCEPT !.cur = NoToken, !.moved = FALSE, !.val = Top.val]]
    BY <1>2 DEF Throw, SetTop, Frames
  <1>4. SamePlaces
    BY <1>1, <1>2, <1>3, EndCallbackPlaces DEF Frames
  <1>5. PICK who : DisableOwner(Top.hook, who)
    BY DEF Throw
  <1>6. SweptHooks /\ disabled' \subseteq ExtensionIds
    <2>1. disabled' \subseteq ExtensionIds
      BY <1>5 DEF DisableOwner, BusInv, TypeOK
    <2>2. PICK H : Purge(H, who)
      BY <1>5 DEF DisableOwner
    <2> DEFINE t == [h \in Hooks |->
                       IF h \in H THEN tombs[h] \cup {u \in slots[h] : owner[h][u] = who}
                                  ELSE tombs[h]]
    <2>3. /\ slots' = [h \in Hooks |->
                         IF h \in H /\ depth[h] = 0 THEN slots[h] \ t[h] ELSE slots[h]]
          /\ tombs' = [h \in Hooks |-> IF h \in H /\ depth[h] = 0 THEN {} ELSE t[h]]
      BY <2>2 DEF Purge, Compact
    <2>4. \A h \in Hooks : /\ tombs[h] \subseteq slots[h]
                           /\ t[h] \subseteq slots[h]
                           /\ slots[h] \subseteq Tokens
                           /\ h \notin H => t[h] = tombs[h]
      BY DEF BusInv, TypeOK, TombsAreSlots
    <2> HIDE DEF t
    <2>5. SweptHooks
      BY <2>3, <2>4 DEF SweptHooks
    <2> QED BY <2>1, <2>5
  <1>7. undefined' \in BOOLEAN
    BY <1>2 DEF Throw, BusInv, TypeOK, Frames
  <1> QED BY <1>4, <1>6, <1>7, SweepKeepsBus DEF Throw, BusInv, TypeOK

\* The loop advances to the entry of the next rank, which is inside the vector.
LEMMA VisitKeepsBus ==
  ASSUME BusInv, NEW t \in Tokens, Visit(t)
  PROVE  BusInv'
  <1> DEFINE c == IF t \in tombs[Top.hook] THEN NoToken ELSE t
             f == [Top EXCEPT !.i = @ + 1, !.cur = c]
  <1> USE DEF BusInv
  <1>1. stack \in Seq(Frames) /\ stack # <<>>
    BY DEF TypeOK, Visit, InLoop
  <1>2. Top \in Frames /\ Len(stack) \in 1 .. Len(stack)
    BY <1>1, TopType
  <1>c. c \in {NoToken, t}
    OBVIOUS
  <1> HIDE DEF c
  <1>3. f \in Frames /\ f.hook = Top.hook /\ f.n = Top.n /\ f.i = Top.i + 1 /\ f.cur = c
    <2>1. c \in Tokens \cup {NoToken}
      BY <1>c
    <2>2. Top.i + 1 \in Nat
      BY <1>2 DEF Frames
    <2> QED BY <1>2, <2>1, <2>2 DEF Frames
  <1>4. stack' = [stack EXCEPT ![Len(stack)] = f]
    BY DEF Visit, SetTop, c
  <1> HIDE DEF f
  <1>5. /\ stack' \in Seq(Frames)
        /\ Len(stack') = Len(stack)
        /\ \A k \in 1 .. Len(stack) : stack'[k] = IF k = Len(stack) THEN f ELSE stack[k]
    BY <1>1, <1>3, <1>4, SetTopType
  <1>6. UNCHANGED <<slots, tombs, owner, next_token, depth, capacity, handles, disabled, undefined>>
    BY DEF Visit
  <1>7. TypeOK'
    BY <1>5, <1>6 DEF TypeOK
  <1>8. \A h \in Hooks : FramesOf(h)' = FramesOf(h)
    BY <1>3, <1>5 DEF FramesOf, Top
  <1>9. DepthCountsDispatches' /\ IdleHookIsSwept'
    BY <1>6, <1>8 DEF DepthCountsDispatches, IdleHookIsSwept
  <1>10. IndexStable'
    <2>1. /\ f.i <= f.n
          /\ f.n <= Cardinality(slots[f.hook])
          /\ f.cur # NoToken => f.cur \in slots[f.hook] /\ RankIn(slots[f.hook], f.cur) = f.i
      <3>1. Top.n <= Cardinality(slots[Top.hook])
        BY <1>2 DEF IndexStable, Top
      <3>2. Top.i < Top.n /\ t \in slots[Top.hook] /\ RankIn(slots[Top.hook], t) = Top.i + 1
        BY DEF Visit, Rank
      <3>3. Top.i \in Nat /\ Top.n \in Nat
        BY <1>2 DEF Frames
      <3> QED BY <1>c, <1>3, <3>1, <3>2, <3>3
    <2> SUFFICES ASSUME NEW k \in 1 .. Len(stack)
                 PROVE  /\ stack'[k].i <= stack'[k].n
                        /\ stack'[k].n <= Cardinality(slots[stack'[k].hook])
                        /\ stack'[k].cur # NoToken =>
                             /\ stack'[k].cur \in slots[stack'[k].hook]
                             /\ RankIn(slots[stack'[k].hook], stack'[k].cur) = stack'[k].i
      BY <1>5, <1>6 DEF IndexStable, Rank
    <2>2. CASE k = Len(stack)
      BY <1>5, <2>1, <2>2
    <2>3. CASE k # Len(stack)
      BY <1>5, <2>3 DEF IndexStable, Rank
    <2> QED BY <2>2, <2>3
  <1>11. TombsAreSlots' /\ SlotsAreOld'
    BY <1>6 DEF TombsAreSlots, SlotsAreOld
  <1> QED BY <1>7, <1>9, <1>10, <1>11

\* A dispatch begins: one more frame, one deeper.
LEMMA EmitKeepsBus ==
  ASSUME BusInv, NEW h \in Hooks, Emit(h)
  PROVE  BusInv'
  <1> DEFINE f == [hook |-> h, n |-> Cardinality(slots[h]), i |-> 0,
                   cur |-> NoToken, moved |-> FALSE, val |-> <<>>]
             L == Len(stack)
  <1> USE DEF BusInv
  <1>1. f \in Frames /\ f.hook = h /\ f.n = Cardinality(slots[h]) /\ f.i = 0 /\ f.cur = NoToken
    BY SlotsFinite, EmptySeq DEF Frames
  <1>2. stack' = Append(stack, f)
    BY DEF Emit
  <1> HIDE DEF f
  <1>3. /\ stack' \in Seq(Frames) /\ L \in Nat /\ Len(stack') = L + 1 /\ stack'[L + 1] = f
        /\ \A k \in 1 .. L : stack'[k] = stack[k]
    BY <1>1, <1>2, PushType DEF TypeOK
  <1>4. UNCHANGED <<slots, tombs, owner, next_token, capacity, handles, disabled, undefined>>
    BY DEF Emit
  <1>5. depth' = [depth EXCEPT ![h] = @ + 1]
    BY DEF Emit
  <1>6. TypeOK'
    BY <1>3, <1>4, <1>5 DEF TypeOK
  <1>7. FramesOf(h)' = FramesOf(h) \cup {L + 1} /\ L + 1 \notin FramesOf(h)
    BY <1>1, <1>3 DEF FramesOf
  <1>8. \A g \in Hooks : g # h => FramesOf(g)' = FramesOf(g)
    BY <1>1, <1>3 DEF FramesOf
  <1>9. Cardinality(FramesOf(h)') = Cardinality(FramesOf(h)) + 1
    BY <1>7, FramesFinite, FS_AddElement
  <1>10. DepthCountsDispatches'
    BY <1>5, <1>8, <1>9 DEF DepthCountsDispatches, TypeOK
  <1>11. IdleHookIsSwept'
    BY <1>4, <1>7, <1>8 DEF IdleHookIsSwept
  <1>12. IndexStable'
    <2> SUFFICES ASSUME NEW k \in 1 .. L + 1
                 PROVE  /\ stack'[k].i <= stack'[k].n
                        /\ stack'[k].n <= Cardinality(slots[stack'[k].hook])
                        /\ stack'[k].cur # NoToken =>
                             /\ stack'[k].cur \in slots[stack'[k].hook]
                             /\ RankIn(slots[stack'[k].hook], stack'[k].cur) = stack'[k].i
      BY <1>3, <1>4 DEF IndexStable, Rank
    <2>1. CASE k = L + 1
      BY <1>1, <1>3, <2>1, SlotsFinite
    <2>2. CASE k # L + 1
      BY <1>3, <2>2 DEF IndexStable, Rank
    <2> QED BY <2>1, <2>2
  <1>13. TombsAreSlots' /\ SlotsAreOld'
    BY <1>4 DEF TombsAreSlots, SlotsAreOld
  <1> QED BY <1>6, <1>10, <1>11, <1>12, <1>13

\* A dispatch ends: its frame and its depth go, and only if it was the outermost one
\* of its hook is the vector compacted, so no other dispatch sees its entries move.
LEMMA EmitEndKeepsBus ==
  ASSUME BusInv, EmitEnd
  PROVE  BusInv'
  <1> DEFINE L == Len(stack)
  <1> USE DEF BusInv
  <1>1. stack \in Seq(Frames) /\ stack # <<>>
    BY DEF TypeOK, EmitEnd, InLoop
  <1>2. PICK h \in Hooks : h = Top.hook
    BY <1>1, TopType DEF Frames
  <1>3. /\ L \in Nat \ {0} /\ stack' \in Seq(Frames) /\ Len(stack') = L - 1
        /\ \A k \in 1 .. L - 1 : stack'[k] = stack[k]
    BY <1>1, TopType, BelowType DEF EmitEnd
  <1>4. /\ UNCHANGED <<owner, next_token, capacity, handles, disabled, undefined>>
        /\ depth' = [depth EXCEPT ![h] = @ - 1]
        /\ slots' = [g \in Hooks |-> IF g = h /\ depth'[g] = 0 THEN slots[g] \ tombs[g] ELSE slots[g]]
        /\ tombs' = [g \in Hooks |-> IF g = h /\ depth'[g] = 0 THEN {} ELSE tombs[g]]
    BY <1>2 DEF EmitEnd, Compact
  <1>5. FramesOf(h)' = FramesOf(h) \ {L} /\ L \in FramesOf(h)
    BY <1>2, <1>3 DEF FramesOf, Top
  <1>6. \A g \in Hooks : g # h => FramesOf(g)' = FramesOf(g)
    BY <1>2, <1>3 DEF FramesOf, Top
  <1>7. Cardinality(FramesOf(h)') = Cardinality(FramesOf(h)) - 1
    BY <1>5, FramesFinite, FS_RemoveElement
  <1>8. depth[h] \in Nat /\ depth[h] # 0 /\ depth \in [Hooks -> Nat]
    BY <1>5, FramesFinite DEF TypeOK, DepthCountsDispatches
  <1>9. depth' \in [Hooks -> Nat] /\ DepthCountsDispatches'
    BY <1>4, <1>6, <1>7, <1>8 DEF DepthCountsDispatches
  <1>10. TypeOK'
    BY <1>3, <1>4, <1>9 DEF TypeOK
  <1>11. \A g \in Hooks : FramesOf(g)' # {} => slots'[g] = slots[g]
    <2> SUFFICES ASSUME NEW g \in Hooks, FramesOf(g)' # {} PROVE ~(g = h /\ depth'[g] = 0)
      BY <1>4
    <2>1. IsFiniteSet(1 .. L - 1)
      BY <1>3, FS_Interval
    <2>2. FramesOf(g)' \in SUBSET (1 .. L - 1)
      BY <1>3 DEF FramesOf
    <2>3. IsFiniteSet(FramesOf(g)')
      BY <2>1, <2>2, FS_Subset
    <2>4. Cardinality(FramesOf(g)') # 0
      BY <2>3, FS_EmptySet
    <2> QED BY <1>9, <2>4 DEF DepthCountsDispatches
  <1>12. IndexStable'
    <2> SUFFICES ASSUME NEW k \in 1 .. L - 1
                 PROVE  /\ stack[k].i <= stack[k].n
                        /\ stack[k].n <= Cardinality(slots'[stack[k].hook])
                        /\ stack[k].cur # NoToken =>
                             /\ stack[k].cur \in slots'[stack[k].hook]
                             /\ RankIn(slots'[stack[k].hook], stack[k].cur) = stack[k].i
      BY <1>3 DEF IndexStable, Rank
    <2>1. k \in 1 .. L
      BY <1>3
    <2>2. PICK g \in Hooks : g = stack[k].hook
      BY <2>1, BusyIsDeep
    <2>3. k \in FramesOf(g)'
      BY <1>3, <2>2 DEF FramesOf
    <2>4. slots'[stack[k].hook] = slots[stack[k].hook]
      BY <1>11, <2>2, <2>3
    <2> QED BY <2>1, <2>4 DEF IndexStable, Rank
  <1>13. IdleHookIsSwept'
    <2> SUFFICES ASSUME NEW g \in Hooks, FramesOf(g)' = {} PROVE tombs'[g] = {}
      BY DEF IdleHookIsSwept
    <2>1. CASE g = h
      <3>1. depth'[g] = 0
        BY <1>9, FS_EmptySet DEF DepthCountsDispatches
      <3> QED BY <1>4, <2>1, <3>1
    <2>2. CASE g # h
      BY <1>4, <1>6, <2>2 DEF IdleHookIsSwept
    <2> QED BY <2>1, <2>2
  <1>14. TombsAreSlots' /\ SlotsAreOld'
    BY <1>4 DEF TombsAreSlots, SlotsAreOld
  <1> QED BY <1>9, <1>10, <1>12, <1>13, <1>14

\* A new subscription goes behind every entry a dispatch in flight will reach.
LEMMA SubscribeKeepsBus ==
  ASSUME BusInv, NEW h \in Hooks, NEW who \in Owners, Subscribe(h, who)
  PROVE  BusInv'
  <1> DEFINE t == next_token[h] + 1
             L == Len(stack)
  <1> USE DEF BusInv
  <1>1. t \in Tokens /\ t \in Nat /\ t \notin slots[h] /\ \A u \in slots[h] : u <= next_token[h]
    BY ConstantsAssumption DEF Subscribe, TypeOK, SlotsAreOld, Tokens
  <1>2. /\ next_token' = [next_token EXCEPT ![h] = t]
        /\ slots' = [slots EXCEPT ![h] = @ \cup {t}]
        /\ owner' = [owner EXCEPT ![h][t] = who]
        /\ handles' = handles \cup {<<h, t>>}
        /\ UNCHANGED <<tombs, depth, disabled, undefined>>
    BY DEF Subscribe
  <1>3. next_token' \in [Hooks -> 0 .. MaxTokens] /\ slots' \in [Hooks -> SUBSET Tokens]
    BY <1>1, <1>2, ConstantsAssumption DEF TypeOK, Tokens
  <1>4. owner' \in [Hooks -> [Tokens -> Owners]] /\ handles' \subseteq Hooks \X Tokens
    BY <1>1, <1>2 DEF TypeOK
  <1>5. capacity' \in [Hooks -> Nat]
    BY DEF Subscribe, TypeOK
  <1>6. L \in Nat /\ \A k \in 1 .. L : stack[k] \in Frames
    BY LenProperties, ElementOfSeq DEF TypeOK
  <1>7. PICK full \in BOOLEAN :
          stack' = [k \in 1 .. L |->
                      [stack[k] EXCEPT !.moved = @ \/ (full /\ stack[k].hook = h)]]
    BY DEF Subscribe
  <1>8. \A k \in 1 .. L : /\ stack'[k] \in Frames
                          /\ stack'[k].hook = stack[k].hook
                          /\ stack'[k].n = stack[k].n
                          /\ stack'[k].i = stack[k].i
                          /\ stack'[k].cur = stack[k].cur
    BY <1>6, <1>7 DEF Frames
  <1>9. stack' \in Seq(Frames) /\ Len(stack') = L
    <2>1. stack' \in [1 .. L -> Frames]
      BY <1>7, <1>8
    <2> QED BY <1>6, <2>1, SeqDef
  <1>10. TypeOK'
    BY <1>2, <1>3, <1>4, <1>5, <1>9 DEF TypeOK
  <1>11. \A g \in Hooks : FramesOf(g)' = FramesOf(g)
    BY <1>8, <1>9 DEF FramesOf
  <1>12. DepthCountsDispatches' /\ IdleHookIsSwept'
    BY <1>2, <1>11 DEF DepthCountsDispatches, IdleHookIsSwept
  <1>13. TombsAreSlots' /\ SlotsAreOld'
    <2>1. TombsAreSlots'
      BY <1>2 DEF TombsAreSlots, TypeOK
    <2>2. SlotsAreOld'
      <3> SUFFICES ASSUME NEW g \in Hooks, NEW u \in slots'[g] PROVE u <= next_token'[g]
        BY DEF SlotsAreOld
      <3>1. CASE g = h
        <4>1. slots'[g] = slots[h] \cup {t} /\ next_token'[g] = t /\ next_token[h] \in Nat
          BY <1>2, <3>1 DEF TypeOK
        <4>2. CASE u = t
          BY <1>1, <4>1, <4>2
        <4>3. CASE u \in slots[h]
          <5>1. u \in Nat /\ u <= next_token[h]
            BY <1>1, <4>3 DEF TypeOK, Tokens
          <5> QED BY <4>1, <5>1
        <4> QED BY <4>1, <4>2, <4>3
      <3>2. CASE g # h
        BY <1>2, <3>2 DEF SlotsAreOld, TypeOK
      <3> QED BY <3>1, <3>2
    <2> QED BY <2>1, <2>2
  <1>14. Cardinality(slots'[h]) = Cardinality(slots[h]) + 1 /\ Cardinality(slots[h]) \in Nat
    BY <1>1, <1>2, SlotsFinite, FS_AddElement DEF TypeOK
  <1>15. \A u \in slots[h] : RankIn(slots'[h], u) = RankIn(slots[h], u)
    <2> SUFFICES ASSUME NEW u \in slots[h]
                 PROVE  {v \in slots'[h] : v <= u} = {v \in slots[h] : v <= u}
      BY DEF RankIn
    <2>1. u \in Nat /\ u <= next_token[h] /\ next_token[h] \in Nat
      BY <1>1 DEF TypeOK, Tokens
    <2>2. slots'[h] = slots[h] \cup {t} /\ ~(t <= u)
      BY <1>2, <2>1 DEF TypeOK
    <2> QED BY <2>2
  <1>16. IndexStable'
    <2> SUFFICES ASSUME NEW k \in 1 .. L
                 PROVE  /\ stack[k].i <= stack[k].n
                        /\ stack[k].n <= Cardinality(slots'[stack[k].hook])
                        /\ stack[k].cur # NoToken =>
                             /\ stack[k].cur \in slots'[stack[k].hook]
                             /\ RankIn(slots'[stack[k].hook], stack[k].cur) = stack[k].i
      BY <1>8, <1>9 DEF IndexStable, Rank
    <2>1. /\ stack[k].i <= stack[k].n
          /\ stack[k].n <= Cardinality(slots[stack[k].hook])
          /\ stack[k].cur # NoToken => /\ stack[k].cur \in slots[stack[k].hook]
                                       /\ RankIn(slots[stack[k].hook], stack[k].cur) = stack[k].i
      BY DEF IndexStable, Rank
    <2>2. stack[k].n \in Nat /\ stack[k].hook \in Hooks
      BY <1>6 DEF Frames
    <2>3. CASE stack[k].hook = h
      <3>1. stack[k].n <= Cardinality(slots'[h])
        BY <1>14, <2>1, <2>2, <2>3
      <3>2. slots[h] \subseteq slots'[h]
        BY <1>2 DEF TypeOK
      <3> QED BY <1>15, <2>1, <2>3, <3>1, <3>2
    <2>4. CASE stack[k].hook # h
      BY <1>2, <2>1, <2>2, <2>4 DEF TypeOK
    <2> QED BY <2>3, <2>4
  <1> QED BY <1>10, <1>12, <1>13, <1>16

-----------------------------------------------------------------------------
LEMMA NextKeepsBus == BusInv /\ [Next]_vars => BusInv'
  <1> SUFFICES ASSUME BusInv, [Next]_vars PROVE BusInv'
    OBVIOUS
  <1>1. ASSUME NEW h \in Hooks, NEW who \in Owners, Subscribe(h, who) PROVE BusInv'
    BY <1>1, SubscribeKeepsBus
  <1>2. ASSUME NEW h \in Hooks, NEW t \in Tokens, Unsubscribe(h, t) PROVE BusInv'
    BY <1>2, UnsubscribeKeepsBus
  <1>3. ASSUME NEW h \in Hooks, Emit(h) PROVE BusInv'
    BY <1>3, EmitKeepsBus
  <1>4. ASSUME NEW t \in Tokens, Visit(t) PROVE BusInv'
    BY <1>4, VisitKeepsBus
  <1>5. CASE Return
    BY <1>5, ReturnKeepsBus
  <1>6. CASE Throw
    BY <1>6, ThrowKeepsBus
  <1>7. CASE EmitEnd
    BY <1>7, EmitEndKeepsBus
  <1>8. CASE UNCHANGED vars
    <2> USE <1>8 DEF vars, BusInv
    <2>1. TypeOK'
      BY DEF TypeOK
    <2>2. TombsAreSlots' /\ SlotsAreOld'
      BY DEF TombsAreSlots, SlotsAreOld
    <2>3. \A h \in Hooks : FramesOf(h)' = FramesOf(h)
      BY DEF FramesOf
    <2>4. DepthCountsDispatches' /\ IdleHookIsSwept'
      BY <2>3 DEF DepthCountsDispatches, IdleHookIsSwept
    <2>5. IndexStable'
      BY DEF IndexStable, Rank
    <2> QED BY <2>1, <2>2, <2>4, <2>5
  <1> QED BY <1>1, <1>2, <1>3, <1>4, <1>5, <1>6, <1>7, <1>8 DEF Next

\* Every variable of the bus keeps its type.
THEOREM BusTypes == Spec => []TypeOK
  <1>1. BusInv => TypeOK
    BY DEF BusInv
  <1> QED BY <1>1, InitBus, NextKeepsBus, PTL DEF Spec

\* No dispatch, at any nesting depth, ever indexes out of the vector it walks, and the
\* entry whose callback it is running stays where the loop found it, for every number
\* of hooks, extensions, subscriptions and nested dispatches (hooks.hpp:173-189).
THEOREM DispatchIndexStable == Spec => []IndexStable
  <1>1. BusInv => IndexStable
    BY DEF BusInv
  <1> QED BY <1>1, InitBus, NextKeepsBus, PTL DEF Spec

\* The depth counter that decides whether erasing is safe is exactly the number of
\* dispatches in flight, however callbacks nest and leave (hooks.hpp:174,187,228).
THEOREM DepthIsExact == Spec => []DepthCountsDispatches
  <1>1. BusInv => DepthCountsDispatches
    BY DEF BusInv
  <1> QED BY <1>1, InitBus, NextKeepsBus, PTL DEF Spec

\* Deferred removal always completes: a hook no dispatch is walking holds no
\* tombstone, even when another hook's throw purged it (hooks.hpp:191-198, 228-233).
THEOREM IdleHooksAreSwept == Spec => []IdleHookIsSwept
  <1>1. BusInv => IdleHookIsSwept
    BY DEF BusInv
  <1> QED BY <1>1, InitBus, NextKeepsBus, PTL DEF Spec

-----------------------------------------------------------------------------
\* Ranks follow the order of the tokens.
LEMMA Ranks ==
  ASSUME TypeOK, NEW h \in Hooks
  PROVE  /\ \A t \in slots[h] : /\ t \in Nat /\ Rank(h, t) \in Nat
                                /\ 1 <= Rank(h, t) /\ Rank(h, t) <= Cardinality(slots[h])
         /\ \A t, u \in slots[h] : t < u => Rank(h, t) < Rank(h, u)
         /\ \A t, u \in slots[h] : Rank(h, t) <= Rank(h, u) => t <= u
         /\ \A t, u \in slots[h] : Rank(h, t) = Rank(h, u) => t = u
  <1> DEFINE S == slots[h]
             Upto(t) == {v \in S : v <= t}
  <1>1. IsFiniteSet(S) /\ Cardinality(S) \in Nat /\ \A t \in S : t \in Nat
    BY SlotsFinite DEF TypeOK, Tokens
  <1>2. \A t \in S : Rank(h, t) = Cardinality(Upto(t))
    BY DEF Rank, RankIn
  <1>3. ASSUME NEW t \in S
        PROVE  /\ IsFiniteSet(Upto(t)) /\ Cardinality(Upto(t)) \in Nat /\ t \in Upto(t)
               /\ Cardinality(Upto(t)) # 0 /\ Cardinality(Upto(t)) <= Cardinality(S)
    <2>1. Upto(t) \in SUBSET S /\ t \in Upto(t)
      BY <1>1
    <2> HIDE DEF S, Upto
    <2>2. IsFiniteSet(Upto(t)) /\ Cardinality(Upto(t)) <= Cardinality(S)
      BY <1>1, <2>1, FS_Subset
    <2>3. Cardinality(Upto(t)) \in Nat /\ Cardinality(Upto(t)) # 0
      BY <2>1, <2>2, FS_CardinalityType, FS_EmptySet
    <2> QED BY <2>1, <2>2, <2>3
  <1>4. ASSUME NEW t \in S, NEW u \in S, t < u
        PROVE  Cardinality(Upto(t)) < Cardinality(Upto(u))
    <2>1. u \notin Upto(t) /\ Upto(t) \cup {u} \in SUBSET Upto(u)
      BY <1>1, <1>4
    <2> HIDE DEF S, Upto
    <2>2. Cardinality(Upto(t) \cup {u}) = Cardinality(Upto(t)) + 1
      BY <1>3, <2>1, FS_AddElement
    <2>3. Cardinality(Upto(t) \cup {u}) <= Cardinality(Upto(u))
      BY <1>3, <2>1, FS_Subset
    <2>4. Cardinality(Upto(t)) \in Nat /\ Cardinality(Upto(u)) \in Nat
      BY <1>3
    <2> QED BY <2>2, <2>3, <2>4
  <1> HIDE DEF Upto, S
  <1>5. \A t \in S : /\ t \in Nat /\ Rank(h, t) \in Nat
                     /\ 1 <= Rank(h, t) /\ Rank(h, t) <= Cardinality(S)
    BY <1>1, <1>2, <1>3
  <1>6. \A t, u \in S : t < u => Rank(h, t) < Rank(h, u)
    BY <1>2, <1>4
  <1>7. \A t, u \in S : Rank(h, t) <= Rank(h, u) => t <= u
    BY <1>5, <1>6
  <1>8. \A t, u \in S : Rank(h, t) = Rank(h, u) => t = u
    BY <1>5, <1>6
  <1> QED BY <1>5, <1>6, <1>7, <1>8 DEF S

\* A new token comes last and leaves the ranks of the others.
LEMMA NewRank ==
  ASSUME BusInv, NEW h \in Hooks, NEW who \in Owners, Subscribe(h, who),
         NEW t, t = next_token[h] + 1
  PROVE  /\ slots' = [slots EXCEPT ![h] = @ \cup {t}] /\ t \in Tokens /\ t \notin slots[h]
         /\ \A g \in Hooks : \A u \in slots[g] :
              RankIn(slots'[g], u) = RankIn(slots[g], u) /\ (g = h => u < t)
         /\ RankIn(slots'[h], t) = Cardinality(slots[h]) + 1
         /\ \A g \in Hooks : Live(g)' = IF g = h THEN Live(g) \cup {t} ELSE Live(g)
  <1>1. /\ slots' = [slots EXCEPT ![h] = @ \cup {t}] /\ tombs' = tombs
        /\ slots \in [Hooks -> SUBSET Tokens] /\ next_token[h] \in Nat
        /\ next_token[h] < MaxTokens
    BY DEF Subscribe, BusInv, TypeOK
  <1>2. t \in Tokens /\ \A u \in slots[h] : u \in Nat /\ u < t
    BY <1>1, ConstantsAssumption DEF BusInv, SlotsAreOld, Tokens
  <1>3. t \notin slots[h]
    BY <1>2
  <1>4. ASSUME NEW g \in Hooks, NEW u \in slots[g] PROVE RankIn(slots'[g], u) = RankIn(slots[g], u)
    <2>1. {v \in slots'[g] : v <= u} = {v \in slots[g] : v <= u}
      <3>1. CASE g = h
        <4>1. slots'[g] = slots[g] \cup {t} /\ ~(t <= u)
          BY <1>1, <1>2, <3>1
        <4> QED BY <4>1
      <3>2. CASE g # h
        BY <1>1, <3>2
      <3> QED BY <3>1, <3>2
    <2> QED BY <2>1 DEF RankIn
  <1>5. RankIn(slots'[h], t) = Cardinality(slots[h]) + 1
    <2>0. slots'[h] = slots[h] \cup {t} /\ t <= t
      BY <1>1
    <2>1. {v \in slots'[h] : v <= t} = slots[h] \cup {t}
      <3>1. \A u \in slots[h] : u <= t
        BY <1>2
      <3> QED BY <2>0, <3>1
    <2>2. Cardinality(slots[h] \cup {t}) = Cardinality(slots[h]) + 1
      BY <1>3, SlotsFinite, FS_AddElement DEF BusInv
    <2> QED BY <2>1, <2>2 DEF RankIn
  <1>6. \A g \in Hooks : Live(g)' = IF g = h THEN Live(g) \cup {t} ELSE Live(g)
    BY <1>1, <1>3 DEF Live, BusInv, TombsAreSlots
  <1> QED BY <1>1, <1>2, <1>3, <1>4, <1>5, <1>6

\* What a step that drops the subscriptions `gone' does to the hooks: nothing moves in one
\* that is still being walked.
Drops(gone) ==
  /\ \A h \in Hooks : Live(h)' = Live(h) \ gone[h]
  /\ \A k \in 1 .. Len(stack') : /\ stack'[k].hook \in Hooks
                                 /\ slots'[stack'[k].hook] = slots[stack'[k].hook]

Nothing == [h \in Hooks |-> {}]
Reach(h, who) == IF h \in Registered /\ who # Kernel THEN Registered ELSE {h}
OwnedBy(h, who) ==
  [g \in Hooks |-> IF g \in Reach(h, who) THEN {t \in Live(g) : owner[g][t] = who} ELSE {}]

\* Dropping a subscription takes one listener off one hook.
LEMMA UnsubscribeDrops ==
  ASSUME BusInv, NEW h \in Hooks, NEW t \in Tokens, Unsubscribe(h, t)
  PROVE  Drops([g \in Hooks |-> IF g = h THEN {t} ELSE {}])
  <1>1. stack' = stack
    BY DEF Unsubscribe
  <1>2. \A g \in Hooks : Live(g)' = Live(g) \ (IF g = h THEN {t} ELSE {})
    BY DEF Unsubscribe, Compact, Live, BusInv, TypeOK, TombsAreSlots
  <1>3. \A k \in 1 .. Len(stack) :
          stack[k].hook \in Hooks /\ slots'[stack[k].hook] = slots[stack[k].hook]
    BY BusyIsDeep DEF Unsubscribe, Compact, BusInv
  <1> QED BY <1>1, <1>2, <1>3 DEF Drops

\* A throw takes the listeners of the thrower's extension, and no others, off the hooks
\* the server reaches.
LEMMA ThrowDrops ==
  ASSUME BusInv, Throw, ~Top.moved
  PROVE  /\ Top.hook \in Hooks /\ Top.cur \in Tokens /\ Top.cur \in slots[Top.hook]
         /\ Drops(OwnedBy(Top.hook, owner[Top.hook][Top.cur]))
  <1> DEFINE h == Top.hook
             who == owner[h][Top.cur]
             H == Reach(h, who)
  <1>1. stack \in Seq(Frames) /\ stack # <<>> /\ Top.cur # NoToken
    BY DEF BusInv, TypeOK, Throw
  <1>2. h \in Hooks /\ Top.cur \in Tokens /\ Len(stack) \in 1 .. Len(stack) /\ Top \in Frames
    BY <1>1, TopType DEF Frames
  <1>3. Top.cur \in slots[h]
    BY <1>1, <1>2 DEF BusInv, IndexStable, Top
  <1>4. DisableOwner(h, who)
    BY DEF Throw
  <1>5. Purge(H, who)
    BY <1>4 DEF DisableOwner, Reach
  <1> HIDE DEF who, H
  <1> DEFINE marked == [g \in Hooks |->
                          IF g \in H THEN tombs[g] \cup {t \in slots[g] : owner[g][t] = who}
                                     ELSE tombs[g]]
  <1>6. /\ slots' = [g \in Hooks |->
                       IF g \in H /\ depth[g] = 0 THEN slots[g] \ marked[g] ELSE slots[g]]
        /\ tombs' = [g \in Hooks |-> IF g \in H /\ depth[g] = 0 THEN {} ELSE marked[g]]
    BY <1>5 DEF Purge, Compact
  <1>7. \A g \in Hooks : slots[g] \ marked[g] =
          Live(g) \ (IF g \in H THEN {t \in Live(g) : owner[g][t] = who} ELSE {})
    BY DEF Live
  <1> HIDE DEF marked
  <1>8. \A g \in Hooks : Live(g)' =
          Live(g) \ (IF g \in H THEN {t \in Live(g) : owner[g][t] = who} ELSE {})
    BY <1>6, <1>7 DEF Live
  <1>9. \A k \in 1 .. Len(stack) :
          stack[k].hook \in Hooks /\ slots'[stack[k].hook] = slots[stack[k].hook]
    BY <1>6, BusyIsDeep DEF BusInv
  <1>10. Len(stack') = Len(stack) /\ \A k \in 1 .. Len(stack) : stack'[k].hook = stack[k].hook
    <2> DEFINE f == [Top EXCEPT !.cur = NoToken, !.moved = FALSE]
    <2>1. f \in Frames /\ f.hook = h
      BY <1>2 DEF Frames
    <2>2. stack' = [stack EXCEPT ![Len(stack)] = f]
      BY DEF Throw, SetTop
    <2> HIDE DEF f
    <2> QED BY <1>1, <2>1, <2>2, SetTopType DEF Top
  <1>11. Drops(OwnedBy(h, who))
    BY <1>8, <1>9, <1>10 DEF Drops, OwnedBy, H
  <1> QED BY <1>2, <1>3, <1>11 DEF who

\* Sweeping the tombstones takes no listener off.
LEMMA EmitEndDrops ==
  ASSUME BusInv, EmitEnd
  PROVE  Drops(Nothing)
  <1>1. BusInv'
    BY EmitEndKeepsBus
  <1>2. /\ slots' = [g \in Hooks |->
                       IF g = Top.hook /\ depth'[g] = 0 THEN slots[g] \ tombs[g] ELSE slots[g]]
        /\ tombs' = [g \in Hooks |-> IF g = Top.hook /\ depth'[g] = 0 THEN {} ELSE tombs[g]]
    BY DEF EmitEnd, Compact
  <1>3. \A g \in Hooks : Live(g)' = Live(g)
    BY <1>2 DEF Live
  <1>4. ASSUME NEW k \in 1 .. Len(stack')
        PROVE  /\ stack'[k].hook \in Hooks
               /\ slots'[stack'[k].hook] = slots[stack'[k].hook]
    <2>1. stack' \in Seq(Frames)
      BY <1>1 DEF BusInv, TypeOK
    <2>7. stack'[k] \in Frames
      BY <2>1, ElementOfSeq
    <2>2. PICK g \in Hooks : g = stack'[k].hook
      BY <2>7 DEF Frames
    <2>3. IsFiniteSet(1 .. Len(stack'))
      BY <2>1, LenProperties, FS_Interval
    <2>4. FramesOf(g)' \in SUBSET (1 .. Len(stack')) /\ k \in FramesOf(g)'
      BY <2>2 DEF FramesOf
    <2>5. Cardinality(FramesOf(g)') # 0
      BY <2>3, <2>4, FS_Subset, FS_EmptySet
    <2>6. depth'[g] # 0
      BY <1>1, <2>5 DEF BusInv, DepthCountsDispatches
    <2> QED BY <1>2, <2>2, <2>6
  <1> QED BY <1>3, <1>4 DEF Drops, Nothing

-----------------------------------------------------------------------------
\* What the value of one dispatch says, with the hook's entries S, of which L are live.
Passed(f, S) == {t \in S : RankIn(S, t) <= f.i} \ {f.cur}
Applied(f) == {f.val[j] : j \in 1 .. Len(f.val)}
Threads(f, S, L) ==
  /\ \A j \in 1 .. Len(f.val) - 1 : f.val[j] < f.val[j + 1]
  /\ Passed(f, S) \cap L \subseteq Applied(f)
  /\ Applied(f) \subseteq Passed(f, S)

FrameThreads(k) ==
  stack[k].hook \in Filters => Threads(stack[k], slots[stack[k].hook], Live(stack[k].hook))

\* ValueThreadsSurvivors, dispatch by dispatch, in a state and in the next.
LEMMA ValueMeans ==
  ValueThreadsSurvivors <=> (~undefined => \A k \in 1 .. Len(stack) : FrameThreads(k))
  BY DEF ValueThreadsSurvivors, FrameThreads, Threads, Passed, Applied, Rank

LEMMA ValueNext ==
  ValueThreadsSurvivors' <=> (~undefined' => \A k \in 1 .. Len(stack') : FrameThreads(k)')
  BY DEF ValueThreadsSurvivors, FrameThreads, Threads, Passed, Applied, Rank

\* A dispatch that stays where it is, while its hook loses listeners.
LEMMA ThreadsKept ==
  ASSUME NEW f, NEW g, NEW S, NEW L, NEW M, Threads(f, S, L), M \subseteq L,
         g.i = f.i, g.cur = f.cur, g.val = f.val
  PROVE  Threads(g, S, M)
  BY DEF Threads, Passed, Applied

\* A step that drops subscriptions and leaves a dispatch's place and value alone.
LEMMA DropsThread ==
  ASSUME NEW gone, Drops(gone), NEW k \in 1 .. Len(stack'), FrameThreads(k),
         stack'[k].hook = stack[k].hook, stack'[k].i = stack[k].i,
         stack'[k].cur = stack[k].cur, stack'[k].val = stack[k].val
  PROVE  FrameThreads(k)'
  <1>1. PICK h \in Hooks : h = stack[k].hook
    BY DEF Drops
  <1>2. slots'[h] = slots[h] /\ Live(h)' \subseteq Live(h)
    BY <1>1 DEF Drops
  <1>3. ASSUME h \in Filters PROVE Threads(stack'[k], slots'[h], Live(h)')
    <2>1. Threads(stack[k], slots[h], Live(h))
      BY <1>1, <1>3 DEF FrameThreads
    <2> QED BY <1>2, <2>1, ThreadsKept
  <1> QED BY <1>1, <1>3 DEF FrameThreads, Live

\* The callback of a dispatch ends, and the dispatch goes on with the value v.
LEMMA TopEnds ==
  ASSUME BusInv, stack # <<>>, NEW v \in Seq(Tokens),
         stack' = [stack EXCEPT ![Len(stack)] =
                     [Top EXCEPT !.cur = NoToken, !.moved = FALSE, !.val = v]]
  PROVE  /\ Top \in Frames /\ Len(stack) \in 1 .. Len(stack) /\ Len(stack') = Len(stack)
         /\ \A k \in 1 .. Len(stack) : k # Len(stack) => stack'[k] = stack[k]
         /\ stack'[Len(stack)].hook = Top.hook /\ stack'[Len(stack)].n = Top.n
         /\ stack'[Len(stack)].i = Top.i /\ stack'[Len(stack)].cur = NoToken
         /\ stack'[Len(stack)].moved = FALSE /\ stack'[Len(stack)].val = v
  <1> DEFINE f == [Top EXCEPT !.cur = NoToken, !.moved = FALSE, !.val = v]
  <1>1. stack \in Seq(Frames)
    BY DEF BusInv, TypeOK
  <1>2. Top \in Frames /\ Len(stack) \in 1 .. Len(stack)
    BY <1>1, TopType
  <1>3. f \in Frames /\ f.hook = Top.hook /\ f.n = Top.n /\ f.i = Top.i /\ f.cur = NoToken
        /\ f.moved = FALSE /\ f.val = v
    BY <1>2 DEF Frames
  <1> HIDE DEF f
  <1>4. stack' = [stack EXCEPT ![Len(stack)] = f]
    BY DEF f
  <1>5. Len(stack') = Len(stack)
        /\ \A k \in 1 .. Len(stack) : stack'[k] = IF k = Len(stack) THEN f ELSE stack[k]
    BY <1>1, <1>3, <1>4, SetTopType
  <1> QED BY <1>2, <1>3, <1>5

\* Each action keeps ValueThreadsSurvivors.
LEMMA ReturnThreads ==
  ASSUME BusInv, ValueThreadsSurvivors, Return
  PROVE  ValueThreadsSurvivors'
  <1> DEFINE L == Len(stack)
             v == IF Top.hook \in Filters THEN Append(Top.val, Top.cur) ELSE Top.val
  <1>1. /\ stack \in Seq(Frames) /\ stack # <<>> /\ Top.cur # NoToken
        /\ UNCHANGED <<slots, tombs, undefined>>
    BY DEF BusInv, TypeOK, Return
  <1>2. Top \in Frames /\ L \in 1 .. L
    BY <1>1, TopType
  <1>3. Top.cur \in Tokens /\ Top.val \in Seq(Tokens) /\ Top.hook \in Hooks /\ Top.i \in Nat
    BY <1>1, <1>2 DEF Frames
  <1>4. v \in Seq(Tokens)
    BY <1>3, AppendProperties
  <1>5. stack' = [stack EXCEPT ![L] = [Top EXCEPT !.cur = NoToken, !.moved = FALSE, !.val = v]]
    BY <1>2 DEF Return, SetTop, Frames
  <1> HIDE DEF v
  <1>6. /\ Len(stack') = L /\ \A k \in 1 .. L : k # L => stack'[k] = stack[k]
        /\ stack'[L].hook = Top.hook /\ stack'[L].i = Top.i
        /\ stack'[L].cur = NoToken /\ stack'[L].val = v
    BY <1>1, <1>4, <1>5, TopEnds
  <1>7. SUFFICES ASSUME ~undefined, NEW k \in 1 .. L, FrameThreads(k) PROVE FrameThreads(k)'
    BY <1>1, <1>6, ValueMeans, ValueNext
  <1>8. CASE k # L
    BY <1>1, <1>6, <1>7, <1>8 DEF FrameThreads, Live
  <1>9. CASE k = L
    <2>1. SUFFICES ASSUME Top.hook \in Filters
                   PROVE  Threads(stack'[L], slots[Top.hook], Live(Top.hook))
      BY <1>1, <1>6, <1>9 DEF FrameThreads, Live
    <2> DEFINE S == slots[Top.hook]
               M == Live(Top.hook)
               c == Top.cur
               old == Top.val
    <2>2. Threads(Top, S, M)
      BY <1>7, <1>9, <2>1 DEF FrameThreads, Top
    <2>3. c \in S /\ RankIn(S, c) = Top.i
      BY <1>1, <1>2 DEF BusInv, IndexStable, Top, Rank
    <2>4. \A u \in S : u \in Nat /\ (RankIn(S, u) <= RankIn(S, c) => u <= c)
      BY <1>3, <2>3, Ranks DEF BusInv, Rank
    <2>5. v = Append(old, c)
      BY <2>1 DEF v
    <2> HIDE DEF S, M, c, old
    <2>6. /\ Len(old) \in Nat /\ Len(v) = Len(old) + 1 /\ v[Len(old) + 1] = c
          /\ \A j \in 1 .. Len(old) : v[j] = old[j]
      BY <1>3, <2>5, AppendProperties, LenProperties DEF c, old
    <2>7. Applied(stack'[L]) = Applied(Top) \cup {c}
      <3>1. \A j \in 1 .. Len(old) + 1 : j \in 1 .. Len(old) \/ j = Len(old) + 1
        BY <2>6
      <3>2. {v[j] : j \in 1 .. Len(v)} = {old[j] : j \in 1 .. Len(old)} \cup {c}
        BY <2>6, <3>1
      <3> QED BY <1>6, <3>2 DEF Applied, old
    <2>8. Passed(stack'[L], S) = Passed(Top, S) \cup {c}
      <3>1. 0 \notin S
        BY <1>3 DEF S, BusInv, TypeOK, Tokens
      <3>2. RankIn(S, c) <= Top.i
        BY <1>3, <2>3
      <3> QED BY <1>6, <2>3, <3>1, <3>2 DEF Passed, c, NoToken
    <2>9. ASSUME NEW j \in 1 .. Len(v) - 1 PROVE v[j] < v[j + 1]
      <3>1. CASE j = Len(old)
        <4>1. old[j] \in Applied(Top)
          BY <2>6, <2>9, <3>1 DEF Applied, old
        <4>2. old[j] \in S /\ RankIn(S, old[j]) <= Top.i /\ old[j] # c
          BY <2>2, <4>1 DEF Threads, Passed, c
        <4>3. old[j] \in Nat /\ old[j] <= c /\ c \in Nat
          BY <2>3, <2>4, <4>2
        <4> QED BY <2>6, <2>9, <3>1, <4>2, <4>3
      <3>2. CASE j # Len(old)
        <4>1. j \in 1 .. Len(old) - 1 /\ j \in 1 .. Len(old) /\ j + 1 \in 1 .. Len(old)
          BY <2>6, <2>9, <3>2
        <4>2. old[j] < old[j + 1]
          BY <2>2, <4>1 DEF Threads, old
        <4> QED BY <2>6, <4>1, <4>2
      <3> QED BY <3>1, <3>2
    <2> QED BY <1>6, <2>2, <2>7, <2>8, <2>9 DEF Threads, S, M
  <1> QED BY <1>8, <1>9

LEMMA ThrowThreads ==
  ASSUME BusInv, ValueThreadsSurvivors, Throw
  PROVE  ValueThreadsSurvivors'
  <1> DEFINE L == Len(stack)
             c == Top.cur
  <1>0. CASE Top.moved
    BY <1>0, ValueNext DEF Throw
  <1>1. CASE ~Top.moved
    <2>1. /\ stack \in Seq(Frames) /\ stack # <<>> /\ c # NoToken
          /\ undefined' = (undefined \/ Top.moved)
      BY DEF BusInv, TypeOK, Throw
    <2>2. Top \in Frames /\ L \in 1 .. L
      BY <2>1, TopType
    <2>9. PICK h \in Hooks : h = Top.hook
      BY <1>1, ThrowDrops
    <2> DEFINE gone == OwnedBy(h, owner[h][c])
    <2>3. c \in slots[h] /\ Drops(gone)
      BY <1>1, <2>9, ThrowDrops
    <2>4. stack' = [stack EXCEPT ![L] =
                      [Top EXCEPT !.cur = NoToken, !.moved = FALSE, !.val = Top.val]]
          /\ Top.val \in Seq(Tokens)
      BY <2>2 DEF Throw, SetTop, Frames
    <2>5. /\ Len(stack') = L /\ \A k \in 1 .. L : k # L => stack'[k] = stack[k]
          /\ stack'[L].hook = h /\ stack'[L].i = Top.i
          /\ stack'[L].cur = NoToken /\ stack'[L].val = Top.val
      BY <2>1, <2>4, <2>9, TopEnds
    <2>6. SUFFICES ASSUME ~undefined, NEW k \in 1 .. L, FrameThreads(k) PROVE FrameThreads(k)'
      BY <2>1, <2>5, ValueMeans, ValueNext
    <2>7. CASE k # L
      <3> HIDE DEF gone
      <3> QED BY <2>3, <2>5, <2>6, <2>7, DropsThread
    <2>8. CASE k = L
      <3> DEFINE S == slots[h]
                 M == Live(h)
                 N == M \ gone[h]
      <3>1. SUFFICES ASSUME h \in Filters PROVE Threads(stack'[L], S, N)
        <4>1. slots'[h] = S /\ Live(h)' = N
          BY <2>2, <2>3, <2>5 DEF Drops
        <4> QED BY <2>5, <2>8, <4>1 DEF FrameThreads, Live
      <3>2. Threads(Top, S, M)
        BY <2>6, <2>8, <2>9, <3>1 DEF FrameThreads, Top
      <3>3. c \notin N
        BY <2>3 DEF OwnedBy, Reach, Live
      <3> HIDE DEF S, M, N
      <3>4. N \subseteq M
        BY DEF N
      <3>5. Applied(stack'[L]) = Applied(Top)
        BY <2>5 DEF Applied
      <3>6. /\ Passed(stack'[L], S) \subseteq Passed(Top, S) \cup {c}
            /\ Passed(Top, S) \subseteq Passed(stack'[L], S)
        <4>1. 0 \notin S
          BY <2>3 DEF S, BusInv, TypeOK, Tokens
        <4> QED BY <2>5, <4>1 DEF Passed, NoToken
      <3> QED BY <2>5, <3>2, <3>3, <3>4, <3>5, <3>6 DEF Threads
    <2> QED BY <2>7, <2>8
  <1> QED BY <1>0, <1>1

LEMMA UnsubscribeThreads ==
  ASSUME BusInv, ValueThreadsSurvivors, NEW h \in Hooks, NEW t \in Tokens, Unsubscribe(h, t)
  PROVE  ValueThreadsSurvivors'
  <1> DEFINE gone == [g \in Hooks |-> IF g = h THEN {t} ELSE {}]
  <1>1. Drops(gone)
    BY UnsubscribeDrops
  <1> HIDE DEF gone
  <1>2. stack' = stack /\ undefined' = undefined
    BY DEF Unsubscribe
  <1> QED BY <1>1, <1>2, DropsThread, ValueMeans, ValueNext

LEMMA EmitEndThreads ==
  ASSUME BusInv, ValueThreadsSurvivors, EmitEnd
  PROVE  ValueThreadsSurvivors'
  <1>1. Drops(Nothing)
    BY EmitEndDrops
  <1>2. undefined' = undefined /\ stack \in Seq(Frames) /\ stack # <<>> /\ stack' = Below
    BY DEF EmitEnd, InLoop, BusInv, TypeOK
  <1>3. /\ Len(stack') = Len(stack) - 1 /\ Len(stack) \in Nat \ {0}
        /\ \A k \in 1 .. Len(stack) - 1 : stack'[k] = stack[k]
    BY <1>2, BelowType, TopType
  <1>4. ASSUME NEW k \in 1 .. Len(stack'), FrameThreads(k) PROVE FrameThreads(k)'
    BY <1>1, <1>3, <1>4, DropsThread
  <1>5. \A k \in 1 .. Len(stack') : k \in 1 .. Len(stack)
    BY <1>3
  <1> QED BY <1>2, <1>4, <1>5, ValueMeans, ValueNext

LEMMA EmitThreads ==
  ASSUME BusInv, ValueThreadsSurvivors, NEW h \in Hooks, Emit(h)
  PROVE  ValueThreadsSurvivors'
  <1> DEFINE f == [hook |-> h, n |-> Cardinality(slots[h]), i |-> 0,
                   cur |-> NoToken, moved |-> FALSE, val |-> <<>>]
             L == Len(stack)
  <1>1. f \in Frames /\ f.hook = h /\ f.i = 0 /\ f.cur = NoToken /\ f.val = <<>>
    BY SlotsFinite, EmptySeq DEF Frames, BusInv
  <1>2. stack' = Append(stack, f) /\ UNCHANGED <<slots, tombs, undefined>>
    BY DEF Emit
  <1> HIDE DEF f
  <1>3. /\ L \in Nat /\ Len(stack') = L + 1 /\ stack'[L + 1] = f
        /\ \A k \in 1 .. L : stack'[k] = stack[k]
    BY <1>1, <1>2, PushType DEF TypeOK, BusInv
  <1>4. \A k \in 1 .. L : FrameThreads(k) => FrameThreads(k)'
    BY <1>2, <1>3 DEF FrameThreads, Live
  <1>5. PICK m : m = L + 1
    OBVIOUS
  <1>7. FrameThreads(m)'
    <2>1. Len(<<>>) = 0 /\ 1 .. 0 = {} /\ 1 .. 0 - 1 = {}
      BY EmptySeq
    <2>2. Applied(f) = {}
      BY <1>1, <2>1 DEF Applied
    <2>3. Passed(f, slots[h]) = {}
      <3>1. \A t \in slots[h] : ~(RankIn(slots[h], t) <= 0)
        BY Ranks DEF BusInv, Rank
      <3> QED BY <1>1, <3>1 DEF Passed
    <2>4. Threads(f, slots[h], Live(h))
      BY <1>1, <2>1, <2>2, <2>3 DEF Threads
    <2> QED BY <1>1, <1>2, <1>3, <1>5, <2>4 DEF FrameThreads, Live
  <1>6. \A k \in 1 .. Len(stack') : k \in 1 .. L \/ k = m
    BY <1>3, <1>5
  <1> QED BY <1>2, <1>4, <1>6, <1>7, ValueMeans, ValueNext

LEMMA VisitThreads ==
  ASSUME BusInv, ValueThreadsSurvivors, NEW t \in Tokens, Visit(t)
  PROVE  ValueThreadsSurvivors'
  <1> DEFINE L == Len(stack)
             c == IF t \in tombs[Top.hook] THEN NoToken ELSE t
             f == [Top EXCEPT !.i = @ + 1, !.cur = c]
  <1>1. /\ stack \in Seq(Frames) /\ stack # <<>> /\ Top.cur = NoToken
        /\ UNCHANGED <<slots, tombs, undefined>>
        /\ t \in slots[Top.hook] /\ Rank(Top.hook, t) = Top.i + 1
    BY DEF BusInv, TypeOK, Visit, InLoop
  <1>2. Top \in Frames /\ L \in 1 .. L
    BY <1>1, TopType
  <1>3. /\ Top.hook \in Hooks /\ Top.i \in Nat
        /\ f \in Frames /\ f.hook = Top.hook /\ f.i = Top.i + 1 /\ f.cur = c /\ f.val = Top.val
    <2>1. c \in Tokens \cup {NoToken} /\ Top.i + 1 \in Nat
      BY <1>2 DEF Frames
    <2> HIDE DEF c
    <2> QED BY <1>2, <2>1 DEF Frames
  <1>4. stack' = [stack EXCEPT ![L] = f]
    BY DEF Visit, SetTop
  <1> HIDE DEF f
  <1>5. /\ Len(stack') = L
        /\ \A k \in 1 .. L : stack'[k] = IF k = L THEN f ELSE stack[k]
    BY <1>1, <1>3, <1>4, SetTopType
  <1>6. SUFFICES ASSUME NEW k \in 1 .. L, FrameThreads(k) PROVE FrameThreads(k)'
    BY <1>1, <1>5, ValueMeans, ValueNext
  <1>7. CASE k # L
    BY <1>1, <1>5, <1>6, <1>7 DEF FrameThreads, Live
  <1>8. CASE k = L
    <2> DEFINE S == slots[Top.hook]
               M == Live(Top.hook)
    <2>1. SUFFICES ASSUME Top.hook \in Filters PROVE Threads(f, S, M)
      BY <1>1, <1>2, <1>3, <1>5, <1>8 DEF FrameThreads, Live
    <2>2. Threads(Top, S, M)
      BY <1>6, <1>8, <2>1 DEF FrameThreads, Top
    <2>3. /\ \A u \in S : u \in Nat /\ RankIn(S, u) \in Nat
          /\ \A u \in S : RankIn(S, u) = RankIn(S, t) => u = t
          /\ t \in S /\ RankIn(S, t) = Top.i + 1 /\ 0 \notin S
          /\ (c = NoToken /\ t \notin M) \/ c = t
      <3>1. TypeOK
        BY DEF BusInv
      <3>2. 0 \notin S
        BY <1>3, <3>1 DEF TypeOK, Tokens
      <3>3. (c = NoToken /\ t \notin M) \/ c = t
        BY DEF Live
      <3>4. t \in S /\ RankIn(S, t) = Top.i + 1
        BY <1>1 DEF Rank
      <3> QED BY <1>3, <3>1, <3>2, <3>3, <3>4, Ranks DEF Rank
    <2> HIDE DEF S, M, c
    <2>4. \A u \in S : RankIn(S, u) <= Top.i + 1 <=> (RankIn(S, u) <= Top.i \/ u = t)
      BY <1>3, <2>3
    <2>5. Applied(f) = Applied(Top)
      BY <1>3 DEF Applied
    <2>6. t \notin Passed(Top, S)
      BY <1>3, <2>3 DEF Passed
    <2>7. CASE c = t
      <3>1. Passed(f, S) = Passed(Top, S)
        BY <1>1, <1>3, <2>3, <2>4, <2>6, <2>7 DEF Passed, NoToken
      <3> QED BY <1>3, <2>2, <2>5, <3>1 DEF Threads
    <2>8. CASE c = NoToken /\ t \notin M
      <3>1. Passed(f, S) = Passed(Top, S) \cup {t}
        BY <1>1, <1>3, <2>3, <2>4, <2>8 DEF Passed, NoToken
      <3> QED BY <1>3, <2>2, <2>5, <2>8, <3>1 DEF Threads
    <2> QED BY <2>3, <2>7, <2>8
  <1> QED BY <1>7, <1>8

\* A subscription moves no dispatch; it may make the entries of its hook suspect.
LEMMA SubscribePlaces ==
  ASSUME BusInv, NEW h \in Hooks, NEW who \in Owners, Subscribe(h, who)
  PROVE  /\ Len(stack') = Len(stack) /\ Len(stack) \in Nat
         /\ \E full \in BOOLEAN : \A k \in 1 .. Len(stack) :
              stack'[k] = [stack[k] EXCEPT !.moved = @ \/ (full /\ stack[k].hook = h)]
         /\ \A k \in 1 .. Len(stack) :
              /\ stack[k] \in Frames
              /\ stack'[k].hook = stack[k].hook /\ stack'[k].n = stack[k].n
              /\ stack'[k].i = stack[k].i /\ stack'[k].cur = stack[k].cur
              /\ stack'[k].val = stack[k].val
  <1> DEFINE L == Len(stack)
  <1>1. L \in Nat /\ \A k \in 1 .. L : stack[k] \in Frames
    BY LenProperties, ElementOfSeq DEF BusInv, TypeOK
  <1>2. PICK full \in BOOLEAN :
          stack' = [k \in 1 .. L |->
                      [stack[k] EXCEPT !.moved = @ \/ (full /\ stack[k].hook = h)]]
    BY DEF Subscribe
  <1>3. \A k \in 1 .. L :
          stack'[k] = [stack[k] EXCEPT !.moved = @ \/ (full /\ stack[k].hook = h)]
    BY <1>2
  <1>4. \A k \in 1 .. L :
          /\ stack'[k] \in Frames
          /\ stack'[k].hook = stack[k].hook /\ stack'[k].n = stack[k].n
          /\ stack'[k].i = stack[k].i /\ stack'[k].cur = stack[k].cur
          /\ stack'[k].val = stack[k].val
    <2> SUFFICES ASSUME NEW k \in 1 .. L
                 PROVE  /\ stack'[k] \in Frames
                        /\ stack'[k].hook = stack[k].hook /\ stack'[k].n = stack[k].n
                        /\ stack'[k].i = stack[k].i /\ stack'[k].cur = stack[k].cur
                        /\ stack'[k].val = stack[k].val
      OBVIOUS
    <2>1. stack[k] \in Frames
          /\ stack'[k] = [stack[k] EXCEPT !.moved = @ \/ (full /\ stack[k].hook = h)]
      BY <1>1, <1>3
    <2> QED BY <2>1 DEF Frames
  <1>5. Len(stack') = L
    BY <1>1, <1>2
  <1> QED BY <1>1, <1>3, <1>4, <1>5

LEMMA SubscribeThreads ==
  ASSUME BusInv, ValueThreadsSurvivors, NEW h \in Hooks, NEW who \in Owners, Subscribe(h, who)
  PROVE  ValueThreadsSurvivors'
  <1> DEFINE L == Len(stack)
             t == next_token[h] + 1
  <1>1. /\ slots' = [slots EXCEPT ![h] = @ \cup {t}] /\ t \notin slots[h]
        /\ \A g \in Hooks : \A u \in slots[g] : RankIn(slots'[g], u) = RankIn(slots[g], u)
        /\ RankIn(slots'[h], t) = Cardinality(slots[h]) + 1
        /\ \A g \in Hooks : Live(g)' = IF g = h THEN Live(g) \cup {t} ELSE Live(g)
    BY NewRank
  <1> HIDE DEF t
  <1>2. /\ Len(stack') = L /\ \A k \in 1 .. L :
             /\ stack[k] \in Frames
             /\ stack'[k].hook = stack[k].hook /\ stack'[k].i = stack[k].i
             /\ stack'[k].cur = stack[k].cur /\ stack'[k].val = stack[k].val
    BY SubscribePlaces
  <1>3. SUFFICES ASSUME NEW k \in 1 .. L, FrameThreads(k) PROVE FrameThreads(k)'
    BY <1>2, ValueMeans, ValueNext DEF Subscribe
  <1>4. PICK g \in Hooks : g = stack[k].hook
    BY <1>2 DEF Frames
  <1>5. ASSUME g \in Filters PROVE Threads(stack'[k], slots'[g], Live(g)')
    <2>1. Threads(stack[k], slots[g], Live(g))
      BY <1>3, <1>4, <1>5 DEF FrameThreads
    <2>2. Applied(stack'[k]) = Applied(stack[k])
      BY <1>2 DEF Applied
    <2>3. Passed(stack'[k], slots'[g]) = Passed(stack[k], slots[g])
      <3>1. CASE g = h
        <4>1. slots'[g] = slots[g] \cup {t}
          BY <1>1, <3>1 DEF BusInv, TypeOK
        <4>2. ~(RankIn(slots'[g], t) <= stack[k].i)
          <5>1. /\ stack[k].i <= stack[k].n /\ stack[k].n <= Cardinality(slots[g])
                /\ stack[k].i \in Nat /\ stack[k].n \in Nat /\ Cardinality(slots[g]) \in Nat
            BY <1>2, <1>4, SlotsFinite DEF BusInv, IndexStable, Frames
          <5> QED BY <1>1, <3>1, <5>1
        <4> QED BY <1>1, <1>2, <4>1, <4>2 DEF Passed
      <3>2. CASE g # h
        <4>1. slots'[g] = slots[g]
          BY <1>1, <3>2 DEF BusInv, TypeOK
        <4> QED BY <1>2, <4>1 DEF Passed
      <3> QED BY <3>1, <3>2
    <2>4. Live(g)' \cap Passed(stack[k], slots[g]) \subseteq Live(g)
      BY <1>1 DEF Passed
    <2> QED BY <1>2, <2>1, <2>2, <2>3, <2>4 DEF Threads
  <1> QED BY <1>2, <1>4, <1>5 DEF FrameThreads, Live

LEMMA InitThreads == Init => ValueThreadsSurvivors
  BY EmptySeq, ValueMeans DEF Init

LEMMA NextThreads ==
  BusInv /\ ValueThreadsSurvivors /\ [Next]_vars => ValueThreadsSurvivors'
  <1> SUFFICES ASSUME BusInv, ValueThreadsSurvivors, [Next]_vars
               PROVE  ValueThreadsSurvivors'
    OBVIOUS
  <1>1. CASE UNCHANGED vars
    BY <1>1, ValueMeans, ValueNext DEF vars, FrameThreads, Live
  <1>2. ASSUME NEW h \in Hooks, NEW who \in Owners, Subscribe(h, who)
        PROVE  ValueThreadsSurvivors'
    BY <1>2, SubscribeThreads
  <1>3. ASSUME NEW h \in Hooks, NEW t \in Tokens, Unsubscribe(h, t)
        PROVE  ValueThreadsSurvivors'
    BY <1>3, UnsubscribeThreads
  <1>4. ASSUME NEW h \in Hooks, Emit(h) PROVE ValueThreadsSurvivors'
    BY <1>4, EmitThreads
  <1>5. ASSUME NEW t \in Tokens, Visit(t) PROVE ValueThreadsSurvivors'
    BY <1>5, VisitThreads
  <1>6. CASE Return
    BY <1>6, ReturnThreads
  <1>7. CASE Throw
    BY <1>7, ThrowThreads
  <1>8. CASE EmitEnd
    BY <1>8, EmitEndThreads
  <1> QED BY <1>1, <1>2, <1>3, <1>4, <1>5, <1>6, <1>7, <1>8 DEF Next

\* However the callbacks of a chain subscribe, drop, nest and throw, the value apply()
\* carries has been through each surviving link it has passed, once and in order
\* (hooks.hpp:262-282), until a dangling entry is read.
THEOREM ValuePassesSurvivors == Spec => []ValueThreadsSurvivors
  <1>1. Init => BusInv /\ ValueThreadsSurvivors
    BY InitBus, InitThreads
  <1>2. BusInv /\ ValueThreadsSurvivors /\ [Next]_vars => (BusInv /\ ValueThreadsSurvivors)'
    BY NextKeepsBus, NextThreads
  <1> QED BY <1>1, <1>2, PTL DEF Spec

-----------------------------------------------------------------------------
LEMMA NextHeld == BusInv /\ LiveIsHeld /\ [Next]_vars => LiveIsHeld'
  <1> SUFFICES ASSUME BusInv, LiveIsHeld, [Next]_vars PROVE LiveIsHeld'
    OBVIOUS
  <1>1. CASE UNCHANGED vars
    BY <1>1 DEF vars, LiveIsHeld, Live
  <1>2. ASSUME NEW h \in Hooks, NEW who \in Owners, Subscribe(h, who) PROVE LiveIsHeld'
    <2>1. \A g \in Hooks : Live(g)' = IF g = h THEN Live(g) \cup {next_token[h] + 1} ELSE Live(g)
      BY <1>2, NewRank
    <2>2. handles' = handles \cup {<<h, next_token[h] + 1>>}
      BY <1>2 DEF Subscribe
    <2> QED BY <2>1, <2>2 DEF LiveIsHeld
  <1>3. ASSUME NEW h \in Hooks, NEW t \in Tokens, Unsubscribe(h, t) PROVE LiveIsHeld'
    <2>1. \A g \in Hooks : Live(g)' = Live(g) \ (IF g = h THEN {t} ELSE {})
      BY <1>3, UnsubscribeDrops DEF Drops
    <2>2. handles' = handles \ {<<h, t>>}
      BY <1>3 DEF Unsubscribe
    <2> QED BY <2>1, <2>2 DEF LiveIsHeld
  <1>4. ASSUME NEW h \in Hooks, Emit(h) PROVE LiveIsHeld'
    BY <1>4 DEF Emit, LiveIsHeld, Live
  <1>5. ASSUME NEW t \in Tokens, Visit(t) PROVE LiveIsHeld'
    BY <1>5 DEF Visit, LiveIsHeld, Live
  <1>6. CASE Return
    BY <1>6 DEF Return, LiveIsHeld, Live
  <1>7. CASE Throw
    <2>1. PICK H, who : Purge(H, who)
      BY <1>7 DEF Throw, DisableOwner
    <2>2. \A g \in Hooks : Live(g)' \subseteq Live(g)
      BY <2>1 DEF Purge, Compact, Live
    <2>3. handles' = handles
      BY <1>7 DEF Throw
    <2> QED BY <2>2, <2>3 DEF LiveIsHeld
  <1>8. CASE EmitEnd
    <2>1. \A g \in Hooks : Live(g)' = Live(g)
      BY <1>8, EmitEndDrops DEF Drops, Nothing
    <2>2. handles' = handles
      BY <1>8 DEF EmitEnd
    <2> QED BY <2>1, <2>2 DEF LiveIsHeld
  <1> QED BY <1>1, <1>2, <1>3, <1>4, <1>5, <1>6, <1>7, <1>8 DEF Next

\* A callback that may still run is owned by an active Subscription, also one dropped or
\* purged in the middle of a dispatch (hooks.hpp:100-104).
THEOREM ListenersAreOwned == Spec => []LiveIsHeld
  <1>1. Init => LiveIsHeld
    BY DEF Init, LiveIsHeld, Live
  <1> QED BY <1>1, InitBus, NextKeepsBus, NextHeld, PTL DEF Spec

-----------------------------------------------------------------------------
(***************************************************************************)
(* The bus implements EventDelivery: under the view promised_live and      *)
(* promised_calls, every step is a step of the promise or a stutter.       *)
(***************************************************************************)

\* The calls of the promise are the dispatches on the stack.
LEMMA CallsAre ==
  ASSUME TypeOK
  PROVE  /\ Len(stack) \in Nat /\ Len(promised_calls) = Len(stack)
         /\ promised_calls # <<>> <=> stack # <<>>
         /\ DOMAIN promised_calls = 1 .. Len(stack)
         /\ \A k \in 1 .. Len(stack) : /\ promised_calls[k] = Promise(stack[k])
                                       /\ stack[k] \in Frames
         /\ stack # <<>> => /\ Top \in Frames /\ Len(stack) \in 1 .. Len(stack)
                            /\ Delivery!Running = Promise(Top)
  <1> DEFINE L == Len(stack)
  <1>1. L \in Nat /\ stack \in Seq(Frames) /\ \A k \in 1 .. L : stack[k] \in Frames
    BY LenProperties, ElementOfSeq DEF TypeOK
  <1>2. promised_calls = [k \in 1 .. L |-> Promise(stack[k])]
    BY DEF promised_calls
  <1>3. Len(promised_calls) = L /\ DOMAIN promised_calls = 1 .. L
    BY <1>1, <1>2
  <1>4. promised_calls # <<>> <=> stack # <<>>
    <2>1. stack # <<>> <=> L # 0
      BY <1>1, EmptySeq
    <2>2. promised_calls = <<>> => L = 0
      BY <1>3, EmptySeq
    <2>3. L = 0 => promised_calls = <<>>
      BY <1>2
    <2> QED BY <2>1, <2>2, <2>3
  <1>5. stack # <<>> => /\ Top \in Frames /\ L \in 1 .. L
                        /\ Delivery!Running = Promise(Top)
    BY <1>1, <1>2, <1>3, TopType DEF Top, Delivery!Running
  <1> QED BY <1>1, <1>2, <1>3, <1>4, <1>5

LEMMA BothInUserCode == ASSUME TypeOK, InUserCode PROVE Delivery!InUserCode
  BY CallsAre DEF InUserCode, Delivery!InUserCode, Promise, NoToken, Delivery!NoToken

\* A call that owes less.
LEMMA PromiseLess ==
  ASSUME NEW f, NEW gone
  PROVE  [Promise(f) EXCEPT !.todo = @ \ gone[Promise(f).hook]] =
           [hook |-> f.hook, todo |-> Owed(f) \ gone[f.hook], cur |-> f.cur,
            suspect |-> f.moved, val |-> f.val]
  BY DEF Promise

\* The calls of the promise, as records compared field by field.
Calls ==
  [hook: Hooks, todo: SUBSET Tokens, cur: Tokens \cup {NoToken}, suspect: BOOLEAN,
   val: Seq(Tokens)]

LEMMA SameCall ==
  ASSUME NEW p \in Calls, NEW q \in Calls, p.hook = q.hook, p.todo = q.todo,
         p.cur = q.cur, p.suspect = q.suspect, p.val = q.val
  PROVE  p = q
  BY DEF Calls

LEMMA PromiseType ==
  ASSUME TypeOK, NEW f \in Frames
  PROVE  /\ Promise(f) \in Calls
         /\ Promise(f).hook = f.hook /\ Promise(f).todo = Owed(f) /\ Promise(f).cur = f.cur
         /\ Promise(f).suspect = f.moved /\ Promise(f).val = f.val
  <1>1. Owed(f) \in SUBSET Tokens
    BY DEF Owed, Live, TypeOK, Frames
  <1> QED BY <1>1 DEF Promise, Calls, Frames

LEMMA AppendIs ==
  ASSUME NEW S, NEW s \in Seq(S), NEW x \in S
  PROVE  Append(s, x) = [i \in 1 .. Len(s) + 1 |-> IF i = Len(s) + 1 THEN x ELSE s[i]]
  <1> DEFINE a == Append(s, x)
             n == Len(s)
  <1>1. /\ a \in Seq(S) /\ Len(a) = n + 1 /\ n \in Nat /\ a[n + 1] = x
        /\ \A i \in 1 .. n : a[i] = s[i]
    BY AppendProperties, LenProperties
  <1> HIDE DEF a, n
  <1>2. a = [i \in 1 .. n + 1 |-> a[i]]
    BY <1>1, LenProperties
  <1>3. \A i \in 1 .. n + 1 : a[i] = IF i = n + 1 THEN x ELSE s[i]
    <2>1. \A i \in 1 .. n + 1 : i = n + 1 \/ i \in 1 .. n
      BY <1>1
    <2> QED BY <1>1, <2>1
  <1>4. a = [i \in 1 .. n + 1 |-> IF i = n + 1 THEN x ELSE s[i]]
    BY <1>2, <1>3
  <1> QED BY <1>4 DEF a, n

LEMMA OwedIsLive == \A f : Owed(f) \subseteq Live(f.hook)
  BY DEF Owed

LEMMA InitDelivers == Init => Delivery!Init
  <1> SUFFICES ASSUME Init PROVE Delivery!Init
    OBVIOUS
  <1>1. promised_live = [h \in Hooks |-> {}]
    BY DEF Init, promised_live, Live
  <1>2. stack = <<>> /\ TypeOK
    BY InitBus DEF Init, BusInv
  <1>3. promised_calls = <<>>
    BY <1>2, CallsAre
  <1>4. owner \in [Hooks -> [Tokens -> Owners]] /\ undefined = FALSE
    BY DEF Init, Owners
  <1> QED BY <1>1, <1>3, <1>4 DEF Delivery!Init

\* What a dispatch owes when its hook loses listeners.
LEMMA OwedDrops ==
  ASSUME NEW gone, Drops(gone), NEW k \in 1 .. Len(stack'),
         stack'[k].hook = stack[k].hook, stack'[k].i = stack[k].i, stack'[k].n = stack[k].n
  PROVE  Owed(stack[k])' = Owed(stack[k]) \ gone[stack[k].hook]
  <1>1. PICK h \in Hooks : h = stack[k].hook
    BY DEF Drops
  <1>2. slots'[h] = slots[h] /\ Live(h)' = Live(h) \ gone[h]
    BY <1>1 DEF Drops
  <1>3. Owed(stack[k])' =
          {t \in Live(h)' : RankIn(slots'[h], t) > stack'[k].i /\ RankIn(slots'[h], t) <= stack'[k].n}
    BY <1>1 DEF Owed, Live, Rank
  <1>4. Owed(stack[k]) =
          {t \in Live(h) : RankIn(slots[h], t) > stack[k].i /\ RankIn(slots[h], t) <= stack[k].n}
    BY <1>1 DEF Owed, Rank
  <1> QED BY <1>1, <1>2, <1>3, <1>4

LEMMA LiveDrops ==
  ASSUME NEW gone, Drops(gone)
  PROVE  promised_live' = [h \in Hooks |-> promised_live[h] \ gone[h]]
  BY DEF Drops, promised_live

\* Dropping a live listener is Drop; dropping a tombstoned one changes no promise.
LEMMA UnsubscribeDelivers ==
  ASSUME BusInv, NEW h \in Hooks, NEW t \in Tokens, Unsubscribe(h, t)
  PROVE  [Delivery!Next]_Delivery!vars
  <1> DEFINE gone == [g \in Hooks |-> IF g = h THEN {t} ELSE {}]
             L == Len(stack)
  <1>1. Drops(gone)
    BY UnsubscribeDrops
  <1>2. stack' = stack /\ UNCHANGED <<owner, undefined>> /\ Delivery!InUserCode
    BY BothInUserCode DEF Unsubscribe, BusInv
  <1>3. promised_live' = [g \in Hooks |-> promised_live[g] \ gone[g]]
    BY <1>1, LiveDrops
  <1>4. \A k \in 1 .. L : stack[k].hook \in Hooks
                          /\ Owed(stack[k])' = Owed(stack[k]) \ gone[stack[k].hook]
    BY <1>1, <1>2, OwedDrops DEF Drops
  <1> HIDE DEF gone
  <1>5. promised_calls' =
          [k \in 1 .. L |-> [promised_calls[k] EXCEPT !.todo = @ \ gone[promised_calls[k].hook]]]
    <2>1. promised_calls' = [k \in 1 .. L |-> Promise(stack[k])']
      BY <1>2 DEF promised_calls
    <2>2. ASSUME NEW k \in 1 .. L
          PROVE  Promise(stack[k])' =
                   [promised_calls[k] EXCEPT !.todo = @ \ gone[promised_calls[k].hook]]
      <3>1. promised_calls[k] = Promise(stack[k])
        BY CallsAre DEF BusInv
      <3>2. Promise(stack[k])' = [hook |-> stack[k].hook, todo |-> Owed(stack[k])',
              cur |-> stack[k].cur, suspect |-> stack[k].moved, val |-> stack[k].val]
        BY <1>2 DEF Promise
      <3>3. [Promise(stack[k]) EXCEPT !.todo = @ \ gone[Promise(stack[k]).hook]] =
              [hook |-> stack[k].hook, todo |-> Owed(stack[k]) \ gone[stack[k].hook],
               cur |-> stack[k].cur, suspect |-> stack[k].moved, val |-> stack[k].val]
        BY PromiseLess
      <3> QED BY <1>4, <3>1, <3>2, <3>3
    <2> QED BY <2>1, <2>2
  <1>6. Len(promised_calls) = L
    BY CallsAre DEF BusInv
  <1>7. CASE t \in Live(h)
    <2>1. t \in promised_live[h]
      BY <1>7 DEF promised_live
    <2>2. Delivery!Forget([g \in Hooks |-> IF g = h THEN {t} ELSE {}], promised_calls)
      BY <1>3, <1>5, <1>6 DEF Delivery!Forget, gone
    <2>3. Delivery!Drop(h, t)
      BY <1>2, <2>1, <2>2 DEF Delivery!Drop
    <2> QED BY <2>3 DEF Delivery!Next
  <1>8. CASE t \notin Live(h)
    <2>1. \A g \in Hooks : Live(g) \ gone[g] = Live(g)
      BY <1>8 DEF gone
    <2>2. promised_live' = promised_live
      BY <1>3, <2>1 DEF promised_live
    <2>3. ASSUME NEW k \in 1 .. L
          PROVE  [promised_calls[k] EXCEPT !.todo = @ \ gone[promised_calls[k].hook]]
                   = promised_calls[k]
      <3>1. promised_calls[k] = Promise(stack[k])
        BY CallsAre DEF BusInv
      <3>2. Owed(stack[k]) \ gone[stack[k].hook] = Owed(stack[k])
        BY <1>4, <2>1, OwedIsLive
      <3>3. [Promise(stack[k]) EXCEPT !.todo = @ \ gone[Promise(stack[k]).hook]] =
              [hook |-> stack[k].hook, todo |-> Owed(stack[k]) \ gone[stack[k].hook],
               cur |-> stack[k].cur, suspect |-> stack[k].moved, val |-> stack[k].val]
        BY PromiseLess
      <3> QED BY <3>1, <3>2, <3>3 DEF Promise
    <2>4. promised_calls = [k \in 1 .. L |-> promised_calls[k]]
      BY DEF promised_calls
    <2>5. promised_calls' = promised_calls
      BY <1>5, <2>3, <2>4
    <2> QED BY <1>2, <2>2, <2>5 DEF Delivery!vars
  <1> QED BY <1>7, <1>8

\* A new dispatch owes a call to every live listener.
LEMMA EmitDelivers ==
  ASSUME BusInv, NEW h \in Hooks, Emit(h)
  PROVE  Delivery!Next
  <1> DEFINE f == [hook |-> h, n |-> Cardinality(slots[h]), i |-> 0,
                   cur |-> NoToken, moved |-> FALSE, val |-> <<>>]
             call == [hook |-> h, todo |-> promised_live[h], cur |-> Delivery!NoToken,
                      suspect |-> FALSE, val |-> <<>>]
  <1>1. f \in Frames
    BY SlotsFinite, EmptySeq DEF Frames, BusInv
  <1>2. /\ stack' = Append(stack, f) /\ UNCHANGED <<slots, tombs, owner, undefined>>
        /\ Delivery!InUserCode
    BY BothInUserCode DEF Emit, BusInv
  <1>3. Promise(f) = call
    <2>1. Owed(f) = Live(h)
      BY Ranks DEF BusInv, Owed, Live
    <2> QED BY <2>1 DEF Promise, promised_live, NoToken, Delivery!NoToken
  <1> HIDE DEF f, call
  <1>4. PICK m \in Nat : m = Len(stack)
    BY CallsAre DEF BusInv
  <1>5. /\ Len(stack') = m + 1 /\ stack'[m + 1] = f
        /\ \A k \in 1 .. m : stack'[k] = stack[k]
    BY <1>1, <1>2, <1>4, PushType DEF TypeOK, BusInv
  <1>6. promised_live' = promised_live
    BY <1>2 DEF promised_live, Live
  <1>7. promised_calls' = Append(promised_calls, call)
    <2>1. \A k \in 1 .. m + 1 : Promise(stack[k])' = Promise(stack'[k])
      BY <1>2 DEF Promise, Owed, Live, Rank
    <2>2. promised_calls' = [k \in 1 .. m + 1 |-> Promise(stack'[k])]
      BY <1>5, <2>1 DEF promised_calls
    <2>3. promised_calls = [k \in 1 .. m |-> Promise(stack[k])]
      BY <1>4 DEF promised_calls
    <2>4. promised_calls' = [k \in 1 .. m + 1 |-> IF k = m + 1 THEN call ELSE promised_calls[k]]
      <3>1. \A k \in 1 .. m + 1 : k = m + 1 \/ k \in 1 .. m
        BY <1>4
      <3>2. \A k \in 1 .. m + 1 :
              Promise(stack'[k]) = IF k = m + 1 THEN call ELSE promised_calls[k]
        BY <1>3, <1>5, <2>3, <3>1
      <3> QED BY <2>2, <3>2
    <2>5. Append(promised_calls, call) =
            [k \in 1 .. m + 1 |-> IF k = m + 1 THEN call ELSE promised_calls[k]]
      <3> DEFINE C == {Promise(g) : g \in Frames}
      <3>1. Len(promised_calls) = m
        BY <1>4, CallsAre DEF BusInv
      <3>2. call \in C
        BY <1>1, <1>3
      <3>3. \A k \in 1 .. m : Promise(stack[k]) \in C
        BY <1>4, CallsAre DEF BusInv
      <3> HIDE DEF C
      <3>4. promised_calls \in [1 .. m -> C]
        BY <2>3, <3>3
      <3>5. promised_calls \in Seq(C)
        BY <1>4, <3>4, SeqDef
      <3> QED BY <3>1, <3>2, <3>5, AppendIs
    <2> QED BY <2>4, <2>5
  <1>8. Delivery!Dispatch(h)
    BY <1>2, <1>6, <1>7 DEF Delivery!Dispatch, call
  <1> QED BY <1>8 DEF Delivery!Next

\* Calling the entry at the index is delivering to the first listener still owed, and
\* passing a tombstone over changes no promise.
LEMMA VisitDelivers ==
  ASSUME BusInv, NEW t \in Tokens, Visit(t)
  PROVE  [Delivery!Next]_Delivery!vars
  <1> DEFINE c == IF t \in tombs[Top.hook] THEN NoToken ELSE t
             f == [Top EXCEPT !.i = @ + 1, !.cur = c]
             S == slots[Top.hook]
  <1>1. /\ TypeOK /\ stack \in Seq(Frames) /\ stack # <<>> /\ Top.cur = NoToken
        /\ UNCHANGED <<slots, tombs, owner, undefined>>
        /\ t \in S /\ RankIn(S, t) = Top.i + 1 /\ Top.i < Top.n
    BY DEF BusInv, TypeOK, Visit, InLoop, Rank
  <1>2. PICK L \in Nat : L = Len(stack)
    BY <1>1, CallsAre
  <1>3. /\ Top \in Frames /\ L \in 1 .. L /\ Delivery!Running = Promise(Top)
        /\ Len(promised_calls) = L /\ promised_calls # <<>>
    BY <1>1, <1>2, CallsAre
  <1>4. /\ Top.hook \in Hooks /\ Top.i \in Nat /\ Top.n \in Nat
        /\ f \in Frames /\ f.hook = Top.hook /\ f.i = Top.i + 1 /\ f.cur = c /\ f.val = Top.val
        /\ f.n = Top.n /\ f.moved = Top.moved
    <2>1. c \in Tokens \cup {NoToken} /\ Top.i + 1 \in Nat
      BY <1>3 DEF Frames
    <2> HIDE DEF c
    <2> QED BY <1>3, <2>1 DEF Frames
  <1>5. stack' = [stack EXCEPT ![L] = f]
    BY <1>2 DEF Visit, SetTop
  <1> HIDE DEF f
  <1>6. /\ Len(stack') = L
        /\ \A k \in 1 .. L : stack'[k] = IF k = L THEN f ELSE stack[k]
    BY <1>1, <1>2, <1>4, <1>5, SetTopType
  <1>7. promised_live' = promised_live
    BY <1>1 DEF promised_live, Live
  <1>8. promised_calls' = [promised_calls EXCEPT ![L] = Promise(f)]
    <2>1. \A k \in 1 .. L : Promise(stack[k])' = Promise(stack'[k])
      BY <1>1 DEF Promise, Owed, Live, Rank
    <2>2. promised_calls' = [k \in 1 .. L |-> Promise(stack'[k])]
      BY <1>6, <2>1 DEF promised_calls
    <2>3. promised_calls = [k \in 1 .. L |-> Promise(stack[k])]
      BY <1>2 DEF promised_calls
    <2>4. \A k \in 1 .. L :
            Promise(stack'[k]) = IF k = L THEN Promise(f) ELSE Promise(stack[k])
      BY <1>6
    <2> QED BY <1>3, <2>2, <2>3, <2>4
  <1>9. /\ \A u \in S : RankIn(S, u) \in Nat
        /\ \A u \in S : RankIn(S, u) = RankIn(S, t) => u = t
        /\ \A u \in S : RankIn(S, t) <= RankIn(S, u) => t <= u
        /\ \A g : g.hook = Top.hook => Owed(g) =
             {u \in Live(Top.hook) : RankIn(S, u) > g.i /\ RankIn(S, u) <= g.n}
        /\ Live(Top.hook) \subseteq S
    BY <1>1, <1>4, Ranks DEF Rank, Owed, Live
  <1> HIDE DEF S
  <1>10. Owed(f) = Owed(Top) \ {t}
    <2>1. \A u \in S : RankIn(S, u) > Top.i + 1 <=> (RankIn(S, u) > Top.i /\ u # t)
      BY <1>1, <1>4, <1>9
    <2> QED BY <1>4, <1>9, <2>1
  <1>11. CASE t \in tombs[Top.hook]
    <2>1. t \notin Owed(Top)
      BY <1>11 DEF Owed, Live
    <2>2. Promise(f) = Promise(Top)
      BY <1>1, <1>4, <1>10, <1>11, <2>1 DEF Promise
    <2>3. promised_calls[L] = Promise(Top) /\ DOMAIN promised_calls = 1 .. L
      BY <1>1, <1>2, <1>3, CallsAre DEF Top
    <2>4. promised_calls = [k \in 1 .. L |-> promised_calls[k]]
      BY <1>2 DEF promised_calls
    <2>5. promised_calls' = promised_calls
      BY <1>8, <2>2, <2>3, <2>4
    <2> QED BY <1>1, <1>7, <2>5 DEF Delivery!vars
  <1>12. CASE t \notin tombs[Top.hook]
    <2>1. t \in Owed(Top)
      <3>1. t \in Live(Top.hook)
        BY <1>1, <1>12 DEF Live, S
      <3> QED BY <1>1, <1>4, <1>9, <3>1
    <2>2. \A u \in Owed(Top) : t <= u
      <3>1. \A u \in Owed(Top) : u \in S /\ RankIn(S, u) > Top.i
        BY <1>9
      <3> QED BY <1>1, <1>4, <1>9, <3>1
    <2>3. Promise(f) = [Promise(Top) EXCEPT !.cur = t, !.todo = @ \ {t}]
      <3> DEFINE p == Promise(f)
                 q == [Promise(Top) EXCEPT !.cur = t, !.todo = @ \ {t}]
      <3>1. p \in Calls /\ p.hook = Top.hook /\ p.todo = Owed(Top) \ {t} /\ p.cur = t
            /\ p.suspect = Top.moved /\ p.val = Top.val
        BY <1>1, <1>4, <1>10, <1>12, PromiseType
      <3>2. q \in Calls /\ q.hook = Top.hook /\ q.todo = Owed(Top) \ {t} /\ q.cur = t
            /\ q.suspect = Top.moved /\ q.val = Top.val
        <4>1. /\ Promise(Top) \in Calls /\ Promise(Top).hook = Top.hook
              /\ Promise(Top).todo = Owed(Top) /\ Promise(Top).suspect = Top.moved
              /\ Promise(Top).val = Top.val
          BY <1>1, <1>3, PromiseType
        <4> HIDE DEF p
        <4> QED BY <4>1 DEF Calls
      <3> HIDE DEF p, q
      <3>3. p = q
        BY <3>1, <3>2, SameCall
      <3> QED BY <3>3 DEF p, q
    <2>4. Delivery!SetRunning([Promise(Top) EXCEPT !.cur = t, !.todo = @ \ {t}])
      BY <1>3, <1>8, <2>3 DEF Delivery!SetRunning
    <2>5. Promise(Top).todo = Owed(Top) /\ Promise(Top).cur = Delivery!NoToken
      BY <1>1 DEF Promise, NoToken, Delivery!NoToken
    <2>6. Delivery!Deliver(t)
      BY <1>1, <1>3, <1>7, <2>1, <2>2, <2>4, <2>5 DEF Delivery!Deliver
    <2> QED BY <2>6 DEF Delivery!Next
  <1> QED BY <1>11, <1>12

\* A step of the topmost dispatch that leaves the hooks alone.
LEMMA SetTopCalls ==
  ASSUME TypeOK, stack # <<>>, UNCHANGED <<slots, tombs>>, NEW f \in Frames,
         stack' = [stack EXCEPT ![Len(stack)] = f]
  PROVE  /\ promised_live' = promised_live
         /\ promised_calls' = [promised_calls EXCEPT ![Len(promised_calls)] = Promise(f)]
  <1>1. PICK L \in Nat : L = Len(stack)
    BY CallsAre
  <1>2. /\ Len(stack') = L
        /\ \A k \in 1 .. L : stack'[k] = IF k = L THEN f ELSE stack[k]
    BY <1>1, SetTopType DEF TypeOK
  <1>3. promised_live' = promised_live
    BY DEF promised_live, Live
  <1>4. \A k \in 1 .. L : Promise(stack[k])' = Promise(stack'[k])
    BY DEF Promise, Owed, Live, Rank
  <1>5. promised_calls' = [k \in 1 .. L |-> Promise(stack'[k])]
    BY <1>2, <1>4 DEF promised_calls
  <1>6. promised_calls = [k \in 1 .. L |-> Promise(stack[k])] /\ Len(promised_calls) = L
    BY <1>1, CallsAre DEF promised_calls
  <1>7. \A k \in 1 .. L :
          Promise(stack'[k]) = IF k = L THEN Promise(f) ELSE Promise(stack[k])
    BY <1>2
  <1>8. promised_calls' = [promised_calls EXCEPT ![L] = Promise(f)]
    BY <1>5, <1>6, <1>7
  <1> QED BY <1>3, <1>6, <1>8

LEMMA ReturnDelivers ==
  ASSUME BusInv, Return
  PROVE  Delivery!Next
  <1> DEFINE v == IF Top.hook \in Filters THEN Append(Top.val, Top.cur) ELSE Top.val
             f == [Top EXCEPT !.cur = NoToken, !.moved = FALSE, !.val = v]
  <1>1. /\ TypeOK /\ stack # <<>> /\ Top.cur # NoToken
        /\ UNCHANGED <<slots, tombs, owner, undefined>>
    BY DEF BusInv, Return
  <1>2. Top \in Frames /\ promised_calls # <<>> /\ Delivery!Running = Promise(Top)
    BY <1>1, CallsAre
  <1>3. v \in Seq(Tokens)
    <2>1. Top.cur \in Tokens /\ Top.val \in Seq(Tokens)
      BY <1>1, <1>2 DEF Frames
    <2> QED BY <2>1, AppendProperties
  <1>4. f \in Frames /\ f.hook = Top.hook /\ f.n = Top.n /\ f.i = Top.i /\ f.cur = NoToken
        /\ f.moved = FALSE /\ f.val = v
    <2> HIDE DEF v
    <2> QED BY <1>2, <1>3 DEF Frames
  <1>5. stack' = [stack EXCEPT ![Len(stack)] = f]
    BY <1>2 DEF Return, SetTop, Frames
  <1> DEFINE q == [Promise(Top) EXCEPT !.cur = NoToken, !.suspect = FALSE, !.val = v]
  <1> HIDE DEF f, v
  <1>6. promised_live' = promised_live
        /\ promised_calls' = [promised_calls EXCEPT ![Len(promised_calls)] = Promise(f)]
    BY <1>1, <1>4, <1>5, SetTopCalls
  <1>7. /\ Promise(Top) \in Calls /\ Promise(Top).hook = Top.hook
        /\ Promise(Top).todo = Owed(Top) /\ Promise(Top).cur = Top.cur
        /\ Promise(Top).val = Top.val
    BY <1>1, <1>2, PromiseType
  <1>8. Promise(f) = q
    <2>1. q \in Calls /\ q.hook = Top.hook /\ q.todo = Owed(Top) /\ q.cur = NoToken
          /\ q.suspect = FALSE /\ q.val = v
      BY <1>3, <1>7 DEF Calls
    <2>2. Owed(f) = Owed(Top)
      BY <1>4 DEF Owed
    <2>3. /\ Promise(f) \in Calls /\ Promise(f).hook = Top.hook
          /\ Promise(f).todo = Owed(Top) /\ Promise(f).cur = NoToken
          /\ Promise(f).suspect = FALSE /\ Promise(f).val = v
      BY <1>1, <1>4, <2>2, PromiseType
    <2> HIDE DEF q
    <2> QED BY <2>1, <2>3, SameCall
  <1>9. q = [Promise(Top) EXCEPT !.cur = Delivery!NoToken, !.suspect = FALSE,
               !.val = IF Promise(Top).hook \in Filters
                       THEN Append(@, Promise(Top).cur) ELSE @]
    BY <1>7 DEF q, v, NoToken, Delivery!NoToken
  <1> HIDE DEF q
  <1>10. Delivery!Return
    BY <1>1, <1>2, <1>6, <1>7, <1>8, <1>9 DEF Delivery!Return, Delivery!SetRunning, NoToken, Delivery!NoToken
  <1> QED BY <1>10 DEF Delivery!Next

\* When the index reaches the snapshot size nothing is owed any more.
LEMMA EmitEndDelivers ==
  ASSUME BusInv, EmitEnd
  PROVE  Delivery!Next
  <1>1. /\ TypeOK /\ stack \in Seq(Frames) /\ stack # <<>> /\ Top.cur = NoToken /\ Top.i = Top.n
        /\ UNCHANGED <<owner, undefined>> /\ stack' = Below
    BY DEF BusInv, TypeOK, EmitEnd, InLoop
  <1>2. Top \in Frames /\ promised_calls # <<>> /\ Delivery!Running = Promise(Top)
    BY <1>1, CallsAre
  <1>3. Drops(Nothing)
    BY EmitEndDrops
  <1>4. Owed(Top) = {}
    <2>1. \A t \in slots[Top.hook] : Rank(Top.hook, t) \in Nat
      BY <1>1, <1>2, Ranks DEF Frames
    <2>2. \A t \in slots[Top.hook] : ~(Rank(Top.hook, t) > Top.i /\ Rank(Top.hook, t) <= Top.n)
      BY <1>1, <1>2, <2>1 DEF Frames
    <2> QED BY <2>2 DEF Owed, Live
  <1>5. PICK m \in Nat : m = Len(stack) - 1
    BY <1>1, TopType
  <1>6. Len(stack') = m /\ \A k \in 1 .. m : stack'[k] = stack[k]
    BY <1>1, <1>5, BelowType
  <1>7. promised_live' = promised_live
    BY <1>3, LiveDrops DEF Nothing, promised_live
  <1>8. \A k \in 1 .. m : Promise(stack[k])' = Promise(stack[k])
    <2>1. \A k \in 1 .. m : Owed(stack[k])' = Owed(stack[k]) \ Nothing[stack[k].hook]
                             /\ stack[k].hook \in Hooks
      BY <1>3, <1>6, OwedDrops DEF Drops
    <2> QED BY <1>6, <2>1 DEF Promise, Nothing
  <1>9. promised_calls' = [k \in 1 .. m |-> Promise(stack[k])]
    BY <1>6, <1>8 DEF promised_calls
  <1>10. SubSeq(promised_calls, 1, Len(promised_calls) - 1) = [k \in 1 .. m |-> Promise(stack[k])]
    <2>1. Len(promised_calls) = m + 1 /\ Len(stack) = m + 1
      BY <1>1, <1>5, CallsAre
    <2>2. \A k \in 1 .. m : promised_calls[k] = Promise(stack[k])
      BY <1>1, <2>1, CallsAre
    <2>3. SubSeq(promised_calls, 1, m) = [k \in 1 .. m |-> promised_calls[k]]
      BY <2>1
    <2> QED BY <2>1, <2>2, <2>3
  <1>11. Promise(Top).todo = {} /\ Promise(Top).cur = Delivery!NoToken
    BY <1>1, <1>4 DEF Promise, NoToken, Delivery!NoToken
  <1>12. Delivery!Finish
    BY <1>1, <1>2, <1>7, <1>9, <1>10, <1>11 DEF Delivery!Finish
  <1> QED BY <1>12 DEF Delivery!Next

\* Purging the hooks in reach is isolating the thrower; through a dangling entry it
\* voids the promise.
LEMMA ThrowDelivers ==
  ASSUME BusInv, Throw
  PROVE  Delivery!Next
  <1>0. CASE Top.moved
    BY <1>0 DEF Throw, Delivery!Next, Delivery!Void
  <1>1. CASE ~Top.moved
    <2>0. Top.hook \in Hooks /\ Top.cur \in Tokens /\ Len(stack) \in Nat
      BY <1>1, ThrowDrops, CallsAre DEF BusInv
    <2>20. PICK h \in Hooks : h = Top.hook
      BY <2>0
    <2>21. PICK c \in Tokens : c = Top.cur
      BY <2>0
    <2>22. PICK who : who = owner[h][c]
      OBVIOUS
    <2>23. PICK L \in Nat : L = Len(stack)
      BY <2>0
    <2>1. h = Top.hook /\ c = Top.cur /\ who = owner[h][c] /\ L = Len(stack)
      BY <2>20, <2>21, <2>22, <2>23
    <2> DEFINE gone == OwnedBy(h, who)
               called == [promised_calls EXCEPT ![Len(promised_calls)].cur = Delivery!NoToken]
    <2>2. Drops(gone)
      BY <1>1, <2>1, ThrowDrops
    <2>3. /\ TypeOK /\ stack # <<>> /\ c # NoToken /\ UNCHANGED owner
          /\ undefined' = undefined
      BY <1>1, <2>1 DEF BusInv, Throw, TypeOK
    <2>4. /\ Top \in Frames /\ L \in 1 .. L /\ promised_calls # <<>>
          /\ Delivery!Running = Promise(Top) /\ Top = stack[L]
          /\ Len(promised_calls) = L /\ DOMAIN promised_calls = 1 .. L
          /\ \A k \in 1 .. L : promised_calls[k] = Promise(stack[k]) /\ stack[k] \in Frames
      BY <2>1, <2>3, CallsAre DEF Top
    <2>5. Top.val \in Seq(Tokens)
          /\ stack' = [stack EXCEPT ![Len(stack)] =
                         [Top EXCEPT !.cur = NoToken, !.moved = FALSE, !.val = Top.val]]
      BY <2>4 DEF Throw, SetTop, Frames
    <2>6. /\ Len(stack') = L /\ \A k \in 1 .. L : k # L => stack'[k] = stack[k]
          /\ stack'[L].hook = Top.hook /\ stack'[L].n = Top.n /\ stack'[L].i = Top.i
          /\ stack'[L].cur = NoToken /\ stack'[L].moved = FALSE /\ stack'[L].val = Top.val
      BY <2>1, <2>3, <2>5, TopEnds
    <2>7. gone = [g \in Hooks |-> IF g \in Reach(h, who)
                                  THEN {t \in promised_live[g] : owner[g][t] = who} ELSE {}]
      BY DEF OwnedBy, promised_live
    <2> HIDE DEF gone
    <2>8. promised_live' = [g \in Hooks |-> promised_live[g] \ gone[g]]
      BY <2>2, LiveDrops
    <2>9. /\ Len(called) = L /\ DOMAIN called = 1 .. L
          /\ \A k \in 1 .. L : called[k] =
               IF k = L THEN [promised_calls[k] EXCEPT !.cur = Delivery!NoToken]
                        ELSE promised_calls[k]
      <3>1. promised_calls = [k \in 1 .. L |-> Promise(stack[k])]
        BY <2>1 DEF promised_calls
      <3>2. DOMAIN called = 1 .. L
            /\ called = [k \in 1 .. L |->
                 IF k = L THEN [promised_calls[k] EXCEPT !.cur = Delivery!NoToken]
                          ELSE promised_calls[k]]
        BY <2>4
      <3> HIDE DEF called
      <3> QED BY <3>2
    <2> HIDE DEF called
    <2>10. ASSUME NEW k \in 1 .. L
           PROVE  Promise(stack[k])' = [called[k] EXCEPT !.todo = @ \ gone[called[k].hook]]
      <3>1. called[k] \in Calls /\ called[k].hook = stack[k].hook /\ called[k].todo = Owed(stack[k])
            /\ called[k].cur = stack'[k].cur /\ called[k].suspect = stack'[k].moved
            /\ called[k].val = stack'[k].val
        <4>1. /\ promised_calls[k] \in Calls /\ promised_calls[k].hook = stack[k].hook
              /\ promised_calls[k].todo = Owed(stack[k]) /\ promised_calls[k].cur = stack[k].cur
              /\ promised_calls[k].suspect = stack[k].moved /\ promised_calls[k].val = stack[k].val
          BY <2>3, <2>4, PromiseType
        <4>2. CASE k # L
          BY <2>6, <2>9, <4>1, <4>2
        <4>3. CASE k = L
          <5>1. called[k] = [promised_calls[k] EXCEPT !.cur = NoToken]
            BY <2>9, <4>3 DEF NoToken, Delivery!NoToken
          <5>2. /\ called[k] \in Calls /\ called[k].hook = stack[k].hook
                /\ called[k].todo = Owed(stack[k]) /\ called[k].cur = NoToken
                /\ called[k].suspect = stack[k].moved /\ called[k].val = stack[k].val
            BY <4>1, <5>1 DEF Calls
          <5>3. stack[k].moved = FALSE /\ stack[k].val = Top.val
            BY <1>1, <2>4, <4>3 DEF Frames
          <5> QED BY <2>6, <4>3, <5>2, <5>3
        <4> QED BY <4>2, <4>3
      <3>2. Owed(stack[k])' = Owed(stack[k]) \ gone[stack[k].hook]
            /\ stack'[k].hook = stack[k].hook
        <4>1. stack'[k].hook = stack[k].hook /\ stack'[k].i = stack[k].i /\ stack'[k].n = stack[k].n
          BY <2>4, <2>6
        <4> QED BY <2>2, <2>6, <4>1, OwedDrops
      <3> DEFINE q == [called[k] EXCEPT !.todo = @ \ gone[called[k].hook]]
      <3>3. /\ q \in Calls /\ q.hook = stack[k].hook
            /\ q.todo = Owed(stack[k]) \ gone[stack[k].hook] /\ q.cur = stack'[k].cur
            /\ q.suspect = stack'[k].moved /\ q.val = stack'[k].val
        <4>1. PICK d : d = gone[called[k].hook]
          OBVIOUS
        <4>2. called[k].todo \ d \in SUBSET Tokens
          BY <3>1 DEF Calls
        <4>3. q = [called[k] EXCEPT !.todo = @ \ d]
          BY <4>1
        <4> HIDE DEF q
        <4>4. /\ q \in Calls /\ q.hook = called[k].hook /\ q.todo = called[k].todo \ d
              /\ q.cur = called[k].cur /\ q.suspect = called[k].suspect /\ q.val = called[k].val
          BY <3>1, <4>2, <4>3 DEF Calls
        <4> QED BY <3>1, <4>1, <4>4
      <3> HIDE DEF q
      <3>4. Promise(stack[k])' = [hook |-> q.hook, todo |-> q.todo, cur |-> q.cur,
                                  suspect |-> q.suspect, val |-> q.val]
        BY <3>2, <3>3 DEF Promise
      <3>5. q = [hook |-> q.hook, todo |-> q.todo, cur |-> q.cur,
                 suspect |-> q.suspect, val |-> q.val]
        BY <3>3 DEF Calls
      <3> QED BY <3>4, <3>5 DEF q
    <2>11. promised_calls' =
             [k \in 1 .. Len(called) |-> [called[k] EXCEPT !.todo = @ \ gone[called[k].hook]]]
      <3>1. promised_calls' = [k \in 1 .. L |-> Promise(stack[k])']
        BY <2>6 DEF promised_calls
      <3> QED BY <2>9, <2>10, <3>1
    <2>12. Delivery!Forget(gone, called)
      BY <2>8, <2>11 DEF Delivery!Forget
    <2>13. Promise(Top).hook = h /\ Promise(Top).cur = c /\ ~Promise(Top).suspect
      BY <1>1, <2>1 DEF Promise
    <2>14. Delivery!Throw
      BY <2>1, <2>3, <2>4, <2>7, <2>12, <2>13
      DEF Delivery!Throw, called, Reach, NoToken, Delivery!NoToken
    <2> QED BY <2>14 DEF Delivery!Next
  <1> QED BY <1>0, <1>1

\* A new entry lies beyond every snapshot, so no dispatch in flight owes it a call.
LEMMA SubscribeDelivers ==
  ASSUME BusInv, NEW h \in Hooks, NEW who \in Owners, Subscribe(h, who)
  PROVE  Delivery!Next
  <1>1. PICK t, L : t = next_token[h] + 1 /\ L = Len(stack)
    OBVIOUS
  <1>2. /\ t \in Tokens /\ slots' = [slots EXCEPT ![h] = @ \cup {t}] /\ t \notin slots[h]
        /\ \A g \in Hooks : \A u \in slots[g] :
             RankIn(slots'[g], u) = RankIn(slots[g], u) /\ (g = h => u < t)
        /\ RankIn(slots'[h], t) = Cardinality(slots[h]) + 1
        /\ \A g \in Hooks : Live(g)' = IF g = h THEN Live(g) \cup {t} ELSE Live(g)
    BY <1>1, NewRank
  <1>3. /\ TypeOK /\ Delivery!InUserCode /\ undefined' = undefined
        /\ owner' = [owner EXCEPT ![h][t] = who]
    BY <1>1, BothInUserCode DEF BusInv, Subscribe
  <1>4. PICK full \in BOOLEAN : \A k \in 1 .. L :
          stack'[k] = [stack[k] EXCEPT !.moved = @ \/ (full /\ stack[k].hook = h)]
    <2>1. PICK full \in BOOLEAN : \A k \in 1 .. Len(stack) :
            stack'[k] = [stack[k] EXCEPT !.moved = @ \/ (full /\ stack[k].hook = h)]
      BY SubscribePlaces
    <2> QED BY <1>1, <2>1
  <1>5. /\ Len(stack') = L /\ L \in Nat
        /\ \A k \in 1 .. L :
             /\ stack[k] \in Frames
             /\ stack'[k].hook = stack[k].hook /\ stack'[k].n = stack[k].n
             /\ stack'[k].i = stack[k].i /\ stack'[k].cur = stack[k].cur
             /\ stack'[k].val = stack[k].val
    BY <1>1, SubscribePlaces
  <1>6. promised_live' = [promised_live EXCEPT ![h] = @ \cup {t}]
    BY <1>2 DEF promised_live
  <1>7. \A u \in promised_live[h] : u < t
    BY <1>2 DEF promised_live, Live
  <1>8. /\ Len(promised_calls) = L
        /\ \A k \in 1 .. L : promised_calls[k] = Promise(stack[k])
    BY <1>1, <1>3, CallsAre
  <1>9. \A k \in 1 .. L : promised_calls[k].hook = h => \A u \in promised_calls[k].todo : u < t
    <2>1. \A k \in 1 .. L : promised_calls[k].hook = stack[k].hook
                             /\ promised_calls[k].todo = Owed(stack[k])
      BY <1>8 DEF Promise
    <2> QED BY <1>2, <2>1 DEF Owed, Live
  <1>10. ASSUME NEW k \in 1 .. L PROVE Owed(stack[k])' = Owed(stack[k])
    <2>1. PICK g \in Hooks, i \in Nat, n \in Nat :
            g = stack[k].hook /\ i = stack[k].i /\ n = stack[k].n
      BY <1>5 DEF Frames
    <2>2. Owed(stack[k])' =
            {u \in Live(g)' : RankIn(slots'[g], u) > i /\ RankIn(slots'[g], u) <= n}
      BY <1>5, <2>1 DEF Owed, Live, Rank
    <2>3. Owed(stack[k]) =
            {u \in Live(g) : RankIn(slots[g], u) > i /\ RankIn(slots[g], u) <= n}
      BY <2>1 DEF Owed, Rank
    <2>4. \A u \in Live(g) : RankIn(slots'[g], u) = RankIn(slots[g], u)
      BY <1>2 DEF Live
    <2>5. CASE g = h
      <3>1. ~(RankIn(slots'[g], t) <= n)
        <4>1. n <= Cardinality(slots[g]) /\ Cardinality(slots[g]) \in Nat
          BY <1>1, <1>3, <2>1, SlotsFinite DEF BusInv, IndexStable
        <4> QED BY <1>2, <2>1, <2>5, <4>1
      <3> QED BY <1>2, <2>2, <2>3, <2>4, <2>5, <3>1
    <2>6. CASE g # h
      BY <1>2, <2>2, <2>3, <2>4, <2>6
    <2> QED BY <2>5, <2>6
  <1>11. ASSUME NEW k \in 1 .. L
         PROVE  Promise(stack[k])' = [Promise(stack[k]) EXCEPT !.suspect = stack'[k].moved]
    <2> DEFINE q == [Promise(stack[k]) EXCEPT !.suspect = stack'[k].moved]
    <2>1. PICK m \in BOOLEAN : m = stack'[k].moved
      BY <1>4, <1>5 DEF Frames
    <2>2. /\ Promise(stack[k]) \in Calls /\ Promise(stack[k]).hook = stack[k].hook
          /\ Promise(stack[k]).todo = Owed(stack[k]) /\ Promise(stack[k]).cur = stack[k].cur
          /\ Promise(stack[k]).val = stack[k].val
      BY <1>3, <1>5, PromiseType
    <2>3. /\ q \in Calls /\ q.hook = stack[k].hook /\ q.todo = Owed(stack[k])
          /\ q.cur = stack[k].cur /\ q.suspect = m /\ q.val = stack[k].val
      BY <2>1, <2>2 DEF Calls
    <2> HIDE DEF q
    <2>4. Promise(stack[k])' = [hook |-> q.hook, todo |-> q.todo, cur |-> q.cur,
                                suspect |-> q.suspect, val |-> q.val]
      BY <1>5, <1>10, <2>1, <2>3 DEF Promise
    <2>5. q = [hook |-> q.hook, todo |-> q.todo, cur |-> q.cur,
               suspect |-> q.suspect, val |-> q.val]
      BY <2>3 DEF Calls
    <2> QED BY <2>4, <2>5 DEF q
  <1>12. promised_calls' = [k \in 1 .. L |-> Promise(stack[k])']
    BY <1>5 DEF promised_calls
  <1>13. \/ promised_calls' = promised_calls
         \/ promised_calls' = [k \in 1 .. Len(promised_calls) |->
              [promised_calls[k] EXCEPT !.suspect = @ \/ promised_calls[k].hook = h]]
    <2>1. \A k \in 1 .. L : stack'[k].moved = (stack[k].moved \/ (full /\ stack[k].hook = h))
      BY <1>4, <1>5 DEF Frames
    <2>2. CASE full
      <3>1. ASSUME NEW k \in 1 .. L
            PROVE  stack'[k].moved = (promised_calls[k].suspect \/ promised_calls[k].hook = h)
        BY <1>8, <2>1, <2>2 DEF Promise
      <3>2. \A k \in 1 .. L : Promise(stack[k])' =
              [promised_calls[k] EXCEPT !.suspect = @ \/ promised_calls[k].hook = h]
        BY <1>8, <1>11, <3>1
      <3> QED BY <1>8, <1>12, <3>2
    <2>3. CASE ~full
      <3>1. ASSUME NEW k \in 1 .. L PROVE Promise(stack[k])' = Promise(stack[k])
        <4>1. stack'[k].moved = stack[k].moved
          BY <1>5, <2>1, <2>3 DEF Frames
        <4> QED BY <1>5, <1>10, <4>1 DEF Promise
      <3>2. promised_calls = [k \in 1 .. L |-> Promise(stack[k])]
        BY <1>1 DEF promised_calls
      <3> QED BY <1>12, <3>1, <3>2
    <2> QED BY <2>2, <2>3
  <1>14. Delivery!Subscribe(h, t, who)
    BY <1>3, <1>6, <1>7, <1>8, <1>9, <1>13 DEF Delivery!Subscribe
  <1> QED BY <1>2, <1>14 DEF Delivery!Next

\* Every step of the bus is a step of the promise or leaves it alone.
LEMMA NextDelivers == BusInv /\ [Next]_vars => [Delivery!Next]_Delivery!vars
  <1> SUFFICES ASSUME BusInv, [Next]_vars PROVE [Delivery!Next]_Delivery!vars
    OBVIOUS
  <1>1. CASE UNCHANGED vars
    BY <1>1 DEF vars, Delivery!vars, promised_live, promised_calls, Promise, Owed, Live, Rank
  <1>2. ASSUME NEW h \in Hooks, NEW who \in Owners, Subscribe(h, who) PROVE Delivery!Next
    BY <1>2, SubscribeDelivers
  <1>3. ASSUME NEW h \in Hooks, NEW t \in Tokens, Unsubscribe(h, t)
        PROVE  [Delivery!Next]_Delivery!vars
    BY <1>3, UnsubscribeDelivers
  <1>4. ASSUME NEW h \in Hooks, Emit(h) PROVE Delivery!Next
    BY <1>4, EmitDelivers
  <1>5. ASSUME NEW t \in Tokens, Visit(t) PROVE [Delivery!Next]_Delivery!vars
    BY <1>5, VisitDelivers
  <1>6. CASE Return
    BY <1>6, ReturnDelivers
  <1>7. CASE Throw
    BY <1>7, ThrowDelivers
  <1>8. CASE EmitEnd
    BY <1>8, EmitEndDelivers
  <1> QED BY <1>1, <1>2, <1>3, <1>4, <1>5, <1>6, <1>7, <1>8 DEF Next

\* The vector walked by index, with its tombstones, depth counters and deferred erasure,
\* delivers exactly what EventDelivery promises, for every number of hooks, extensions,
\* subscriptions and nested dispatches: each listener live when the dispatch began and not
\* dropped before its turn is called once, in order, and a throw isolates its own
\* extension only (hooks.hpp:13-29, 160-200, 228-282).
THEOREM BusDelivers == Spec => DeliversAsPromised
  <1>1. Init => BusInv
    BY InitBus
  <1>2. BusInv /\ [Next]_vars => BusInv'
    BY NextKeepsBus
  <1>3. Init => Delivery!Init
    BY InitDelivers
  <1>4. BusInv /\ [Next]_vars => [Delivery!Next]_Delivery!vars
    BY NextDelivers
  <1> QED BY <1>1, <1>2, <1>3, <1>4, PTL DEF Spec, DeliversAsPromised, Delivery!Spec

=============================================================================
