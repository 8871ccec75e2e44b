------------------------------ MODULE EventBus ------------------------------
(***************************************************************************)
(* The typed extension bus: Event<Args...>, Filter<T>, the RAII            *)
(* Subscription, and the Server as the hooks' DisableSink                  *)
(* (kernel/include/unbox/kernel/hooks.hpp, kernel/src/server.cpp).         *)
(*                                                                         *)
(* One event-loop thread runs everything, so the interleavings are those   *)
(* of CALL NESTING: a callback may subscribe, drop any subscription, emit  *)
(* again or throw while one or more dispatches of the same hook are on the *)
(* call stack beneath it.  Control is in "user code" when no dispatch is   *)
(* on the stack or when the top dispatch is inside a callback; otherwise   *)
(* it is in the loop of emit()/apply() and only that loop moves.           *)
(*                                                                         *)
(* The vector `entries_' of a hook is the set slots[h] of its tokens:      *)
(* push_back takes ++next_token_ and erase_if keeps the order, so the      *)
(* vector is always sorted by token and the entry at (1-based) index i is  *)
(* the token of rank i.  Tombstoned entries are tombs[h].                  *)
(***************************************************************************)
EXTENDS Integers, Sequences, FiniteSets

CONSTANTS
  Hooks,         \* every Event and Filter of the session
  Filters,       \* the hooks that are Filters (a value is threaded)
  Registered,    \* hooks in Server::Impl::all_hooks (their sink is the Server)
  ExtensionIds,  \* ids the Server handed out
  Kernel,        \* kernel_extension_id
  Garbage,       \* what a read of a freed Entry's `who' may yield: no id at all
  MaxTokens,     \* bound: subscriptions ever made on one hook
  MaxDepth       \* bound: nested dispatches

ASSUME ConstantsAssumption ==
  /\ Filters \subseteq Hooks
  /\ Registered \subseteq Hooks
  /\ Kernel \notin ExtensionIds
  /\ Garbage \notin ExtensionIds \cup {Kernel}
  /\ MaxTokens \in Nat
  /\ MaxDepth \in Nat

Owners == ExtensionIds \cup {Kernel}
Tokens == 1 .. MaxTokens
NoToken == 0   \* HookBase::invalid_token; in a frame: the loop is not in a callback

VARIABLES
  slots,       \* [Hooks -> SUBSET Tokens]: the tokens in entries_
  tombs,       \* [Hooks -> SUBSET Tokens]: those whose `dead' is set
  owner,       \* [Hooks -> [Tokens -> Owners]]: Entry::who
  next_token,  \* [Hooks -> Nat]
  depth,       \* [Hooks -> Nat]
  capacity,    \* [Hooks -> Nat]: entries_.capacity()
  handles,     \* active Subscription objects, as <<hook, token>>
  stack,       \* the dispatches on the call stack, outermost first
  disabled,    \* extensions whose slot.disabled is set
  undefined    \* an Entry was read through a dangling reference

vars == <<slots, tombs, owner, next_token, depth, capacity, handles, stack,
          disabled, undefined>>

Frames ==
  [hook: Hooks, n: Nat, i: Nat, cur: Tokens \cup {NoToken}, moved: BOOLEAN,
   val: Seq(Tokens)]

-----------------------------------------------------------------------------
Live(h) == slots[h] \ tombs[h]

\* The 1-based index of token t in entries_ of h.
RankIn(S, t) == Cardinality({u \in S : u <= t})
Rank(h, t) == RankIn(slots[h], t)

Top == stack[Len(stack)]
Below == SubSeq(stack, 1, Len(stack) - 1)
SetTop(f) == stack' = [stack EXCEPT ![Len(stack)] = f]

InUserCode == stack # <<>> => Top.cur # NoToken
InLoop == stack # <<>> /\ Top.cur = NoToken

\* Mutant of Compact: erase at once, dispatch in flight or not.
CompactEager(H, t, d) ==
  /\ slots' = [h \in Hooks |-> IF h \in H THEN slots[h] \ t[h] ELSE slots[h]]
  /\ tombs' = [h \in Hooks |-> IF h \in H THEN {} ELSE t[h]]

\* compact_if_idle() of every hook in H, once `dead' of its entries is `t':
\* the tombstones are erased unless a dispatch of the hook is in flight.
Compact(H, t, d) ==
  /\ slots' = [h \in Hooks |-> IF h \in H /\ d[h] = 0 THEN slots[h] \ t[h] ELSE slots[h]]
  /\ tombs' = [h \in Hooks |-> IF h \in H /\ d[h] = 0 THEN {} ELSE t[h]]

\* purge(who) on every hook in H.
Purge(H, who) ==
  Compact(H, [h \in Hooks |->
                IF h \in H THEN tombs[h] \cup {t \in slots[h] : owner[h][t] = who}
                           ELSE tombs[h]],
          depth)

-----------------------------------------------------------------------------
Init ==
  /\ slots = [h \in Hooks |-> {}]
  /\ tombs = [h \in Hooks |-> {}]
  /\ owner = [h \in Hooks |-> [t \in Tokens |-> Kernel]]
  /\ next_token = [h \in Hooks |-> 0]
  /\ depth = [h \in Hooks |-> 0]
  /\ capacity = [h \in Hooks |-> 0]
  /\ handles = {}
  /\ stack = <<>>
  /\ disabled = {}
  /\ undefined = FALSE

\* subscribe(): push_back under the next token.  When the vector is full it is
\* reallocated, and the `Entry& e' of every dispatch of h that is inside a
\* callback now refers to freed storage.
Subscribe(h, who) ==
  LET t == next_token[h] + 1
      full == Cardinality(slots[h]) = capacity[h]
  IN  /\ InUserCode
      /\ next_token[h] < MaxTokens
      /\ next_token' = [next_token EXCEPT ![h] = t]
      /\ slots' = [slots EXCEPT ![h] = @ \cup {t}]
      /\ owner' = [owner EXCEPT ![h][t] = who]
      /\ capacity' = IF full
                     THEN [capacity EXCEPT ![h] = IF @ = 0 THEN 1 ELSE 2 * @]
                     ELSE capacity
      /\ stack' = [k \in 1 .. Len(stack) |->
                     [stack[k] EXCEPT !.moved = @ \/ (full /\ stack[k].hook = h)]]
      /\ handles' = handles \cup {<<h, t>>}
      /\ UNCHANGED <<tombs, depth, disabled, undefined>>

\* ~Subscription() / reset(): unsubscribe(token) tombstones the entry, if the
\* hook still has it, and compacts when no dispatch of the hook is in flight.
Unsubscribe(h, t) ==
  /\ InUserCode
  /\ <<h, t>> \in handles
  /\ handles' = handles \ {<<h, t>>}
  /\ Compact({h}, [tombs EXCEPT ![h] = @ \cup ({t} \cap slots[h])], depth)
  /\ UNCHANGED <<owner, next_token, depth, capacity, stack, disabled, undefined>>

\* emit() / apply(): enter the dispatch and snapshot the size.
Emit(h) ==
  /\ InUserCode
  /\ Len(stack) < MaxDepth
  /\ depth' = [depth EXCEPT ![h] = @ + 1]
  /\ stack' = Append(stack, [hook |-> h, n |-> Cardinality(slots[h]), i |-> 0,
                             cur |-> NoToken, moved |-> FALSE, val |-> <<>>])
  /\ UNCHANGED <<slots, tombs, owner, next_token, capacity, handles, disabled,
                 undefined>>

\* Mutant of Visit: the tombstone is not looked at.
VisitDead(t) ==
  /\ InLoop
  /\ Top.i < Top.n
  /\ t \in slots[Top.hook]
  /\ Rank(Top.hook, t) = Top.i + 1
  /\ SetTop([Top EXCEPT !.i = @ + 1, !.cur = t])
  /\ UNCHANGED <<slots, tombs, owner, next_token, depth, capacity, handles,
                 disabled, undefined>>

\* One turn of the loop: a tombstoned entry is passed over, a live one called.
Visit(t) ==
  /\ InLoop
  /\ Top.i < Top.n
  /\ t \in slots[Top.hook]
  /\ Rank(Top.hook, t) = Top.i + 1
  /\ SetTop([Top EXCEPT !.i = @ + 1,
                        !.cur = IF t \in tombs[Top.hook] THEN NoToken ELSE t])
  /\ UNCHANGED <<slots, tombs, owner, next_token, depth, capacity, handles,
                 disabled, undefined>>

\* The callback returns; a Filter link's result replaces the value.
Return ==
  /\ stack # <<>>
  /\ Top.cur # NoToken
  /\ SetTop([Top EXCEPT !.cur = NoToken, !.moved = FALSE,
                        !.val = IF Top.hook \in Filters THEN Append(@, Top.cur) ELSE @])
  /\ UNCHANGED <<slots, tombs, owner, next_token, depth, capacity, handles,
                 disabled, undefined>>

\* disable_owner(): through the Server to every registered hook, or to this
\* hook alone when it has no sink or the owner is the kernel.
DisableOwner(h, who) ==
  IF h \in Registered /\ who # Kernel
  THEN /\ disabled' = disabled \cup ({who} \cap ExtensionIds)
       /\ Purge(Registered, who)
  ELSE /\ disabled' = disabled
       /\ Purge({h}, who)

\* Mutant of Throw: the value was moved into the link and is lost with it.
ThrowLosesValue ==
  /\ stack # <<>>
  /\ Top.cur # NoToken
  /\ \E who \in IF Top.moved THEN Owners \cup {Garbage} ELSE {owner[Top.hook][Top.cur]} :
       DisableOwner(Top.hook, who)
  /\ undefined' = (undefined \/ Top.moved)
  /\ SetTop([Top EXCEPT !.cur = NoToken, !.moved = FALSE, !.val = <<>>])
  /\ UNCHANGED <<owner, next_token, depth, capacity, handles>>

\* The callback throws; a Filter's value stays as it stood before the link.
\* The owner is read through `e', which dangles when the storage moved.
Throw ==
  /\ stack # <<>>
  /\ Top.cur # NoToken
  /\ \E who \in IF Top.moved THEN Owners \cup {Garbage} ELSE {owner[Top.hook][Top.cur]} :
       DisableOwner(Top.hook, who)
  /\ undefined' = (undefined \/ Top.moved)
  /\ SetTop([Top EXCEPT !.cur = NoToken, !.moved = FALSE])
  /\ UNCHANGED <<owner, next_token, depth, capacity, handles>>

\* Mutant of EmitEnd: the outermost dispatch does not compact.
EmitEndUnswept ==
  /\ InLoop
  /\ Top.i = Top.n
  /\ depth' = [depth EXCEPT ![Top.hook] = @ - 1]
  /\ stack' = Below
  /\ UNCHANGED <<slots, tombs, owner, next_token, capacity, handles, disabled, undefined>>

\* The loop ends: leave the dispatch and compact when it was the outermost.
EmitEnd ==
  /\ InLoop
  /\ Top.i = Top.n
  /\ depth' = [depth EXCEPT ![Top.hook] = @ - 1]
  /\ Compact({Top.hook}, tombs, depth')
  /\ stack' = Below
  /\ UNCHANGED <<owner, next_token, capacity, handles, disabled, undefined>>

Next ==
  \/ \E h \in Hooks, who \in Owners : Subscribe(h, who)
  \/ \E h \in Hooks, t \in Tokens : Unsubscribe(h, t)
  \/ \E h \in Hooks : Emit(h)
  \/ \E t \in Tokens : Visit(t)
  \/ Return
  \/ Throw
  \/ EmitEnd

Spec == Init /\ [][Next]_vars

-----------------------------------------------------------------------------
\* Every variable keeps its type (hooks.hpp:202-238).
TypeOK ==
  /\ slots \in [Hooks -> SUBSET Tokens]
  /\ tombs \in [Hooks -> SUBSET Tokens]
  /\ owner \in [Hooks -> [Tokens -> Owners]]
  /\ next_token \in [Hooks -> 0 .. MaxTokens]
  /\ depth \in [Hooks -> Nat]
  /\ capacity \in [Hooks -> Nat]
  /\ handles \subseteq Hooks \X Tokens
  /\ stack \in Seq(Frames)
  /\ disabled \subseteq ExtensionIds
  /\ undefined \in BOOLEAN

\* The loop of emit()/apply() never indexes out of the vector, and the entry it is
\* calling stays at its index, whatever callbacks subscribe, drop, emit or throw:
\* the reason removal is deferred (hooks.hpp:25-29, 228-233).
IndexStable ==
  \A k \in 1 .. Len(stack) :
    LET f == stack[k]
    IN  /\ f.i <= f.n
        /\ f.n <= Cardinality(slots[f.hook])
        /\ f.cur # NoToken => f.cur \in slots[f.hook] /\ Rank(f.hook, f.cur) = f.i

\* A hook's depth is the number of its dispatches on the call stack, however they
\* nest and however their callbacks leave them (hooks.hpp:174,187,238).
FramesOf(h) == {k \in 1 .. Len(stack) : stack[k].hook = h}
DepthCountsDispatches == \A h \in Hooks : depth[h] = Cardinality(FramesOf(h))

\* No tombstone outlives the dispatches that made its removal wait: an idle hook
\* holds live entries only (hooks.hpp:28-29 "the compaction happens after the
\* dispatch unwinds"), also when another hook's throw purged it.
IdleHookIsSwept == \A h \in Hooks : FramesOf(h) = {} => tombs[h] = {}

\* No callback outlives its Subscription: a live entry has an active handle, so the
\* captures of a callback that may still run are owned (hooks.hpp:100-104).
LiveIsHeld == \A h \in Hooks : \A t \in Live(h) : <<h, t>> \in handles

\* At every turn of apply(), the value has been through each surviving link the loop
\* has passed, exactly once and in subscription order; a link that threw or was
\* already dropped left no trace (hooks.hpp:20-23, 262-282).
ValueThreadsSurvivors ==
  ~undefined =>
    \A k \in 1 .. Len(stack) :
      LET f == stack[k]
          passed == {t \in slots[f.hook] : Rank(f.hook, t) <= f.i} \ {f.cur}
          applied == {f.val[j] : j \in 1 .. Len(f.val)}
      IN  f.hook \in Filters =>
            /\ \A j \in 1 .. Len(f.val) - 1 : f.val[j] < f.val[j + 1]
            /\ passed \cap Live(f.hook) \subseteq applied
            /\ applied \subseteq passed

-----------------------------------------------------------------------------
\* The promised-delivery view of a state: the live listeners, and what each dispatch in
\* flight still owes.
Owed(f) == {t \in Live(f.hook) : Rank(f.hook, t) > f.i /\ Rank(f.hook, t) <= f.n}
Promise(f) ==
  [hook |-> f.hook, todo |-> Owed(f), cur |-> f.cur, suspect |-> f.moved, val |-> f.val]
promised_live == [h \in Hooks |-> Live(h)]
promised_calls == [k \in 1 .. Len(stack) |-> Promise(stack[k])]

Delivery == INSTANCE EventDelivery WITH live <- promised_live, calls <- promised_calls

\* The index-walking, tombstoning bus delivers exactly what EventDelivery promises:
\* every listener live at the start and not dropped before its turn is called once,
\* in order, at every nesting depth, and a throw isolates its own extension only.
DeliversAsPromised == Delivery!Spec

=============================================================================
