---------------------------- MODULE EventDelivery ----------------------------
(***************************************************************************)
(* What the extension bus promises its users (the contract comments of     *)
(* kernel/include/unbox/kernel/hooks.hpp), without vectors, indices,       *)
(* tombstones or depth counters.                                           *)
(*                                                                         *)
(* A dispatch owes one call, in subscription order, to every listener that *)
(* was subscribed when it began; a listener that is dropped, or whose      *)
(* extension is disabled, before its turn is owed nothing; one subscribed  *)
(* meanwhile is owed nothing by the dispatches already in flight.  A throw *)
(* drops every subscription of the thrower's extension and nothing else.   *)
(*                                                                         *)
(* The promise holds until a dangling Entry reference is read (EventBus);  *)
(* after that the C++ program has no defined behaviour.                    *)
(***************************************************************************)
EXTENDS Integers, Sequences

CONSTANTS Hooks, Filters, Registered, Owners, Kernel, Tokens

NoToken == 0

VARIABLES
  live,       \* [Hooks -> SUBSET Tokens]: current subscriptions
  owner,      \* [Hooks -> [Tokens -> Owners]]
  calls,      \* the nested dispatches: what each still owes, what it is running
  undefined   \* the promise is void

vars == <<live, owner, calls, undefined>>

Running == calls[Len(calls)]
SetRunning(c) == calls' = [calls EXCEPT ![Len(calls)] = c]
InUserCode == calls # <<>> => Running.cur # NoToken

Init ==
  /\ live = [h \in Hooks |-> {}]
  /\ owner \in [Hooks -> [Tokens -> Owners]]
  /\ calls = <<>>
  /\ undefined = FALSE

\* A new listener joins at the end of the order; the dispatches in flight do not
\* owe it a call.  It may make the running listeners of its hook suspect.
Subscribe(h, t, who) ==
  /\ InUserCode
  /\ \A k \in 1 .. Len(calls) : calls[k].hook = h => \A u \in calls[k].todo : u < t
  /\ \A u \in live[h] : u < t
  /\ live' = [live EXCEPT ![h] = @ \cup {t}]
  /\ owner' = [owner EXCEPT ![h][t] = who]
  /\ \/ calls' = calls
     \/ calls' = [k \in 1 .. Len(calls) |->
                    [calls[k] EXCEPT !.suspect = @ \/ calls[k].hook = h]]
  /\ UNCHANGED undefined

\* The subscriptions gone[h] end: no dispatch owes them a call any more.
Forget(gone, c) ==
  /\ live' = [h \in Hooks |-> live[h] \ gone[h]]
  /\ calls' = [k \in 1 .. Len(c) |-> [c[k] EXCEPT !.todo = @ \ gone[c[k].hook]]]

Drop(h, t) ==
  /\ InUserCode
  /\ t \in live[h]
  /\ Forget([g \in Hooks |-> IF g = h THEN {t} ELSE {}], calls)
  /\ UNCHANGED <<owner, undefined>>

Dispatch(h) ==
  /\ InUserCode
  /\ calls' = Append(calls, [hook |-> h, todo |-> live[h], cur |-> NoToken,
                             suspect |-> FALSE, val |-> <<>>])
  /\ UNCHANGED <<live, owner, undefined>>

\* The next listener in subscription order is called.
Deliver(t) ==
  /\ calls # <<>>
  /\ Running.cur = NoToken
  /\ t \in Running.todo
  /\ \A u \in Running.todo : t <= u
  /\ SetRunning([Running EXCEPT !.cur = t, !.todo = @ \ {t}])
  /\ UNCHANGED <<live, owner, undefined>>

Return ==
  /\ calls # <<>>
  /\ Running.cur # NoToken
  /\ SetRunning([Running EXCEPT !.cur = NoToken, !.suspect = FALSE,
                   !.val = IF Running.hook \in Filters THEN Append(@, Running.cur) ELSE @])
  /\ UNCHANGED <<live, owner, undefined>>

\* The extension of the running listener is isolated: on every registered hook,
\* or on this one alone for a kernel listener or a hook without a sink.
Throw ==
  /\ calls # <<>>
  /\ Running.cur # NoToken
  /\ ~Running.suspect
  /\ LET h == Running.hook
         who == owner[h][Running.cur]
         reach == IF h \in Registered /\ who # Kernel THEN Registered ELSE {h}
     IN  Forget([g \in Hooks |->
                   IF g \in reach THEN {t \in live[g] : owner[g][t] = who} ELSE {}],
                [calls EXCEPT ![Len(calls)].cur = NoToken])
  /\ UNCHANGED <<owner, undefined>>

\* The dispatch owes nothing more.
Finish ==
  /\ calls # <<>>
  /\ Running.cur = NoToken
  /\ Running.todo = {}
  /\ calls' = SubSeq(calls, 1, Len(calls) - 1)
  /\ UNCHANGED <<live, owner, undefined>>

\* A suspect listener threw: nothing is promised from here on.
Void == undefined' = TRUE

Next ==
  \/ \E h \in Hooks, t \in Tokens, who \in Owners : Subscribe(h, t, who)
  \/ \E h \in Hooks, t \in Tokens : Drop(h, t)
  \/ \E h \in Hooks : Dispatch(h)
  \/ \E t \in Tokens : Deliver(t)
  \/ Return
  \/ Throw
  \/ Finish
  \/ Void

Spec == Init /\ [][Next]_vars

=============================================================================
