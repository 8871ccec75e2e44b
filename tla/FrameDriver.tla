---------------------------- MODULE FrameDriver ----------------------------
(***************************************************************************)
(* Host::request_frames: the set of per-frame callbacks                    *)
(* (kernel/src/frame_driver.cpp) and the output whose frame events drain   *)
(* it (kernel/src/server.cpp, handle_new_output).                          *)
(*                                                                         *)
(* One thread: extension code runs from other events (at = "loop"), inside *)
(* a frame callback (at = "drain" with cur set) and inside the             *)
(* ev_output_removed listeners of an output that is going                  *)
(* (at = "removing"); in each it may ask for frames or drop a request.     *)
(*                                                                         *)
(* External (wlroots): an enabled output for which a frame is scheduled,   *)
(* or whose scene is damaged, sends one frame event; an output that could  *)
(* not be enabled sends none.                                              *)
(***************************************************************************)
EXTENDS Integers, FiniteSets, Lists

CONSTANTS
  Outputs,       \* the monitors that may be plugged in
  ExtensionIds,
  NoOutput,      \* nullptr
  MaxTokens      \* bound: requests ever made

ASSUME FrameAssumption ==
  /\ NoOutput \notin Outputs
  /\ MaxTokens \in Nat

Tokens == 1 .. MaxTokens
NoToken == 0

VARIABLES
  outputs,     \* Impl::outputs, first added first
  enabled,     \* of those, the ones with a committed mode
  pending,     \* outputs that will send a frame event
  driver,      \* frame_driver_output
  entries,     \* the tokens in FrameDriver::entries_
  who,         \* [Tokens -> ExtensionIds]: Entry::who
  next_token,
  base,        \* last_frame_time: "unset" (< 0), "previous" (the driver's previous
               \* frame) or "older" (it has rendered frames since)
  at,          \* "loop", "drain" or "removing"
  to_fire,     \* the tokens of the snapshot that drain() has not reached
  cur,         \* the callback that is running
  going,       \* the output in its destroy handler
  disabled     \* extensions disabled for a throw

screen == <<outputs, enabled, driver, going>>
requests == <<entries, who, next_token>>
vars == <<screen, requests, pending, base, at, to_fire, cur, disabled>>

Plugged == Elements(outputs)

\* outputs.remove_if.
Without(o) ==
  LET k == CHOOSE i \in DOMAIN outputs : outputs[i] = o
  IN  [i \in 1 .. Len(outputs) - 1 |-> IF i < k THEN outputs[i] ELSE outputs[i + 1]]

InUserCode == at = "drain" => cur # NoToken

\* wlr_output_schedule_frame (external).
Scheduled(o) == pending \cup ({o} \cap enabled)

-----------------------------------------------------------------------------
Init ==
  /\ outputs = <<>>
  /\ enabled = {}
  /\ pending = {}
  /\ driver = NoOutput
  /\ entries = {}
  /\ who \in [Tokens -> ExtensionIds]
  /\ next_token = 0
  /\ base = "unset"
  /\ at = "loop"
  /\ to_fire = {}
  /\ cur = NoToken
  /\ going = NoOutput
  /\ disabled = {}

\* Mutant of RequestFrames: an idle scene is left alone.
RequestUnscheduled ==
  /\ InUserCode
  /\ next_token < MaxTokens
  /\ next_token' = next_token + 1
  /\ entries' = entries \cup {next_token'}
  /\ driver' = IF driver = NoOutput /\ outputs # <<>> THEN Head(outputs) ELSE driver
  /\ UNCHANGED <<outputs, enabled, going, who, pending, base, at, to_fire, cur, disabled>>

\* register_frame_request(): add(), then schedule_driver_frame(), which settles for
\* the first output when there is no driver.
RequestFrames ==
  /\ InUserCode
  /\ next_token < MaxTokens
  /\ next_token' = next_token + 1
  /\ entries' = entries \cup {next_token'}
  /\ driver' = IF driver = NoOutput /\ outputs # <<>> THEN Head(outputs) ELSE driver
  /\ pending' = Scheduled(driver')
  /\ UNCHANGED <<outputs, enabled, going, who, base, at, to_fire, cur, disabled>>

\* ~FrameRequest() / reset().
Release(t) ==
  /\ InUserCode
  /\ t \in entries
  /\ entries' = entries \ {t}
  /\ UNCHANGED <<screen, who, next_token, pending, base, at, to_fire, cur, disabled>>

\* handle_new_output(): the mode commits, or every attempt fails and the output is
\* kept all the same.  An enabled output renders its first frame (external).
NewOutput(o, committed) ==
  /\ at = "loop"
  /\ o \notin Plugged
  /\ outputs' = Append(outputs, o)
  /\ enabled' = IF committed THEN enabled \cup {o} ELSE enabled
  /\ pending' = IF committed THEN pending \cup {o} ELSE pending
  /\ UNCHANGED <<driver, going, requests, base, at, to_fire, cur, disabled>>

\* The scene changes on an output (external).
Damage(o) ==
  /\ o \in enabled
  /\ pending' = Scheduled(o)
  /\ UNCHANGED <<screen, requests, base, at, to_fire, cur, disabled>>

\* Mutant of Frame: the next frame is scheduled whether or not anybody asks.
FrameReschedules(o) ==
  /\ at = "loop"
  /\ o \in pending
  /\ pending' = pending
  /\ driver' = IF driver = NoOutput THEN o ELSE driver
  /\ IF o = driver' /\ entries # {}
     THEN at' = "drain" /\ to_fire' = entries /\ base' = "previous"
     ELSE /\ base' = IF o = driver' /\ base = "previous" THEN "older" ELSE base
          /\ UNCHANGED <<at, to_fire>>
  /\ UNCHANGED <<outputs, enabled, going, requests, cur, disabled>>

\* The frame handler: without a driver this output becomes it; the driver takes the
\* time and the snapshot when anybody asks for frames.  Every output then renders.
Frame(o) ==
  /\ at = "loop"
  /\ o \in pending
  /\ pending' = pending \ {o}
  /\ driver' = IF driver = NoOutput THEN o ELSE driver
  /\ IF o = driver' /\ entries # {}
     THEN at' = "drain" /\ to_fire' = entries /\ base' = "previous"
     ELSE /\ base' = IF o = driver' /\ base = "previous" THEN "older" ELSE base
          /\ UNCHANGED <<at, to_fire>>
  /\ UNCHANGED <<outputs, enabled, going, requests, cur, disabled>>

\* One turn of drain(), in the order of an unordered_map: a token that is gone is
\* passed over, the others are called.
Fire(t) ==
  /\ at = "drain" /\ cur = NoToken
  /\ t \in to_fire
  /\ to_fire' = to_fire \ {t}
  /\ cur' = IF t \in entries THEN t ELSE NoToken
  /\ UNCHANGED <<screen, requests, pending, base, at, disabled>>

Return ==
  /\ at = "drain" /\ cur # NoToken
  /\ cur' = NoToken
  /\ UNCHANGED <<screen, requests, pending, base, at, to_fire, disabled>>

\* The callback throws: disable() purges the hooks of its extension; the entry stays.
Throw ==
  /\ at = "drain" /\ cur # NoToken
  /\ disabled' = disabled \cup {who[cur]}
  /\ cur' = NoToken
  /\ UNCHANGED <<screen, requests, pending, base, at, to_fire>>

\* The rest of the frame handler: more frames while anybody still asks for them.
DrainEnd ==
  /\ at = "drain" /\ cur = NoToken /\ to_fire = {}
  /\ at' = "loop"
  /\ IF entries # {}
     THEN pending' = Scheduled(driver) /\ UNCHANGED base
     ELSE base' = "unset" /\ UNCHANGED pending
  /\ UNCHANGED <<screen, requests, to_fire, cur, disabled>>

\* The destroy handler emits ev_output_removed while the output is still listed.
OutputGoes(o) ==
  /\ at = "loop"
  /\ o \in Plugged
  /\ at' = "removing"
  /\ going' = o
  /\ UNCHANGED <<outputs, enabled, driver, requests, pending, base, to_fire, cur, disabled>>

\* The first output in the list that is not the one going.
Survivor == LET rest == Without(going) IN IF rest = <<>> THEN NoOutput ELSE Head(rest)

\* The rest of it: a driver that goes is replaced by a survivor, which is scheduled
\* when anybody asks for frames.
OutputGone ==
  /\ at = "removing"
  /\ at' = "loop"
  /\ going' = NoOutput
  /\ outputs' = Without(going)
  /\ enabled' = enabled \ {going}
  /\ IF driver = going
     THEN /\ driver' = Survivor
          /\ base' = "unset"
          /\ pending' = (IF entries # {} THEN Scheduled(Survivor) ELSE pending) \ {going}
     ELSE pending' = pending \ {going} /\ UNCHANGED <<driver, base>>
  /\ UNCHANGED <<requests, to_fire, cur, disabled>>

Next ==
  \/ RequestFrames
  \/ \E t \in Tokens : Release(t) \/ Fire(t)
  \/ \E o \in Outputs : Frame(o) \/ Damage(o) \/ OutputGoes(o)
  \/ \E o \in Outputs, committed \in BOOLEAN : NewOutput(o, committed)
  \/ Return \/ Throw \/ DrainEnd \/ OutputGone

Spec == Init /\ [][Next]_vars

\* wlroots sends the frame events it owes, and a handler runs to its end.
Handlers == (\E t \in Tokens : Fire(t)) \/ Return \/ Throw \/ DrainEnd \/ OutputGone
FairSpec == /\ Spec
            /\ WF_vars(Handlers)
            /\ \A o \in Outputs : WF_vars(Frame(o))

-----------------------------------------------------------------------------
TypeOK ==
  /\ outputs \in Seq(Outputs)
  /\ \A i, j \in DOMAIN outputs : outputs[i] = outputs[j] => i = j
  /\ enabled \subseteq Plugged
  /\ pending \subseteq enabled
  /\ entries \subseteq 1 .. next_token
  /\ who \in [Tokens -> ExtensionIds]
  /\ next_token \in 0 .. MaxTokens
  /\ base \in {"unset", "previous", "older"}
  /\ at \in {"loop", "drain", "removing"}
  /\ to_fire \subseteq 1 .. next_token
  /\ cur \in 0 .. next_token
  /\ going \in IF at = "removing" THEN Plugged ELSE {NoOutput}
  /\ disabled \subseteq ExtensionIds

\* The driver is an output that is there, whatever the listeners of the removal of an
\* output ask for while it is still listed (server.cpp:595-621).
DriverIsPlugged == driver \in Plugged \cup {NoOutput}

\* host.hpp:229-231 "While >=1 FrameRequest is alive the kernel SCHEDULES output
\* frames continuously": between handlers there is always a frame on its way to the
\* driver, or to whichever output becomes it, when the driver can render at all.
FrameIsComing ==
  at = "loop" /\ entries # {} =>
    \/ driver \in pending
    \/ driver \in Plugged \ enabled
    \/ driver = NoOutput /\ enabled \subseteq pending

\* Once outputs stay plugged, a request is called, is dropped, or there is no screen
\* that could show it, again and again: unplugging the driver, other requests, throws
\* and idle scenes lose no animation.
RequestsAreServed ==
  <>[][\A o \in Outputs : ~OutputGoes(o)]_vars =>
    \A t \in Tokens : []<>(t \in entries => cur = t \/ enabled = {} \/ driver \in Plugged \ enabled)

\* host.hpp:231-232 "when the last handle dies it stops requesting frames (no busy
\* render at rest)": with no request and no change of the scene, rendering ceases.
StopsAtRest ==
  <>[](entries = {}) /\ <>[][outputs' = outputs /\ \A o \in Outputs : ~Damage(o)]_vars
    => <>[](pending = {})

\* host.hpp:237-238 "a throw out of `on_frame` disables your extension (same boundary
\* as watch_file / a hook)": a disabled extension is not called again.
DisabledIsSilent ==
  [][ cur' # NoToken /\ cur' # cur => who[cur'] \notin disabled ]_vars

=============================================================================
