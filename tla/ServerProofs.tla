---------------------------- MODULE ServerProofs ----------------------------
(***************************************************************************)
(* Proofs about three parts of the kernel's server: FrameDriver for every  *)
(* set of outputs and every number of requests, ServerLife and its         *)
(* ExtensionHost for every set of extensions and every set of manifests.   *)
(*                                                                         *)
(* FrameDriver: the inductive invariant adds to the checked properties     *)
(* that a drain has a driver, and that the frame that is coming is coming  *)
(* while an output goes, too.                                              *)
(*                                                                         *)
(* ServerLife: shutdown() takes the parts in the order of Number, in which *)
(* no part comes after one that it uses; that order, and how far init()    *)
(* got, make NothingOutlivesWhatItUses inductive.                          *)
(*                                                                         *)
(* ExtensionHost: the picks of Kahn's algorithm are a recursion whose      *)
(* every value goes in turn (GoInTurn), which the list of the active and   *)
(* the list of those that are left keep between them.                      *)
(***************************************************************************)
EXTENDS FrameDriver, ServerLife, ListsProofs, FiniteSetTheorems, TLAPS

Coming ==
  at # "drain" /\ entries # {} =>
    \/ driver \in pending
    \/ driver \in Plugged \ enabled
    \/ driver = NoOutput /\ enabled \subseteq pending

FrameInv ==
  /\ TypeOK
  /\ DriverIsPlugged
  /\ at = "drain" => driver \in Plugged
  /\ Coming

\* What is left of the list when an output goes, as a list and as a set.
LEMMA WithoutOne ==
  ASSUME TypeOK, NEW o \in Plugged
  PROVE  /\ Without(o) \in Seq(Outputs)
         /\ Len(Without(o)) = Len(outputs) - 1
         /\ \A i, j \in DOMAIN Without(o) : Without(o)[i] = Without(o)[j] => i = j
         /\ Elements(Without(o)) = Plugged \ {o}
<1>. DEFINE k == CHOOSE i \in DOMAIN outputs : outputs[i] = o
            w == [i \in 1 .. Len(outputs) - 1 |-> IF i < k THEN outputs[i] ELSE outputs[i + 1]]
<1>1. /\ outputs \in Seq(Outputs) /\ Len(outputs) \in Nat /\ DOMAIN outputs = 1 .. Len(outputs)
      /\ \A i, j \in DOMAIN outputs : outputs[i] = outputs[j] => i = j
      /\ \A i \in DOMAIN outputs : outputs[i] \in Outputs
  BY DEF TypeOK
<1>2. k \in DOMAIN outputs /\ outputs[k] = o
  BY DEF Plugged, Elements
<1>3. Without(o) = w
  BY DEF Without
<1>. HIDE DEF k
<1>4. w \in [1 .. Len(outputs) - 1 -> Outputs] /\ Len(outputs) - 1 \in Nat
  BY <1>1, <1>2
<1>5. w \in Seq(Outputs) /\ Len(w) = Len(outputs) - 1 /\ DOMAIN w = 1 .. Len(outputs) - 1
  BY <1>4
<1>6. \A i, j \in DOMAIN w : w[i] = w[j] => i = j
  BY <1>1, <1>2, <1>5
<1>7. Elements(w) \subseteq Plugged \ {o}
  BY <1>1, <1>2, <1>5 DEF Elements, Plugged
<1>8. ASSUME NEW p \in Plugged \ {o} PROVE p \in Elements(w)
  <2>1. PICK j \in DOMAIN outputs : outputs[j] = p
    BY DEF Plugged, Elements
  <2>2. j # k
    BY <2>1, <1>2
  <2>3. CASE j < k
    <3>1. j \in DOMAIN w /\ w[j] = p
      BY <2>1, <2>3, <1>1, <1>2, <1>5
    <3>. QED  BY <3>1 DEF Elements
  <2>4. CASE j > k
    <3>1. j - 1 \in DOMAIN w /\ w[j - 1] = p
      BY <2>1, <2>4, <1>1, <1>2, <1>5
    <3>. QED  BY <3>1 DEF Elements
  <2>. QED  BY <2>2, <2>3, <2>4, <1>1, <1>2
<1>9. Elements(w) = Plugged \ {o}
  BY <1>7, <1>8
<1>. HIDE DEF w
<1>. QED  BY <1>3, <1>5, <1>6, <1>9

\* Initially there is no screen and no request.
LEMMA InitFrames == Init => FrameInv
BY FrameAssumption
   DEF Init, FrameInv, TypeOK, DriverIsPlugged, Coming, Plugged, Elements, Tokens, NoToken

\* A request while there is no driver takes the first output, which is plugged in.
LEMMA RequestStep == ASSUME FrameInv, RequestFrames PROVE FrameInv'
<1>. USE DEF FrameInv
<1>1. driver' \in Plugged \cup {NoOutput} /\ (at = "drain" => driver' \in Plugged)
  BY DEF RequestFrames, DriverIsPlugged, Plugged, Elements, TypeOK
<1>2. outputs' = outputs /\ Plugged' = Plugged
  BY DEF RequestFrames, Plugged
<1>3. driver' = NoOutput => enabled = {}
  <2>1. driver' = NoOutput => outputs = <<>>
    BY FrameAssumption DEF RequestFrames, TypeOK
  <2>. QED  BY <2>1 DEF TypeOK, Plugged, Elements
<1>4. NoOutput \notin Plugged
  BY FrameAssumption DEF TypeOK, Plugged, Elements
<1>5. TypeOK'
  <2>1. /\ next_token' = next_token + 1 /\ next_token' \in 0 .. MaxTokens
        /\ entries' \subseteq 1 .. next_token' /\ to_fire' \subseteq 1 .. next_token'
        /\ cur' \in 0 .. next_token'
    BY FrameAssumption DEF RequestFrames, TypeOK
  <2>2. pending' \subseteq enabled'
    BY DEF RequestFrames, TypeOK, Scheduled
  <2>. QED  BY <1>2, <2>1, <2>2 DEF RequestFrames, TypeOK
<1>6. Coming'
  BY <1>1, <1>2, <1>3 DEF RequestFrames, Coming, Scheduled
<1>. QED  BY <1>1, <1>2, <1>5, <1>6 DEF DriverIsPlugged, RequestFrames

LEMMA ReleaseStep == ASSUME FrameInv, NEW t \in Tokens, Release(t) PROVE FrameInv'
BY DEF FrameInv, Release, TypeOK, DriverIsPlugged, Coming, Plugged, screen

LEMMA FireStep == ASSUME FrameInv, NEW t \in Tokens, Fire(t) PROVE FrameInv'
BY DEF FrameInv, Fire, TypeOK, DriverIsPlugged, Coming, Plugged, screen, requests, NoToken

LEMMA FrameStep == ASSUME FrameInv, NEW o \in Outputs, Frame(o) PROVE FrameInv'
<1>. USE DEF FrameInv
<1>1. o \in Plugged /\ Plugged' = Plugged
  BY DEF Frame, TypeOK, Plugged
<1>2. driver' \in Plugged
  BY <1>1 DEF Frame, DriverIsPlugged
<1>3. TypeOK'
  BY <1>1 DEF Frame, TypeOK, requests
<1>4. Coming'
  BY <1>1, <1>2, FrameAssumption DEF Frame, Coming, TypeOK, requests
<1>. QED  BY <1>1, <1>2, <1>3, <1>4 DEF DriverIsPlugged, Frame

LEMMA DamageStep == ASSUME FrameInv, NEW o \in Outputs, Damage(o) PROVE FrameInv'
BY DEF FrameInv, Damage, Scheduled, TypeOK, DriverIsPlugged, Coming, Plugged, screen, requests

LEMMA OutputGoesStep == ASSUME FrameInv, NEW o \in Outputs, OutputGoes(o) PROVE FrameInv'
BY DEF FrameInv, OutputGoes, TypeOK, DriverIsPlugged, Coming, Plugged, requests

\* A new output is added behind the others, and its first frame is coming.
LEMMA NewOutputStep ==
  ASSUME FrameInv, NEW o \in Outputs, NEW committed \in BOOLEAN, NewOutput(o, committed)
  PROVE  FrameInv'
<1>. USE DEF FrameInv
<1>1. /\ outputs' \in Seq(Outputs) /\ Len(outputs') = Len(outputs) + 1
      /\ \A i \in 1 .. Len(outputs) : outputs'[i] = outputs[i]
      /\ outputs'[Len(outputs) + 1] = o
  BY DEF NewOutput, TypeOK
<1>2. Plugged' = Plugged \cup {o}
  <2>1. DOMAIN outputs = 1 .. Len(outputs) /\ DOMAIN outputs' = 1 .. Len(outputs) + 1
        /\ Len(outputs) \in Nat
    BY <1>1 DEF TypeOK
  <2>2. ASSUME NEW p \in Plugged \cup {o} PROVE p \in Plugged'
    <3>1. CASE p = o
      <4>1. Len(outputs) + 1 \in DOMAIN outputs'
        BY <2>1
      <4>. QED  BY <3>1, <4>1, <1>1 DEF Plugged, Elements
    <3>2. CASE p \in Plugged
      BY <3>2, <2>1, <1>1 DEF Plugged, Elements
    <3>. QED  BY <2>2, <3>1, <3>2
  <2>3. ASSUME NEW p \in Plugged' PROVE p \in Plugged \cup {o}
    <3>1. PICK j \in DOMAIN outputs' : outputs'[j] = p
      BY DEF Plugged, Elements
    <3>2. CASE j = Len(outputs) + 1
      BY <3>1, <3>2, <1>1
    <3>3. CASE j \in DOMAIN outputs
      BY <3>1, <3>3, <2>1, <1>1 DEF Plugged, Elements
    <3>. QED  BY <3>2, <3>3, <2>1
  <2>. QED  BY <2>2, <2>3
<1>3. \A i, j \in DOMAIN outputs' : outputs'[i] = outputs'[j] => i = j
  BY <1>1 DEF NewOutput, TypeOK, Plugged, Elements
<1>4. TypeOK'
  BY <1>1, <1>2, <1>3 DEF NewOutput, TypeOK, requests
<1>5. Coming'
  BY <1>2 DEF NewOutput, Coming, TypeOK, requests
<1>. QED  BY <1>2, <1>4, <1>5 DEF DriverIsPlugged, NewOutput

\* The end of a callback changes nothing here but who is disabled.
LEMMA CallbackStep == ASSUME FrameInv, Return \/ Throw PROVE FrameInv'
<1>1. CASE Return
  BY <1>1 DEF FrameInv, Return, TypeOK, DriverIsPlugged, Coming, Plugged, screen, requests,
    NoToken
<1>2. CASE Throw
  <2>1. who[cur] \in ExtensionIds
    BY <1>2, FrameAssumption DEF FrameInv, TypeOK, Throw, Tokens, NoToken
  <2>. QED  BY <1>2, <2>1 DEF FrameInv, Throw, TypeOK, DriverIsPlugged, Coming, Plugged,
              screen, requests, NoToken
<1>. QED  BY <1>1, <1>2

LEMMA DrainEndStep == ASSUME FrameInv, DrainEnd PROVE FrameInv'
BY DEF FrameInv, DrainEnd, Scheduled, TypeOK, DriverIsPlugged, Coming, Plugged, screen, requests

\* The survivor is the first of those that are left, or nobody is left.
LEMMA OutputGoneStep == ASSUME FrameInv, OutputGone PROVE FrameInv'
<1>. USE DEF FrameInv
<1>1. going \in Plugged
  BY DEF OutputGone, TypeOK
<1>2. /\ outputs' \in Seq(Outputs)
      /\ \A i, j \in DOMAIN outputs' : outputs'[i] = outputs'[j] => i = j
      /\ Plugged' = Plugged \ {going}
      /\ outputs' = Without(going)
  BY <1>1, WithoutOne DEF OutputGone, Plugged
<1>3. \/ Survivor = NoOutput /\ Plugged' = {}
      \/ Survivor \in Plugged'
  BY <1>2 DEF Survivor, Plugged, Elements
<1>4. TypeOK'
  <2>1. pending' \subseteq enabled'
    BY DEF OutputGone, TypeOK, Scheduled
  <2>2. /\ enabled' \subseteq Plugged' /\ base' \in {"unset", "previous", "older"}
        /\ at' = "loop" /\ going' = NoOutput
    BY <1>2 DEF OutputGone, TypeOK
  <2>. QED  BY <1>2, <2>1, <2>2 DEF OutputGone, TypeOK, requests
<1>5. DriverIsPlugged'
  BY <1>2, <1>3 DEF OutputGone, DriverIsPlugged
<1>6. Coming'
  <2>1. CASE driver = going
    <3>1. CASE Survivor \in Plugged'
      BY <2>1, <3>1, <1>2 DEF OutputGone, Coming, Scheduled, requests
    <3>2. CASE Survivor = NoOutput /\ Plugged' = {}
      BY <2>1, <3>2, <1>4 DEF OutputGone, Coming, TypeOK, requests
    <3>. QED  BY <1>3, <3>1, <3>2
  <2>2. CASE driver # going
    BY <2>2, <1>2 DEF OutputGone, Coming, requests
  <2>. QED  BY <2>1, <2>2
<1>. QED  BY <1>4, <1>5, <1>6 DEF OutputGone

LEMMA FrameInvStep == FrameInv /\ [Next]_vars => FrameInv'
<1>. SUFFICES ASSUME FrameInv, [Next]_vars PROVE FrameInv'
  OBVIOUS
<1>1. CASE UNCHANGED vars
  BY <1>1 DEF FrameInv, TypeOK, DriverIsPlugged, Coming, Plugged, vars, screen, requests
<1>2. CASE Next
  BY <1>2, RequestStep, ReleaseStep, FireStep, FrameStep, DamageStep, OutputGoesStep,
     NewOutputStep, CallbackStep, DrainEndStep, OutputGoneStep DEF Next
<1>. QED  BY <1>1, <1>2

\* FrameInv holds in every state of the frame driver.
THEOREM FrameInvariance == Spec => []FrameInv
BY InitFrames, FrameInvStep, PTL DEF Spec

\* Every variable keeps its type; no output is listed twice.
THEOREM FrameTypes == Spec => []TypeOK
<1>1. FrameInv => TypeOK  BY DEF FrameInv
<1>. QED  BY FrameInvariance, <1>1, PTL

\* frame_driver_output never dangles.
THEOREM DriverOutlivesNoOutput == Spec => []DriverIsPlugged
<1>1. FrameInv => DriverIsPlugged  BY DEF FrameInv
<1>. QED  BY FrameInvariance, <1>1, PTL

\* The kernel keeps the frames coming while anybody asks for them.
THEOREM AnimationsAreFed == Spec => []FrameIsComing
<1>1. FrameInv => FrameIsComing  BY DEF FrameInv, Coming, FrameIsComing
<1>. QED  BY FrameInvariance, <1>1, PTL


-----------------------------------------------------------------------------
\* The order of init() and shutdown(), part by part.

Number(part) ==
  CASE part = "rml" -> 1 [] part = "render_iface" -> 2 [] part = "egl_context" -> 3
    [] part = "substrate" -> 4 [] part = "watcher" -> 5 [] part = "clients" -> 6
    [] part \in Listeners -> 7 [] part \in {"scene", "scene_layout", "scene_layers"} -> 8
    [] part = "cursor_mgr" -> 9 [] part = "cursor" -> 10 [] part = "allocator" -> 11
    [] part = "renderer" -> 12 [] part \in {"backend", "devices"} -> 13
    [] part \in {"display", "seat", "output_layout", "socket"} -> 14

Parts == {Startup[i] : i \in DOMAIN Startup} \cup {"clients"}

LEMMA StartupIs ==
  /\ Len(Startup) = 22
  /\ Startup[1] = "display" /\ Startup[2] = "backend" /\ Startup[3] = "renderer"
  /\ Startup[4] = "allocator" /\ Startup[5] = "output_layout" /\ Startup[6] = "new_output"
  /\ Startup[7] = "scene" /\ Startup[8] = "scene_layout" /\ Startup[9] = "scene_layers"
  /\ Startup[10] = "cursor" /\ Startup[11] = "cursor_mgr" /\ Startup[12] = "cursor_handlers"
  /\ Startup[13] = "new_input" /\ Startup[14] = "seat" /\ Startup[15] = "seat_handlers"
  /\ Startup[16] = "socket" /\ Startup[17] = "devices" /\ Startup[18] = "watcher"
  /\ Startup[19] = "egl_context" /\ Startup[20] = "render_iface" /\ Startup[21] = "rml"
  /\ Startup[22] = "substrate"
  BY DEF Startup

LEMMA TeardownIs ==
  /\ Len(Teardown) = 14
  /\ Teardown[1] = {"rml"} /\ Teardown[2] = {"render_iface"} /\ Teardown[3] = {"egl_context"}
  /\ Teardown[4] = {"substrate"} /\ Teardown[5] = {"watcher"} /\ Teardown[6] = {"clients"}
  /\ Teardown[7] = Listeners /\ Teardown[8] = {"scene", "scene_layout", "scene_layers"}
  /\ Teardown[9] = {"cursor_mgr"} /\ Teardown[10] = {"cursor"} /\ Teardown[11] = {"allocator"}
  /\ Teardown[12] = {"renderer"} /\ Teardown[13] = {"backend", "devices"}
  /\ Teardown[14] = {"display", "seat", "output_layout", "socket"}
  BY DEF Teardown, GlTeardown

LEMMA StartupUses ==
  ASSUME NEW i \in 1 .. 22, NEW part \in Uses(Startup[i])
  PROVE  \E j \in 1 .. i - 1 : part = Startup[j] /\ (j <= 18 \/ i <= 21)
  BY StartupIs DEF Uses, SeatHandlers

LEMMA TeardownOrder ==
  ASSUME NEW p \in Parts, NEW u \in Uses(p)
  PROVE  u \in Parts /\ Number(u) >= Number(p)
  BY StartupIs DEF Parts, Uses, SeatHandlers, Number, Listeners

LEMMA TeardownStep ==
  ASSUME NEW k \in 1 .. 14, NEW p \in Parts
  PROVE  /\ Number(p) \in 1 .. 14
         /\ p \in Teardown[k] <=> Number(p) = k
  BY StartupIs, TeardownIs DEF Parts, Number, Listeners

\* The parts of the Startup are there up to the step, except that after a failure of the GL
\* bridge its own may be missing; in the end those go first that nothing else uses.
LifeInv ==
  /\ phase \in {"starting", "running", "stopping", "over"}
  /\ available \in BOOLEAN
  /\ up \subseteq Parts
  /\ \A part \in up : Uses(part) \subseteq up
  /\ phase = "starting" =>
       /\ alive = {}
       /\ step \in 0 .. 21
       /\ available => step = 21
       /\ \A i \in 1 .. 21 : i <= step /\ (i <= 18 \/ step < 21) => Startup[i] \in up
  /\ phase = "running" => HandedOut \cup {"socket"} \subseteq up
  /\ phase = "stopping" =>
       /\ step \in 0 .. 13
       /\ alive # {} => step = 0 /\ HandedOut \subseteq up
       /\ \A part \in up : Number(part) > step
  /\ phase = "over" => up = {} /\ alive = {}

LEMMA InitLife == LifeInit => LifeInv
<1>. SUFFICES ASSUME LifeInit PROVE LifeInv
  OBVIOUS
<1>1. /\ phase = "starting" /\ step = 0 /\ up = {} /\ available = FALSE /\ alive = {}
  BY DEF LifeInit, HostInit
<1>2. \A i \in 1 .. 21 : ~(i <= step)
  BY <1>1
<1>3. available \in BOOLEAN /\ (available => step = 21)
  BY <1>1, Zenon
<1>. QED  BY <1>1, <1>2, <1>3 DEF LifeInv

LEMMA StartNextStep == ASSUME LifeInv, StartNext PROVE LifeInv'
<1>1. /\ step \in 0 .. 21 /\ step' = step + 1 /\ up' = up \cup {Startup[step + 1]} /\ alive' = {}
      /\ phase' = IF step + 1 = 22 THEN "running" ELSE "starting"
      /\ available' = (Startup[step + 1] = "rml" \/ available)
      /\ phase = "starting"
      /\ available' \in BOOLEAN
  BY StartupIs DEF StartNext, LifeInv, hostVars
<1>2. \A part \in up' : Uses(part) \subseteq up'
  <2>1. ASSUME NEW part \in Uses(Startup[step + 1]) PROVE part \in up
    <3>1. step + 1 \in 1 .. 22
      BY <1>1
    <3>2. PICK j \in 1 .. step : part = Startup[j] /\ (j <= 18 \/ step + 1 <= 21)
      <4>1. \E j \in 1 .. (step + 1) - 1 : part = Startup[j] /\ (j <= 18 \/ step + 1 <= 21)
        BY <3>1, StartupUses
      <4>. QED  BY <1>1, <4>1
    <3>. QED  BY <1>1, <3>2 DEF LifeInv
  <2>. QED  BY <1>1, <2>1 DEF LifeInv
<1>3. up' \subseteq Parts
  <2>1. Startup[step + 1] \in Parts
    BY <1>1, StartupIs DEF Parts
  <2>. QED  BY <1>1, <2>1 DEF LifeInv
<1>4. CASE step = 21
  <2>1. phase' = "running" /\ Startup[22] \in up' /\ \A i \in 1 .. 18 : Startup[i] \in up'
    BY <1>1, <1>4 DEF LifeInv
  <2>2. \A i \in 1 .. 18 : i \in Nat
    OBVIOUS
  <2>3. HandedOut \cup {"socket"} \subseteq up'
    BY <2>1, StartupIs DEF HandedOut
  <2>. QED  BY <1>1, <1>2, <1>3, <2>1, <2>3 DEF LifeInv
<1>5. CASE step < 21
  <2>1. phase' = "starting" /\ step' \in 0 .. 21
    BY <1>1, <1>5
  <2>2. available' => step' = 21
    <3>1. Startup[step + 1] = "rml" => step + 1 = 21
      BY <1>1, <1>5, StartupIs
    <3>2. available = FALSE
      BY <1>1, <1>5 DEF LifeInv
    <3>. QED  BY <1>1, <1>5, <3>1, <3>2
  <2>3. ASSUME NEW i \in 1 .. 21, i <= step', i <= 18 \/ step' < 21 PROVE Startup[i] \in up'
    BY <1>1, <1>5, <2>3 DEF LifeInv
  <2>. QED  BY <1>1, <1>2, <1>3, <2>1, <2>2, <2>3 DEF LifeInv
<1>. QED  BY <1>1, <1>4, <1>5

\* Nothing uses "rml" or "devices": both may go, and the latter come, on their own.
LEMMA FailureStep == ASSUME LifeInv, StartFails \/ GlFails PROVE LifeInv'
<1>1. CASE StartFails
  <2>1. /\ phase' = "stopping" /\ step' = 0 /\ alive' = {} /\ step \in 0 .. 21
        /\ up' \in {up} \cup IF Startup[step + 1] = "devices" THEN {up \cup {"devices"}} ELSE {}
        /\ available' \in BOOLEAN
    BY <1>1 DEF StartFails, LifeInv, hostVars
  <2>2. up' \subseteq Parts /\ \A part \in up' : Uses(part) \subseteq up'
    <3>1. CASE up' = up
      BY <3>1 DEF LifeInv
    <3>2. CASE up' # up
      <4>1. up' = up \cup {"devices"} /\ step = 16 /\ phase = "starting"
        <5>1. Startup[step + 1] = "devices" /\ up' = up \cup {"devices"}
          BY <2>1, <3>2
        <5>. QED  BY <1>1, <2>1, <5>1, StartupIs DEF StartFails
      <4>2. "backend" \in up /\ "seat" \in up
        <5>1. \A i \in 1 .. 16 : Startup[i] \in up
          BY <4>1 DEF LifeInv
        <5>. QED  BY <5>1, StartupIs
      <4>3. Uses("devices") = {"backend", "seat"} /\ "devices" \in Parts
        BY StartupIs DEF Uses, Parts
      <4>. QED  BY <4>1, <4>2, <4>3 DEF LifeInv
    <3>. QED  BY <3>1, <3>2
  <2>3. \A part \in up' : Number(part) > 0
    BY <2>2, TeardownStep
  <2>. QED  BY <2>1, <2>2, <2>3 DEF LifeInv
<1>2. CASE GlFails
  <2>1. /\ phase = "starting" /\ phase' = "starting" /\ step' = 21 /\ available' = FALSE
        /\ alive' = {} /\ step \in 0 .. 21
        /\ up' \in {up, up \ {"rml"}}
        /\ step >= 18
    <3>1. Startup[step + 1] \in OfGlBridge => step >= 18
      BY <1>2, StartupIs DEF GlFails, LifeInv, OfGlBridge
    <3>. QED  BY <1>2, <3>1, StartupIs DEF GlFails, LifeInv, hostVars
  <2>2. \A part \in up' : Uses(part) \subseteq up'
    <3>1. \A part \in Parts : "rml" \notin Uses(part)
      BY StartupIs DEF Uses, Parts, SeatHandlers
    <3>. QED  BY <2>1, <3>1 DEF LifeInv
  <2>3. ASSUME NEW i \in 1 .. 18 PROVE Startup[i] \in up'
    <3>1. Startup[i] \in up
      BY <2>1 DEF LifeInv
    <3>2. Startup[i] # "rml"
      BY StartupIs
    <3>. QED  BY <2>1, <3>1, <3>2
  <2>4. ASSUME NEW i \in 1 .. 21, i <= 18 \/ step' < 21 PROVE Startup[i] \in up'
    <3>1. i \in 1 .. 18
      BY <2>1, <2>4
    <3>. QED  BY <2>3, <3>1
  <2>5. up' \subseteq Parts
    BY <2>1 DEF LifeInv
  <2>6. available' \in BOOLEAN /\ (available' => step' = 21)
    BY <2>1, Zenon
  <2>. QED  BY <2>1, <2>2, <2>4, <2>5, <2>6 DEF LifeInv
<1>. QED  BY <1>1, <1>2

LEMMA SessionStep == ASSUME LifeInv, Serve \/ ClientConnects \/ Stop PROVE LifeInv'
<1>1. CASE Serve
  BY <1>1 DEF Serve, life, LifeInv
<1>2. CASE ClientConnects
  <2>1. /\ up' = up \cup {"clients"} /\ UNCHANGED <<phase, step, available, alive>>
        /\ phase = "running"
    BY <1>2 DEF ClientConnects, hostVars
  <2>2. Uses("clients") \subseteq up /\ "clients" \in Parts
    <3>1. Uses("clients") = {"socket", "seat"}
      BY DEF Uses
    <3>2. HandedOut \cup {"socket"} \subseteq up
      BY <2>1 DEF LifeInv
    <3>. QED  BY <3>1, <3>2 DEF Parts, HandedOut
  <2>. QED  BY <2>1, <2>2 DEF LifeInv
<1>3. CASE Stop
  <2>1. /\ phase = "running" /\ phase' = "stopping" /\ step' = 0 /\ UNCHANGED <<up, alive, available>>
    BY <1>3 DEF Stop, hostVars
  <2>2. \A part \in up : Number(part) > 0
    BY TeardownStep DEF LifeInv
  <2>. QED  BY <2>1, <2>2 DEF LifeInv
<1>. QED  BY <1>1, <1>2, <1>3

\* An extension may be destroyed only in the first step of shutdown(), and a part only
\* after the last extension; what uses a part goes before it or with it.
LEMMA ShutdownStep == ASSUME LifeInv, DestroyExtension \/ TearDown PROVE LifeInv'
<1>1. CASE DestroyExtension
  <2>1. phase = "stopping" /\ UNCHANGED <<phase, step, up, available>> /\ alive # {}
    BY <1>1 DEF DestroyExtension, DestroyNext, life
  <2>. QED  BY <2>1 DEF LifeInv
<1>2. CASE TearDown
  <2>1. /\ phase = "stopping" /\ alive = {} /\ alive' = {} /\ step \in 0 .. 13
        /\ step' = step + 1 /\ step' \in 1 .. 14 /\ up' = up \ Teardown[step']
        /\ phase' = IF step' = 14 THEN "over" ELSE "stopping"
        /\ available' \in BOOLEAN
    BY <1>2, TeardownIs DEF TearDown, ExtensionsGone, LifeInv, hostVars
  <2>2. ASSUME NEW part \in up'
        PROVE  part \in up /\ part \in Parts /\ Number(part) > step' /\ Number(part) \in 1 .. 14
    <3>1. /\ part \in up /\ part \in Parts /\ part \notin Teardown[step'] /\ Number(part) > step
      BY <2>1 DEF LifeInv
    <3>2. Number(part) \in 1 .. 14 /\ Number(part) # step'
      BY <2>1, <3>1, TeardownStep
    <3>. QED  BY <2>1, <3>1, <3>2
  <2>3. ASSUME NEW part \in up', NEW u \in Uses(part) PROVE u \in up'
    <3>1. u \in up /\ u \in Parts /\ Number(u) >= Number(part)
      BY <2>2, TeardownOrder DEF LifeInv
    <3>2. Number(u) \in 1 .. 14 /\ (u \in Teardown[step'] => Number(u) = step')
      BY <2>1, <3>1, TeardownStep
    <3>. QED  BY <2>1, <2>2, <3>1, <3>2
  <2>4. step' = 14 => up' = {}
    BY <2>2
  <2>. QED  BY <2>1, <2>2, <2>3, <2>4 DEF LifeInv
<1>. QED  BY <1>1, <1>2

LEMMA StepLife == LifeInv /\ [LifeNext]_<<hostVars, life>> => LifeInv'
<1>1. LifeInv /\ UNCHANGED <<hostVars, life>> => LifeInv'
  BY DEF hostVars, life, LifeInv
<1>. QED  BY <1>1, StartNextStep, FailureStep, SessionStep, ShutdownStep DEF LifeNext

\* Whichever part of init() fails and whatever the session leaves behind, no part is there
\* without what it uses, no extension without what its Host hands out, and nothing at all
\* once shutdown() is done.
THEOREM NothingOutlives == LifeSpec => []NothingOutlivesWhatItUses
<1>1. LifeInv => NothingOutlivesWhatItUses
  <2>1. ASSUME LifeInv, alive # {} PROVE HandedOut \subseteq up
    BY <2>1 DEF LifeInv
  <2>. QED  BY <2>1 DEF LifeInv, NothingOutlivesWhatItUses
<1>. QED  BY <1>1, InitLife, StepLife, PTL DEF LifeSpec

-----------------------------------------------------------------------------
\* What may go next once `done' have been picked: its dependencies are there, and no core
\* extension that could go is passed over for a standard one.
MayGo(e, done) ==
  /\ e \in Installed \ done
  /\ depends_on[e] \subseteq done
  /\ \A o \in Installed : tier[e] = 1 /\ tier[o] = 0 /\ depends_on[o] \subseteq done => o \in done

GoInTurn(s, done) == \A i \in DOMAIN s : MayGo(s[i], done \cup {s[j] : j \in 1 .. i - 1})

LEMMA SameTurns ==
  ASSUME UNCHANGED <<manifests, extensions>>
  PROVE  \A s, done : GoInTurn(s, done)' <=> GoInTurn(s, done)
BY DEF manifests, GoInTurn, MayGo, Installed

LEMMA SamePlan ==
  ASSUME UNCHANGED <<manifests, extensions>>
  PROVE  /\ HasCycle' <=> HasCycle
         /\ MissingDependency' <=> MissingDependency
<1>1. HasCycle' <=> HasCycle
  BY DEF manifests, HasCycle, Topological, Picks, Ready, Pick, Below, Rank, Index, Installed
<1>2. MissingDependency' <=> MissingDependency
  BY DEF manifests, MissingDependency, Installed
<1>. QED  BY <1>1, <1>2

\* Adding one that may go, and taking the first away.
LEMMA GoesNext ==
  ASSUME NEW s \in Seq(Extensions), NEW e \in Extensions, NEW done,
         GoInTurn(s, done), MayGo(e, done \cup Elements(s))
  PROVE  GoInTurn(Append(s, e), done)
<1>. DEFINE a == Append(s, e)
<1>1. /\ DOMAIN s = 1 .. Len(s) /\ Len(s) \in Nat /\ DOMAIN a = 1 .. Len(s) + 1
      /\ \A i \in 1 .. Len(s) : a[i] = s[i]
      /\ a[Len(s) + 1] = e
  OBVIOUS
<1>. HIDE DEF a
<1>2. ASSUME NEW i \in DOMAIN a PROVE MayGo(a[i], done \cup {a[j] : j \in 1 .. i - 1})
  <2>1. {a[j] : j \in 1 .. i - 1} = {s[j] : j \in 1 .. i - 1}
    <3>1. \A j \in 1 .. i - 1 : j \in 1 .. Len(s)
      BY <1>1
    <3>. QED  BY <1>1, <3>1
  <2>2. CASE i \in DOMAIN s
    BY <1>1, <2>1, <2>2 DEF GoInTurn
  <2>3. CASE i = Len(s) + 1
    <3>1. {s[j] : j \in 1 .. i - 1} = Elements(s)
      BY <1>1, <2>3 DEF Elements
    <3>. QED  BY <1>1, <2>1, <2>3, <3>1
  <2>. QED  BY <1>1, <2>2, <2>3
<1>. QED  BY <1>2 DEF GoInTurn, a

LEMMA GoesFirst ==
  ASSUME NEW s \in Seq(Extensions), s # <<>>, NEW done, GoInTurn(s, done)
  PROVE  /\ MayGo(Head(s), done)
         /\ GoInTurn(Tail(s), done \cup {Head(s)})
         /\ Tail(s) \in Seq(Extensions) /\ Head(s) \in Extensions
<1>. DEFINE r == Tail(s)
<1>1. /\ DOMAIN s = 1 .. Len(s) /\ Len(s) \in Nat \ {0} /\ DOMAIN r = 1 .. Len(s) - 1
      /\ \A i \in 1 .. Len(s) - 1 : r[i] = s[i + 1]
      /\ Head(s) = s[1] /\ r \in Seq(Extensions) /\ s[1] \in Extensions
  OBVIOUS
<1>2. MayGo(s[1], done)
  <2>1. {s[j] : j \in 1 .. 1 - 1} = {} /\ 1 \in DOMAIN s
    BY <1>1
  <2>2. MayGo(s[1], done \cup {s[j] : j \in 1 .. 1 - 1})
    BY <2>1 DEF GoInTurn
  <2>3. done \cup {s[j] : j \in 1 .. 1 - 1} = done
    BY <2>1
  <2>. QED  BY <2>2, <2>3
<1>. HIDE DEF r
<1>3. ASSUME NEW i \in DOMAIN r
      PROVE  MayGo(r[i], (done \cup {s[1]}) \cup {r[j] : j \in 1 .. i - 1})
  <2>1. {s[1]} \cup {r[j] : j \in 1 .. i - 1} = {s[j] : j \in 1 .. (i + 1) - 1}
    <3>1. ASSUME NEW j \in 1 .. i - 1 PROVE r[j] = s[j + 1] /\ j + 1 \in 1 .. (i + 1) - 1
      BY <1>1
    <3>2. ASSUME NEW j \in 1 .. (i + 1) - 1, j # 1 PROVE j - 1 \in 1 .. i - 1 /\ r[j - 1] = s[j]
      BY <1>1, <3>2
    <3>3. 1 \in 1 .. (i + 1) - 1
      BY <1>1
    <3>. QED  BY <3>1, <3>2, <3>3
  <2>2. i + 1 \in DOMAIN s /\ r[i] = s[i + 1]
    BY <1>1
  <2>3. MayGo(s[i + 1], done \cup {s[j] : j \in 1 .. (i + 1) - 1})
    BY <2>2 DEF GoInTurn
  <2>4. done \cup {s[j] : j \in 1 .. (i + 1) - 1} = (done \cup {s[1]}) \cup {r[j] : j \in 1 .. i - 1}
    BY <2>1
  <2>. QED  BY <2>2, <2>3, <2>4
<1>. QED  BY <1>1, <1>2, <1>3 DEF GoInTurn, r

\* Rank orders what is ready, so that there is a pick, and it may go.
LEMMA PickMayGo ==
  ASSUME HostTypeOK, NEW done, Ready(done) # {}
  PROVE  MayGo(Pick(Ready(done)), done) /\ Pick(Ready(done)) \in Extensions
<1>. DEFINE ready == Ready(done)
            code(e) == IF tier[e] = 0 THEN Index(e) ELSE Len(extensions) + Index(e)
            codes == {code(e) : e \in ready}
<1>1. ready \subseteq Installed /\ Installed \subseteq Extensions
  BY DEF Ready, Installed, HostTypeOK, Elements
<1>2. ASSUME NEW e \in Installed
      PROVE  Index(e) \in 1 .. Len(extensions) /\ extensions[Index(e)] = e /\ Len(extensions) \in Nat
  <2>1. \E i \in DOMAIN extensions : extensions[i] = e
    BY DEF Installed, Elements
  <2>2. DOMAIN extensions = 1 .. Len(extensions) /\ Len(extensions) \in Nat
    BY DEF HostTypeOK
  <2>. QED  BY <2>1, <2>2 DEF Index
<1>3. \A e \in Installed : tier[e] \in {0, 1}
  BY <1>1 DEF HostTypeOK
<1>4. codes \in SUBSET Nat /\ codes # {}
  BY <1>1, <1>2
<1>5. PICK c \in codes : \A d \in codes : c <= d
  BY <1>4, LeastExists
<1>6. PICK e \in ready : \A o \in ready : code(e) <= code(o)
  BY <1>5
<1>7. \A o \in ready \ {e} : Below(e, o)
  <2>. SUFFICES ASSUME NEW o \in ready \ {e} PROVE Below(e, o)
    OBVIOUS
  <2>1. e \in Installed /\ o \in Installed /\ code(e) <= code(o)
    BY <1>1, <1>6
  <2>2. Index(e) # Index(o)
    BY <1>2, <2>1
  <2>3. /\ Index(e) \in 1 .. Len(extensions) /\ Index(o) \in 1 .. Len(extensions)
        /\ Len(extensions) \in Nat
    BY <1>2, <2>1
  <2>4. tier[e] < tier[o] \/ (tier[e] = tier[o] /\ Index(e) < Index(o))
    BY <1>3, <2>1, <2>2, <2>3
  <2>. QED  BY <2>4 DEF Below, Rank
<1>. DEFINE p == Pick(ready)
<1>8. p \in ready /\ \A o \in ready \ {p} : Below(p, o)
  BY <1>7 DEF Pick
<1>. HIDE DEF p, ready
<1>9. ASSUME NEW o \in Installed, tier[p] = 1, tier[o] = 0, depends_on[o] \subseteq done, o \notin done
      PROVE  FALSE
  <2>1. o \in ready \ {p}
    BY <1>9 DEF ready, Ready
  <2>. QED  BY <1>8, <1>9, <2>1 DEF Below, Rank
<1>10. p \in Installed \ done /\ depends_on[p] \subseteq done
  BY <1>8 DEF ready, Ready
<1>. QED  BY <1>1, <1>9, <1>10 DEF MayGo, p, ready

\* Kahn's algorithm, unfolded: every prefix of its picks goes in turn.
LEMMA TopologicalGoes ==
  ASSUME HostTypeOK
  PROVE  Topological \in Seq(Extensions) /\ GoInTurn(Topological, {})
<1>. DEFINE N == Len(extensions)
            A == {l \in Seq(Extensions) : GoInTurn(l, {})}
            Step(l) == IF Ready(Elements(l)) = {} THEN l ELSE Append(l, Pick(Ready(Elements(l))))
            grow == [n \in 1 .. N |-> [l \in A |-> Step(l)]]
            f == CHOOSE g : g = [n \in 0 .. N |-> IF n = 0 THEN <<>> ELSE Step(g[n - 1])]
            nil == <<>>
<1>1. N \in Nat
  BY DEF HostTypeOK
<1>2. nil \in A
  BY DEF GoInTurn
<1>3. ASSUME NEW l \in A PROVE Step(l) \in A
  <2>1. CASE Ready(Elements(l)) = {}
    BY <2>1
  <2>2. CASE Ready(Elements(l)) # {}
    <3>. DEFINE p == Pick(Ready(Elements(l)))
    <3>1. MayGo(p, Elements(l)) /\ p \in Extensions
      BY <2>2, PickMayGo
    <3>. HIDE DEF p
    <3>2. l \in Seq(Extensions) /\ GoInTurn(l, {}) /\ {} \cup Elements(l) = Elements(l)
      OBVIOUS
    <3>3. GoInTurn(Append(l, p), {})
      BY <3>1, <3>2, GoesNext
    <3>4. Append(l, p) \in Seq(Extensions)
      BY <3>1, <3>2
    <3>. QED  BY <2>2, <3>3, <3>4 DEF p
  <2>. QED  BY <2>1, <2>2
<1>4. Picks = f
  BY DEF Picks
<1>. HIDE DEF N, Step, A, nil
<1>5. grow \in [1 .. N -> [A -> A]]
  BY <1>3
<1>6. \E u \in [0 .. N -> A] : Repeats(u, N, nil, grow)
  <2>. HIDE DEF grow, f
  <2>. QED  BY <1>1, <1>2, <1>5, RecursionExists
<1>7. PICK u \in [0 .. N -> A] : u[0] = nil /\ \A i \in 1 .. N : u[i] = grow[i][u[i - 1]]
  BY <1>6 DEF Repeats
<1>8. ASSUME NEW i \in 1 .. N PROVE u[i] = Step(u[i - 1])
  <2>1. u[i - 1] \in A
    BY <1>1, <1>7
  <2>. QED  BY <2>1, <1>7
<1>. HIDE DEF grow
<1>9. u = [n \in 0 .. N |-> IF n = 0 THEN <<>> ELSE Step(u[n - 1])]
  <2>1. \A i \in 0 .. N : i = 0 \/ i \in 1 .. N
    BY <1>1
  <2>. QED  BY <1>7, <1>8, <2>1 DEF nil
<1>10. f = [n \in 0 .. N |-> IF n = 0 THEN <<>> ELSE Step(f[n - 1])]
  BY <1>9
<1>. HIDE DEF f
<1>11. \A i \in 0 .. N : f[i] = u[i]
  <2>. DEFINE E == {i \in 0 .. N : f[i] = u[i]}
  <2>1. 0 \in E
    BY <1>1, <1>7, <1>10 DEF nil
  <2>2. ASSUME NEW i \in 0 .. N - 1, i \in E PROVE i + 1 \in E
    <3>1. i + 1 \in 1 .. N /\ (i + 1) - 1 = i /\ i + 1 # 0 /\ i + 1 \in 0 .. N
      BY <1>1
    <3>2. f[i + 1] = Step(f[i])
      BY <1>10, <3>1
    <3>3. u[i + 1] = Step(u[i])
      BY <1>8, <3>1
    <3>. QED  BY <2>2, <3>1, <3>2, <3>3
  <2>3. \A i \in 0 .. N : i \in E
    <3>. HIDE DEF E
    <3>. QED  BY <1>1, <2>1, <2>2, InductionUpTo
  <2>. QED  BY <2>3
<1>12. f[N] \in A
  BY <1>1, <1>11
<1>. QED  BY <1>4, <1>12 DEF A, Topological, N

LEMMA ListCount ==
  ASSUME NEW X, NEW s \in Seq(X), NoDuplicates(s)
  PROVE  IsFiniteSet(Elements(s)) /\ Cardinality(Elements(s)) = Len(s)
<1>1. /\ Len(s) \in Nat /\ DOMAIN s = 1 .. Len(s)
      /\ IsFiniteSet(1 .. Len(s)) /\ Cardinality(1 .. Len(s)) = Len(s)
  <2>1. Len(s) \in Nat /\ DOMAIN s = 1 .. Len(s)
    OBVIOUS
  <2>2. ASSUME NEW n \in Nat PROVE IsFiniteSet(1 .. n) /\ Cardinality(1 .. n) = n
    BY FS_Interval
  <2>. QED  BY <2>1, <2>2
<1>2. s \in [1 .. Len(s) -> Elements(s)]
  <2>1. \A i \in 1 .. Len(s) : s[i] \in Elements(s)
    BY <1>1 DEF Elements
  <2>. QED  BY <1>1, <2>1
<1>3. s \in Surjection(1 .. Len(s), Elements(s)) /\ s \in Injection(1 .. Len(s), Elements(s))
  BY <1>1, <1>2 DEF Surjection, Injection, IsInjective, Elements, NoDuplicates
<1>. QED  BY <1>1, <1>3, FS_Surjection

-----------------------------------------------------------------------------
\* What is active and what is left to activate go in turn, the extensions that are left are
\* the first of the list, and a subscription is on a hook of a dependency.
HostInv ==
  /\ HostTypeOK
  /\ NoDuplicates(extensions)
  /\ GoInTurn(active, {})
  /\ GoInTurn(order, Active)
  /\ ~extensions_activated => active = <<>> /\ order = <<>>
  /\ order # <<>> => destroyed = <<>>
  /\ destroyed = <<>> => alive = Installed
  /\ \E k \in 0 .. Len(extensions) : alive = {extensions[i] : i \in 1 .. k}
  /\ \A s \in subs : s[2] \in depends_on[s[1]] /\ s[2] \in Installed
  /\ active # <<>> \/ order # <<>> => ~MissingDependency /\ ~HasCycle
  /\ extensions_activated /\ ~failed => Active \cup Elements(order) = Installed

LEMMA InitHost == HostInit => HostInv
<1>. SUFFICES ASSUME HostInit PROVE HostInv
  OBVIOUS
<1>1. /\ extensions = <<>> /\ extensions_activated = FALSE /\ order = <<>> /\ active = <<>>
      /\ failed = FALSE /\ alive = {} /\ subs = {} /\ destroyed = <<>>
      /\ depends_on \in [Extensions -> SUBSET Extensions] /\ tier \in [Extensions -> {0, 1}]
  BY DEF HostInit
<1>2. DOMAIN <<>> = {} /\ Len(<<>>) = 0 /\ <<>> \in Seq(Extensions)
  OBVIOUS
<1>3. Installed = {}
  BY <1>1, <1>2 DEF Installed, Elements
<1>4. HostTypeOK
  BY <1>1, <1>2 DEF HostTypeOK
<1>5. NoDuplicates(extensions) /\ GoInTurn(active, {}) /\ GoInTurn(order, Active)
  BY <1>1, <1>2 DEF NoDuplicates, GoInTurn
<1>6. \E k \in 0 .. Len(extensions) : alive = {extensions[i] : i \in 1 .. k}
  <2>1. {extensions[i] : i \in 1 .. 0} = {} /\ 0 \in 0 .. Len(extensions)
    BY <1>1, <1>2
  <2>. QED  BY <1>1, <2>1
<1>7. extensions_activated = FALSE => ~(extensions_activated /\ ~failed)
  OBVIOUS
<1>. QED  BY <1>1, <1>3, <1>4, <1>5, <1>6, <1>7 DEF HostInv

LEMMA InstallStep == ASSUME HostInv, NEW e \in Extensions, Install(e) PROVE HostInv'
<1>1. /\ ~extensions_activated /\ destroyed = <<>> /\ e \notin Installed
      /\ extensions' = Append(extensions, e) /\ alive' = alive \cup {e}
      /\ UNCHANGED <<depends_on, tier, extensions_activated, order, active, failed, subs, destroyed>>
      /\ active = <<>> /\ order = <<>> /\ alive = Installed
  BY DEF Install, manifests, HostInv
<1>2. /\ extensions \in Seq(Extensions) /\ Len(extensions) \in Nat
      /\ DOMAIN extensions = 1 .. Len(extensions)
  BY DEF HostInv, HostTypeOK
<1>3. /\ extensions' \in Seq(Extensions) /\ Installed' = Installed \cup {e}
      /\ NoDuplicates(extensions')
  <2>1. LET a == Append(extensions, e) IN
        /\ a \in Seq(Extensions) /\ Elements(a) = Elements(extensions) \cup {e}
        /\ NoDuplicates(extensions) /\ e \notin Elements(extensions) => NoDuplicates(a)
    BY <1>2, AppendElements
  <2>. QED  BY <1>1, <2>1 DEF Installed, HostInv
<1>4. HostTypeOK'
  BY <1>1, <1>3 DEF HostInv, HostTypeOK
<1>5. GoInTurn(active, {})' /\ GoInTurn(order, Active)'
  <2>1. DOMAIN active' = {} /\ DOMAIN order' = {}
    BY <1>1
  <2>. QED  BY <2>1 DEF GoInTurn
<1>6. \E k \in 0 .. Len(extensions') : alive' = {extensions'[i] : i \in 1 .. k}
  <2>1. Len(extensions') \in Nat /\ DOMAIN extensions' = 1 .. Len(extensions')
    BY <1>3
  <2>2. alive' = {extensions'[i] : i \in 1 .. Len(extensions')}
    BY <1>1, <1>3, <2>1 DEF Installed, Elements
  <2>3. Len(extensions') \in 0 .. Len(extensions')
    BY <2>1
  <2>. QED  BY <2>2, <2>3
<1>7. \A s \in subs' : s[2] \in depends_on'[s[1]] /\ s[2] \in Installed'
  BY <1>1, <1>3 DEF HostInv
<1>. QED  BY <1>1, <1>3, <1>4, <1>5, <1>6, <1>7 DEF HostInv

\* The computed order leaves nobody out, unless there is a circle.
LEMMA NoCycleNobodyLeft ==
  ASSUME HostInv, ~HasCycle
  PROVE  Elements(Topological) = Installed
<1>1. Topological \in Seq(Extensions) /\ GoInTurn(Topological, {}) /\ extensions \in Seq(Extensions)
  BY TopologicalGoes DEF HostInv, HostTypeOK
<1>. DEFINE t == Topological
<1>2. DOMAIN t = 1 .. Len(t) /\ Len(t) \in Nat /\ Len(extensions) \in Nat
  BY <1>1
<1>. HIDE DEF t
<1>3. NoDuplicates(t)
  <2>1. ASSUME NEW i \in DOMAIN t, NEW j \in DOMAIN t, i < j PROVE t[i] # t[j]
    <3>1. t[j] \notin {t[k] : k \in 1 .. j - 1}
      BY <1>1 DEF GoInTurn, MayGo, t
    <3>2. i \in 1 .. j - 1
      BY <1>2, <2>1
    <3>. QED  BY <3>1, <3>2
  <2>. QED  BY <1>2, <2>1 DEF NoDuplicates
<1>4. Elements(t) \subseteq Installed
  BY <1>1 DEF GoInTurn, MayGo, Elements, t
<1>5. /\ IsFiniteSet(Installed) /\ Cardinality(Installed) = Len(extensions)
      /\ Cardinality(Elements(t)) = Len(t)
  BY <1>1, <1>3, ListCount DEF Installed, HostInv, t
<1>6. Len(t) >= Len(extensions)
  BY <1>2 DEF HasCycle, t
<1>7. Elements(t) = Installed
  BY <1>2, <1>4, <1>5, <1>6, FS_Subset
<1>. QED  BY <1>7 DEF t

LEMMA ActivateStep == ASSUME HostInv, Activate PROVE HostInv'
<1>1. /\ ~extensions_activated /\ destroyed = <<>> /\ active = <<>> /\ order = <<>>
      /\ extensions_activated' = TRUE
      /\ IF MissingDependency \/ HasCycle
         THEN failed' = TRUE /\ UNCHANGED order
         ELSE order' = Topological /\ UNCHANGED failed
      /\ UNCHANGED <<manifests, depends_on, tier, extensions, active, alive, subs, destroyed>>
  BY DEF Activate, manifests, HostInv
<1>2. /\ Installed' = Installed /\ Active' = Active /\ Active = {}
      /\ HasCycle' <=> HasCycle
      /\ MissingDependency' <=> MissingDependency
  <2>1. Installed' = Installed /\ Active' = Active /\ Active = {}
    BY <1>1 DEF Installed, Active, Elements
  <2>. QED  BY <1>1, <2>1, SamePlan
<1>3. Topological \in Seq(Extensions) /\ GoInTurn(Topological, {})
  BY TopologicalGoes DEF HostInv
<1>4. \A s, done : GoInTurn(s, done)' <=> GoInTurn(s, done)
  BY <1>1, SameTurns
<1>5. order' \in Seq(Extensions) /\ GoInTurn(order, Active)'
  <2>. DEFINE nil == <<>>
  <2>0. order' = nil \/ order' = Topological
    BY <1>1, Zenon
  <2>4. nil \in Seq(Extensions) /\ GoInTurn(nil, {})
    BY DEF GoInTurn
  <2>. HIDE DEF nil
  <2>1. GoInTurn(order', {})
    BY <1>3, <2>0, <2>4
  <2>2. order' \in Seq(Extensions)
    BY <1>3, <2>0, <2>4
  <2>3. GoInTurn(order, {})'
    BY <1>1, <2>1 DEF GoInTurn, MayGo, Installed
  <2>. QED  BY <1>2, <2>2, <2>3
<1>6. GoInTurn(active, {})'
  BY <1>1 DEF GoInTurn
<1>7. HostTypeOK'
  BY <1>1, <1>5 DEF HostInv, HostTypeOK
<1>8. ~failed' => ~MissingDependency /\ ~HasCycle /\ order' = Topological
  BY <1>1, Zenon
<1>9. extensions_activated' /\ ~failed' => Active' \cup Elements(order') = Installed'
  <2>. HIDE DEF HostInv
  <2>. QED  BY <1>2, <1>8, NoCycleNobodyLeft
<1>10. active' # <<>> \/ order' # <<>> => ~MissingDependency' /\ ~HasCycle'
  BY <1>1, <1>2
<1>. QED  BY <1>1, <1>2, <1>5, <1>6, <1>7, <1>9, <1>10 DEF HostInv

\* activate() of the next one, whether it returns or throws.
LEMMA TurnStep ==
  ASSUME HostInv, NEW owners \in SUBSET Extensions, ActivateNext(owners) \/ ActivateThrows(owners)
  PROVE  HostInv'
<1>. DEFINE e == Head(order)
<1>1. /\ order # <<>> /\ ~failed /\ owners \subseteq depends_on[e]
      /\ subs' = subs \cup ({e} \X owners)
      /\ destroyed = <<>> /\ alive = Installed /\ extensions_activated
      /\ UNCHANGED <<manifests, depends_on, tier, extensions, extensions_activated, alive, destroyed>>
      /\ \/ active' = Append(active, e) /\ order' = Tail(order) /\ failed' = failed
         \/ active' = active /\ order' = <<>> /\ failed' = TRUE
  BY DEF ActivateNext, ActivateThrows, manifests, HostInv
<1>2. /\ Installed' = Installed
      /\ HasCycle' <=> HasCycle
      /\ MissingDependency' <=> MissingDependency
  BY <1>1, SamePlan DEF Installed
<1>3. order \in Seq(Extensions) /\ active \in Seq(Extensions)
  BY DEF HostInv, HostTypeOK
<1>4. /\ MayGo(e, Active) /\ GoInTurn(Tail(order), Active \cup {e})
      /\ Tail(order) \in Seq(Extensions) /\ e \in Extensions
  BY <1>1, <1>3, GoesFirst DEF HostInv
<1>5. Elements(order) = {e} \cup Elements(Tail(order))
  <2>. DEFINE r == Tail(order)
  <2>1. /\ DOMAIN order = 1 .. Len(order) /\ Len(order) \in Nat \ {0}
        /\ DOMAIN r = 1 .. Len(order) - 1 /\ e = order[1]
        /\ \A i \in 1 .. Len(order) - 1 : r[i] = order[i + 1]
    BY <1>1, <1>3
  <2>. HIDE DEF e, r
  <2>2. ASSUME NEW i \in DOMAIN order PROVE order[i] \in {e} \cup Elements(r)
    <3>1. CASE i = 1
      BY <2>1, <3>1
    <3>2. CASE i # 1
      <4>1. i - 1 \in DOMAIN r /\ r[i - 1] = order[i]
        BY <2>1, <3>2
      <4>. QED  BY <4>1 DEF Elements
    <3>. QED  BY <3>1, <3>2
  <2>3. ASSUME NEW i \in DOMAIN r PROVE r[i] \in Elements(order)
    <3>1. i + 1 \in DOMAIN order /\ r[i] = order[i + 1]
      BY <2>1
    <3>. QED  BY <3>1 DEF Elements
  <2>4. e \in Elements(order)
    <3>1. 1 \in DOMAIN order
      BY <2>1
    <3>. QED  BY <2>1, <3>1 DEF Elements
  <2>5. Elements(r) \subseteq Elements(order)
    BY <2>3 DEF Elements
  <2>6. Elements(order) \subseteq {e} \cup Elements(r)
    BY <2>2 DEF Elements
  <2>. QED  BY <2>4, <2>5, <2>6 DEF r
<1>. HIDE DEF e
<1>6. owners \subseteq Active /\ Active \subseteq Installed /\ e \in Installed
  <2>1. Active \subseteq Installed
    BY DEF HostInv, GoInTurn, MayGo, Active, Elements
  <2>. QED  BY <1>1, <1>4, <2>1 DEF MayGo
<1>7. /\ active' \in Seq(Extensions) /\ order' \in Seq(Extensions)
      /\ GoInTurn(active', {}) /\ GoInTurn(order', Active')
      /\ ~failed' => Active' \cup Elements(order') = Active \cup Elements(order)
  <2>1. CASE active' = Append(active, e) /\ order' = Tail(order)
    <3>1. active' \in Seq(Extensions) /\ Active' = Active \cup {e}
      <4>1. LET a == Append(active, e) IN
            a \in Seq(Extensions) /\ Elements(a) = Elements(active) \cup {e}
        BY <1>3, <1>4, AppendElements
      <4>. QED  BY <2>1, <4>1 DEF Active
    <3>2. GoInTurn(active', {})
      <4>1. {} \cup Elements(active) = Active
        BY DEF Active
      <4>2. GoInTurn(Append(active, e), {})
        BY <1>3, <1>4, <4>1, GoesNext DEF HostInv
      <4>. QED  BY <2>1, <4>2
    <3>. QED  BY <1>4, <1>5, <2>1, <3>1, <3>2
  <2>2. CASE active' = active /\ order' = <<>> /\ failed' = TRUE
    <3>1. GoInTurn(<<>>, Active') /\ <<>> \in Seq(Extensions)
      BY DEF GoInTurn
    <3>2. ~(~failed')
      BY <2>2
    <3>. QED  BY <1>3, <2>2, <3>1, <3>2 DEF HostInv
  <2>. QED  BY <1>1, <2>1, <2>2
<1>8. GoInTurn(active, {})' /\ GoInTurn(order, Active)'
  BY <1>1, <1>7 DEF GoInTurn, MayGo, Installed
<1>9. subs' \subseteq alive' \X Extensions
  BY <1>1, <1>6 DEF HostInv, HostTypeOK
<1>10. \A s \in subs' : s[2] \in depends_on'[s[1]] /\ s[2] \in Installed'
  BY <1>1, <1>2, <1>6 DEF HostInv
<1>11. failed' \in BOOLEAN
  BY <1>1, Zenon DEF HostInv, HostTypeOK
<1>12. HostTypeOK'
  BY <1>1, <1>7, <1>9, <1>11 DEF HostInv, HostTypeOK
<1>13. \E k \in 0 .. Len(extensions') : alive' = {extensions'[i] : i \in 1 .. k}
  BY <1>1 DEF HostInv
<1>. QED  BY <1>1, <1>2, <1>7, <1>8, <1>10, <1>12, <1>13 DEF HostInv

\* The last extension of the list that is left goes, with what it subscribed to.
LEMMA DestroyStep == ASSUME HostInv, DestroyNext PROVE HostInv'
<1>. DEFINE i == CHOOSE i \in DOMAIN extensions :
                   /\ extensions[i] \in alive
                   /\ \A j \in DOMAIN extensions : extensions[j] \in alive => j <= i
<1>1. /\ alive # {} /\ order = <<>>
      /\ alive' = alive \ {extensions[i]}
      /\ subs' = {s \in subs : s[1] # extensions[i]}
      /\ destroyed' = Append(destroyed, extensions[i])
      /\ UNCHANGED <<manifests, depends_on, tier, extensions, extensions_activated, order, active, failed>>
  BY DEF DestroyNext, manifests
<1>2. /\ extensions \in Seq(Extensions) /\ Len(extensions) \in Nat /\ destroyed \in Seq(Extensions)
      /\ DOMAIN extensions = 1 .. Len(extensions)
      /\ \A j, k \in 1 .. Len(extensions) : extensions[j] = extensions[k] => j = k
  BY DEF HostInv, HostTypeOK, NoDuplicates
<1>3. PICK k \in 0 .. Len(extensions) : alive = {extensions[j] : j \in 1 .. k}
  BY DEF HostInv
<1>4. \A j \in 1 .. Len(extensions) : extensions[j] \in alive <=> j <= k
  <2>1. \A j \in 1 .. k : j \in 1 .. Len(extensions)
    BY <1>2, <1>3
  <2>. QED  BY <1>2, <1>3, <2>1
<1>5. k # 0
  <2>1. k = 0 => 1 .. k = {}
    BY <1>3
  <2>. QED  BY <1>1, <1>3, <2>1
<1>6. k \in DOMAIN extensions /\ extensions[k] \in alive
      /\ \A j \in DOMAIN extensions : extensions[j] \in alive => j <= k
  BY <1>2, <1>3, <1>4, <1>5
<1>7. /\ i \in DOMAIN extensions /\ extensions[i] \in alive
      /\ \A j \in DOMAIN extensions : extensions[j] \in alive => j <= i
  BY <1>6
<1>. HIDE DEF i
<1>8. i = k
  BY <1>2, <1>3, <1>6, <1>7
<1>9. alive' = {extensions[j] : j \in 1 .. k - 1} /\ k - 1 \in 0 .. Len(extensions')
  <2>1. ASSUME NEW j \in 1 .. k, j # k PROVE j \in 1 .. k - 1
    BY <1>3, <2>1
  <2>2. ASSUME NEW j \in 1 .. k - 1
        PROVE j \in 1 .. k /\ extensions[j] # extensions[k]
    <3>1. j \in 1 .. Len(extensions) /\ k \in 1 .. Len(extensions) /\ j # k /\ j \in 1 .. k
      BY <1>2, <1>3, <1>5
    <3>. QED  BY <1>2, <3>1
  <2>3. k - 1 \in 0 .. Len(extensions')
    BY <1>1, <1>2, <1>3, <1>5
  <2>. QED  BY <1>1, <1>3, <1>8, <2>1, <2>2, <2>3
<1>10. extensions[i] \in Extensions /\ destroyed' \in Seq(Extensions) /\ destroyed' # <<>>
  <2>1. extensions[i] \in Extensions
    BY <1>2, <1>7
  <2>2. Len(Append(destroyed, extensions[i])) = Len(destroyed) + 1 /\ Len(destroyed) \in Nat
        /\ Append(destroyed, extensions[i]) \in Seq(Extensions)
    BY <1>2, <2>1
  <2>3. Len(<<>>) = 0
    OBVIOUS
  <2>. QED  BY <1>1, <2>1, <2>2, <2>3
<1>11. HostTypeOK'
  <2>1. subs' \subseteq alive' \X Extensions
    <3>1. ASSUME NEW s \in subs' PROVE s \in alive' \X Extensions
      <4>1. s \in alive \X Extensions /\ s[1] # extensions[i]
        BY <1>1 DEF HostInv, HostTypeOK
      <4>. QED  BY <1>1, <4>1
    <3>. QED  BY <3>1
  <2>. QED  BY <1>1, <1>10, <2>1 DEF HostInv, HostTypeOK
<1>12. /\ Installed' = Installed /\ Active' = Active
       /\ HasCycle' <=> HasCycle
       /\ MissingDependency' <=> MissingDependency
  BY <1>1, SamePlan DEF Installed, Active
<1>13. GoInTurn(active, {})' /\ GoInTurn(order, Active)'
  <2>1. GoInTurn(active, {}) /\ GoInTurn(order, Active)
    BY DEF HostInv
  <2>. QED  BY <1>1, <1>12, <2>1 DEF GoInTurn, MayGo
<1>14. \E m \in 0 .. Len(extensions') : alive' = {extensions'[j] : j \in 1 .. m}
  BY <1>1, <1>9
<1>. QED  BY <1>1, <1>10, <1>11, <1>12, <1>13, <1>14 DEF HostInv

LEMMA IdleHostStep == ASSUME HostInv, UNCHANGED hostVars PROVE HostInv'
<1>1. /\ UNCHANGED <<manifests, depends_on, tier, extensions, extensions_activated, order, active,
                     failed, alive, subs, destroyed>>
  BY DEF hostVars, manifests
<1>2. /\ Installed' = Installed /\ Active' = Active
      /\ HasCycle' <=> HasCycle
      /\ MissingDependency' <=> MissingDependency
  BY <1>1, SamePlan DEF Installed, Active
<1>3. GoInTurn(active, {})' /\ GoInTurn(order, Active)'
  <2>1. GoInTurn(active, {}) /\ GoInTurn(order, Active)
    BY DEF HostInv
  <2>. QED  BY <1>1, <1>2, <2>1 DEF GoInTurn, MayGo
<1>4. HostTypeOK'
  BY <1>1 DEF HostInv, HostTypeOK
<1>5. extensions_activated' /\ ~failed' => Active' \cup Elements(order') = Installed'
  BY <1>1, <1>2 DEF HostInv
<1>6. active' # <<>> \/ order' # <<>> => ~MissingDependency' /\ ~HasCycle'
  BY <1>1, <1>2 DEF HostInv
<1>. QED  BY <1>1, <1>2, <1>3, <1>4, <1>5, <1>6 DEF HostInv

LEMMA StepHost == HostInv /\ [HostNext]_hostVars => HostInv'
BY InstallStep, ActivateStep, TurnStep, DestroyStep, IdleHostStep DEF HostNext

-----------------------------------------------------------------------------
\* HostInv holds in every state of the extension host.
THEOREM HostInvariant == HostSpec => []HostInv
BY InitHost, StepHost, PTL DEF HostSpec

\* A session of the server, from the start that may fail to the end of shutdown(), does to
\* its extensions what the host does: it installs, activates and destroys them.
THEOREM LifeIsHost == LifeSpec => HostSpec
<1>1. LifeInit => HostInit
  BY DEF LifeInit
<1>2. [LifeNext]_<<hostVars, life>> => [HostNext]_hostVars
  BY DEF LifeNext, StartNext, StartFails, GlFails, Serve, ClientConnects, Stop, DestroyExtension,
         TearDown, HostNext
<1>. QED  BY <1>1, <1>2, PTL DEF LifeSpec, HostSpec

\* Whatever the manifests say and whoever is installed when, an extension activates after
\* everything it depends on.
THEOREM DependenciesFirst == LifeSpec => []DependenciesActiveFirst
<1>1. HostInv => DependenciesActiveFirst
  BY DEF HostInv, GoInTurn, MayGo, DependenciesActiveFirst
<1>. QED  BY <1>1, HostInvariant, LifeIsHost, PTL

\* Tiers order what dependencies leave open.
THEOREM TiersOrder == LifeSpec => []TiersOrderTheRest
<1>1. HostInv => TiersOrderTheRest
  <2>. SUFFICES ASSUME HostInv, NEW i \in DOMAIN active, NEW j \in DOMAIN active, i < j,
                       tier[active[i]] = 1, tier[active[j]] = 0
                PROVE  \E k \in i .. j - 1 : active[k] \in depends_on[active[j]]
    BY DEF TiersOrderTheRest
  <2>1. DOMAIN active = 1 .. Len(active) /\ Len(active) \in Nat
    BY DEF HostInv, HostTypeOK
  <2>2. /\ MayGo(active[i], {} \cup {active[k] : k \in 1 .. i - 1})
        /\ MayGo(active[j], {} \cup {active[k] : k \in 1 .. j - 1})
    BY DEF HostInv, GoInTurn
  <2>3. active[j] \notin {active[k] : k \in 1 .. i - 1}
    <3>1. \A k \in 1 .. i - 1 : k \in 1 .. j - 1
      BY <2>1
    <3>. QED  BY <2>2, <3>1 DEF MayGo
  <2>4. PICK d \in depends_on[active[j]] : d \notin {active[k] : k \in 1 .. i - 1}
    BY <2>2, <2>3 DEF MayGo
  <2>5. PICK k \in 1 .. j - 1 : d = active[k]
    BY <2>2, <2>4 DEF MayGo
  <2>6. k \in i .. j - 1
    <3>1. k \notin 1 .. i - 1
      BY <2>4, <2>5
    <3>. QED  BY <2>1, <2>5, <3>1
  <2>. QED  BY <2>4, <2>5, <2>6
<1>. QED  BY <1>1, HostInvariant, LifeIsHost, PTL

\* If dependencies were installed before their dependents, the reverse install order of
\* shutdown() destroys every subscription before the hook it is on.
THEOREM HooksOutlive == LifeSpec => []HooksOutliveSubscriptions
<1>1. HostInv => HooksOutliveSubscriptions
  <2>. SUFFICES ASSUME HostInv, NEW s \in subs,
                       \A e \in Installed, d \in Installed :
                         d \in depends_on[e] => Before(extensions, d, e)
                PROVE  s[2] \in alive
    BY DEF HooksOutliveSubscriptions
  <2>1. PICK k \in 0 .. Len(extensions) : alive = {extensions[i] : i \in 1 .. k}
    BY DEF HostInv
  <2>2. /\ DOMAIN extensions = 1 .. Len(extensions) /\ Len(extensions) \in Nat
        /\ \A i, j \in DOMAIN extensions : extensions[i] = extensions[j] => i = j
    BY DEF HostInv, HostTypeOK, NoDuplicates
  <2>3. s[1] \in alive /\ s[2] \in depends_on[s[1]] /\ s[2] \in Installed
    BY DEF HostInv, HostTypeOK
  <2>4. PICK m \in 1 .. k : s[1] = extensions[m]
    BY <2>1, <2>3
  <2>5. m \in DOMAIN extensions
    BY <2>1, <2>2
  <2>6. s[1] \in Installed
    BY <2>4, <2>5 DEF Installed, Elements
  <2>7. PICK i, j \in DOMAIN extensions : i < j /\ extensions[i] = s[2] /\ extensions[j] = s[1]
    BY <2>3, <2>6 DEF Before
  <2>8. j = m
    BY <2>2, <2>4, <2>5, <2>7
  <2>9. i \in 1 .. k
    BY <2>1, <2>2, <2>4, <2>7, <2>8
  <2>. QED  BY <2>1, <2>7, <2>9
<1>. QED  BY <1>1, HostInvariant, LifeIsHost, PTL

\* A hole or a circle in the manifests activates nobody, and otherwise everybody's turn
\* comes exactly once.
THEOREM AllGoOrNone == LifeSpec => []AllOrNothing
<1>1. HostInv => AllOrNothing
  <2>. SUFFICES ASSUME HostInv PROVE AllOrNothing
    OBVIOUS
  <2>. DEFINE plan == active \o order
              n == Len(active)
  <2>1. /\ active \in Seq(Extensions) /\ order \in Seq(Extensions)
        /\ DOMAIN active = 1 .. n /\ DOMAIN order = 1 .. Len(order) /\ n \in Nat /\ Len(order) \in Nat
    BY DEF HostInv, HostTypeOK
  <2>2. /\ DOMAIN plan = 1 .. n + Len(order)
        /\ \A i \in 1 .. n : plan[i] = active[i]
        /\ \A i \in 1 .. Len(order) : plan[n + i] = order[i]
    BY <2>1
  <2>. HIDE DEF plan, n
  <2>3. Elements(plan) = Active \cup Elements(order)
    <3>1. \A i \in 1 .. n + Len(order) : i \in 1 .. n \/ i - n \in 1 .. Len(order)
      BY <2>1
    <3>2. \A i \in DOMAIN plan : i \in 1 .. n \/ (i - n \in 1 .. Len(order) /\ plan[i] = order[i - n])
      BY <2>1, <2>2, <3>1
    <3>3. \A i \in 1 .. Len(order) : n + i \in DOMAIN plan
      BY <2>1, <2>2
    <3>4. \A i \in 1 .. n : i \in DOMAIN plan
      BY <2>1, <2>2
    <3>. QED  BY <2>1, <2>2, <3>2, <3>3, <3>4 DEF Elements, Active
  <2>4. ASSUME NEW i \in DOMAIN plan, NEW j \in DOMAIN plan, i < j PROVE plan[i] # plan[j]
    <3>1. CASE j \in 1 .. n
      <4>1. i \in 1 .. j - 1 /\ plan[i] = active[i] /\ plan[j] = active[j] /\ j \in DOMAIN active
        BY <2>1, <2>2, <2>4, <3>1
      <4>2. active[j] \notin {active[k] : k \in 1 .. j - 1}
        BY <4>1 DEF HostInv, GoInTurn, MayGo
      <4>. QED  BY <4>1, <4>2
    <3>2. CASE j > n
      <4>. DEFINE m == j - n
      <4>1. m \in 1 .. Len(order) /\ plan[j] = order[m]
        BY <2>1, <2>2, <3>2
      <4>2. order[m] \notin Active \cup {order[k] : k \in 1 .. m - 1}
        BY <2>1, <4>1 DEF HostInv, GoInTurn, MayGo
      <4>3. CASE i \in 1 .. n
        BY <2>1, <2>2, <4>1, <4>2, <4>3 DEF Active, Elements
      <4>4. CASE i > n
        <5>1. i - n \in 1 .. m - 1 /\ i - n \in 1 .. Len(order) /\ plan[i] = order[i - n]
          BY <2>1, <2>2, <2>4, <4>4
        <5>. QED  BY <4>1, <4>2, <5>1
      <4>. QED  BY <2>1, <2>2, <4>3, <4>4
    <3>. QED  BY <2>1, <2>2, <3>1, <3>2
  <2>5. \A i, j \in DOMAIN plan : plan[i] = plan[j] => i = j
    BY <2>1, <2>2, <2>4
  <2>. QED  BY <2>3, <2>5 DEF HostInv, AllOrNothing, plan
<1>. QED  BY <1>1, HostInvariant, LifeIsHost, PTL
=============================================================================
