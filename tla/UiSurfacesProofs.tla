--------------------------- MODULE UiSurfacesProofs ---------------------------
(***************************************************************************)
(* UiSurfaces for every set of surfaces, previews and sizes: targets fit,  *)
(* the EGL context is the right one, previews can be shown, and a tick     *)
(* brings every surface up to date.  The first three do not depend on each *)
(* other; each is proved from the shape of the variables it speaks of, and *)
(* PreviewsCanBeShown needs more: a buffer that survives a failed refresh  *)
(* is still as large as the preview says.  The last rests on the first and *)
(* on the order of the list the loop walks.                                *)
(***************************************************************************)
EXTENDS UiSurfaces, ListsProofs

TargetInv ==
  /\ target \in [Surfaces -> [plan : {"none", "dmabuf", "shm", "broken"}, size : OrNone]]
  /\ size \in [Surfaces -> OrNone]
  /\ TargetFits

ContextInv ==
  /\ ContextIsRight
  /\ "at" \in DOMAIN tick /\ tick.at \in {"idle", "loop", "update"}
  /\ tick.at # "idle" /\ ~nested => saved = "wlr"

Images == [size : OrNone, buffer : OrNone, tex : OrNone, uri : OrNone]

\* The strengthening of PreviewsCanBeShown.
BufferIsSized == \A p \in Previews : preview[p].buffer \in {None, preview[p].size}

PreviewInv ==
  /\ previews \subseteq Previews
  /\ preview \in [Previews -> Images]
  /\ PreviewsCanBeShown
  /\ BufferIsSized

-----------------------------------------------------------------------------
\* What the driver gives has the size it was asked for.
LEMMA TargetsGiven ==
  ASSUME NEW w \in Sizes, NEW t \in InitSurfaceGl(w)
  PROVE  /\ t \in [plan : {"none", "dmabuf", "shm", "broken"}, size : OrNone]
         /\ t.plan \in {"dmabuf", "shm"} => t.size = w
BY DEF InitSurfaceGl, OrNone

\* Targets change with the size, or with the surface.
LEMMA TargetStep == TargetInv /\ [Next]_vars => TargetInv'
<1>. SUFFICES ASSUME TargetInv, [Next]_vars PROVE TargetInv'
  OBVIOUS
<1>. USE DEF TargetInv, TargetFits
<1>1. ASSUME NEW s \in Surfaces, NEW w \in Sizes, NEW visible \in BOOLEAN,
             CreateSurface(s, w, visible)
      PROVE  TargetInv'
  <2>1. PICK t \in InitSurfaceGl(w) : target' = [target EXCEPT ![s] = t]
    BY <1>1 DEF CreateSurface
  <2>2. size' = [size EXCEPT ![s] = w]
    BY <1>1 DEF CreateSurface
  <2>. QED  BY <2>1, <2>2, TargetsGiven DEF OrNone
<1>2. ASSUME NEW s \in Surfaces, NEW w \in Sizes, SetSize(s, w) PROVE TargetInv'
  <2>1. PICK t \in InitSurfaceGl(w) : target' = [target EXCEPT ![s] = t]
    BY <1>2 DEF SetSize
  <2>2. size' = [size EXCEPT ![s] = w]
    BY <1>2 DEF SetSize
  <2>. QED  BY <2>1, <2>2, TargetsGiven DEF OrNone
<1>3. ASSUME NEW s \in Surfaces, DestroySurface(s) PROVE TargetInv'
  <2>1. target' = [target EXCEPT ![s] = NoTarget] /\ size' = [size EXCEPT ![s] = None]
    BY <1>3 DEF DestroySurface
  <2>. QED  BY <2>1 DEF NoTarget, OrNone
<1>4. CASE UNCHANGED <<target, size>>
  BY <1>4
<1>5. ASSUME NEW s \in Surfaces, Bind(s) \/ BindList(s) \/ BindListField(s)
      PROVE  UNCHANGED <<target, size>>
  BY <1>5 DEF Bind, BindList, BindListField, Binding
<1>6. ASSUME NEW s \in Surfaces, NEW visible \in BOOLEAN, SetVisible(s, visible)
      PROVE  UNCHANGED <<target, size>>
  BY <1>6 DEF SetVisible
<1>7. ASSUME NEW p \in Previews, NEW w \in OrNone, CreatePreview(p, w) \/ RefreshPreview(p, w)
      PROVE  UNCHANGED <<target, size>>
  BY <1>7 DEF CreatePreview, RefreshPreview, surface
<1>8. ASSUME NEW p \in Previews, DropPreview(p) PROVE UNCHANGED <<target, size>>
  BY <1>8 DEF DropPreview, surface
<1>9. CASE CreateFails \/ TickBegin \/ SkipHidden \/ RenderSurface \/ SubmitSurface \/ TickEnd
  BY <1>4, <1>9 DEF CreateFails, TickBegin, SkipHidden, RenderSurface, SubmitSurface, TickEnd,
                    surface
<1>10. CASE UNCHANGED vars
  BY <1>4, <1>10 DEF vars, surface
<1>. QED  BY <1>1, <1>2, <1>3, <1>4, <1>5, <1>6, <1>7, <1>8, <1>9, <1>10 DEF Next

\* A bracket that is not inside another leaves the context, and what it saved, as it
\* found it.
LEMMA BracketStep ==
  ASSUME ContextInv, Bracket \/ UNCHANGED gl, UNCHANGED tick, Calls
  PROVE  ContextInv'
BY DEF ContextInv, ContextIsRight, Bracket, gl, InTick, Calls

LEMMA ContextStep == ContextInv /\ [Next]_vars => ContextInv'
<1>. SUFFICES ASSUME ContextInv, [Next]_vars PROVE ContextInv'
  OBVIOUS
<1>1. ASSUME NEW s \in Surfaces, NEW w \in Sizes, NEW visible \in BOOLEAN,
             CreateSurface(s, w, visible)
      PROVE  ContextInv'
  BY <1>1, BracketStep DEF CreateSurface
<1>2. ASSUME NEW s \in Surfaces, NEW w \in Sizes, SetSize(s, w) PROVE ContextInv'
  BY <1>2, BracketStep DEF SetSize
<1>3. ASSUME NEW s \in Surfaces, DestroySurface(s) PROVE ContextInv'
  BY <1>3, BracketStep DEF DestroySurface
<1>4. ASSUME NEW s \in Surfaces, Bind(s) \/ BindList(s) \/ BindListField(s) PROVE ContextInv'
  BY <1>4, BracketStep DEF Bind, BindList, BindListField, Binding
<1>5. ASSUME NEW s \in Surfaces, NEW visible \in BOOLEAN, SetVisible(s, visible)
      PROVE  ContextInv'
  BY <1>5, BracketStep DEF SetVisible
<1>6. ASSUME NEW p \in Previews, NEW w \in OrNone, CreatePreview(p, w) \/ RefreshPreview(p, w)
      PROVE  ContextInv'
  BY <1>6, BracketStep DEF CreatePreview, RefreshPreview
<1>7. ASSUME NEW p \in Previews, DropPreview(p) PROVE ContextInv'
  BY <1>7, BracketStep DEF DropPreview
<1>8. CASE CreateFails
  BY <1>8 DEF CreateFails, ContextInv, ContextIsRight
<1>9. CASE TickBegin
  <2>1. tick'.at = "loop"
    BY <1>9 DEF TickBegin, Idle
  <2>. QED  BY <1>9, <2>1 DEF TickBegin, ContextInv, ContextIsRight
<1>10. CASE SkipHidden \/ RenderSurface \/ SubmitSurface
  <2>1. UNCHANGED gl /\ tick.at \in {"loop", "update"}
    BY <1>10 DEF SkipHidden, RenderSurface, SubmitSurface
  <2>2. CASE SkipHidden
    <3>1. tick' = [tick EXCEPT !.on = Following]
      BY <2>2 DEF SkipHidden
    <3>2. "at" \in DOMAIN tick' /\ tick'.at = tick.at
      BY <3>1 DEF ContextInv
    <3>. QED  BY <2>1, <3>2 DEF ContextInv, ContextIsRight, gl
  <2>3. CASE RenderSurface
    <3>1. \/ tick' = [tick EXCEPT !.on = Following]
          \/ "at" \in DOMAIN tick' /\ tick'.at = "update"
      BY <2>3 DEF RenderSurface
    <3>2. "at" \in DOMAIN tick' /\ tick'.at \in {tick.at, "update"}
      BY <2>3, <3>1 DEF RenderSurface, ContextInv
    <3>. QED  BY <2>1, <3>2 DEF ContextInv, ContextIsRight, gl
  <2>4. CASE SubmitSurface
    <3>1. \/ tick' = [tick EXCEPT !.at = "loop", !.buffer = None]
          \/ tick' = tick
      BY <2>4 DEF SubmitSurface
    <3>2. "at" \in DOMAIN tick' /\ tick'.at \in {tick.at, "loop"}
      BY <3>1 DEF ContextInv
    <3>. QED  BY <2>1, <3>2 DEF ContextInv, ContextIsRight, gl
  <2>. QED  BY <1>10, <2>2, <2>3, <2>4
<1>11. CASE TickEnd
  BY <1>11 DEF TickEnd, ContextInv, ContextIsRight, Idle
<1>12. CASE UNCHANGED vars
  BY <1>12 DEF vars, gl, ContextInv, ContextIsRight
<1>. QED  BY <1>1, <1>2, <1>3, <1>4, <1>5, <1>6, <1>7, <1>8, <1>9, <1>10, <1>11, <1>12 DEF Next

-----------------------------------------------------------------------------
\* A snapshot that got to the end has a buffer of the size it gives, and one that did not
\* has touched neither the texture nor the registration.
LEMMA SnapshotShape ==
  ASSUME NEW i \in Images, i.buffer \in {None, i.size}, NEW w \in OrNone,
         NEW t \in Snapshots(i, w)
  PROVE  /\ t.image \in Images /\ t.whole \in BOOLEAN
         /\ t.image.buffer \in {None, t.image.size}
         /\ t.image.tex = i.tex /\ t.image.uri = i.uri
         /\ t.whole => t.image.buffer = w /\ t.image.size = w /\ w # None
<1>. DEFINE replaced == i.buffer = None \/ i.size # w
            drawn == IF replaced THEN [i EXCEPT !.buffer = w, !.size = w] ELSE i
<1>1. drawn \in Images /\ drawn.buffer = w /\ drawn.size = w
      /\ drawn.tex = i.tex /\ drawn.uri = i.uri
  BY DEF Images
<1>2. CASE w = None
  <2>1. t = [image |-> i, whole |-> FALSE]
    BY <1>2 DEF Snapshots
  <2>. QED  BY <2>1
<1>3. CASE w # None
  <2>1. \/ \E b \in BOOLEAN : t = [image |-> drawn, whole |-> b]
        \/ t = [image |-> [i EXCEPT !.buffer = None], whole |-> FALSE]
    BY <1>3 DEF Snapshots
  <2>. HIDE DEF drawn
  <2>2. CASE \E b \in BOOLEAN : t = [image |-> drawn, whole |-> b]
    BY <1>1, <1>3, <2>2
  <2>3. CASE t = [image |-> [i EXCEPT !.buffer = None], whole |-> FALSE]
    BY <2>3 DEF Images, OrNone
  <2>. QED  BY <2>1, <2>2, <2>3
<1>. QED  BY <1>2, <1>3

\* An import takes texture and registration from a buffer that fits, or leaves them alone.
LEMMA ImportShape ==
  ASSUME NEW i \in Images, i.buffer = i.size, NEW j \in Imports(i)
  PROVE  /\ j \in Images /\ j.buffer = j.size /\ j.size = i.size
         /\ \/ j = i
            \/ j.tex = i.size /\ j.uri = i.size
<1>1. j = i \/ j = [i EXCEPT !.tex = i.buffer, !.uri = i.size]
  BY DEF Imports
<1>2. CASE j = [i EXCEPT !.tex = i.buffer, !.uri = i.size]
  BY <1>2 DEF Images
<1>. QED  BY <1>1, <1>2

LEMMA PreviewStep == PreviewInv /\ [Next]_vars => PreviewInv'
<1>. SUFFICES ASSUME PreviewInv, [Next]_vars PROVE PreviewInv'
  OBVIOUS
<1>. USE DEF PreviewInv, PreviewsCanBeShown, BufferIsSized
<1>1. NoImage \in Images
  BY DEF NoImage, Images, OrNone
<1>2. CASE UNCHANGED pictures
  BY <1>2 DEF pictures
<1>3. ASSUME NEW p \in Previews, NEW w \in OrNone, CreatePreview(p, w) PROVE PreviewInv'
  <2>1. PICK t \in Snapshots(NoImage, w) : \E i \in Imports(t.image) :
          IF t.whole /\ i.uri # None
          THEN preview' = [preview EXCEPT ![p] = i] /\ previews' = previews \cup {p}
          ELSE UNCHANGED pictures
    BY <1>3 DEF CreatePreview
  <2>2. PICK i \in Imports(t.image) :
          IF t.whole /\ i.uri # None
          THEN preview' = [preview EXCEPT ![p] = i] /\ previews' = previews \cup {p}
          ELSE UNCHANGED pictures
    BY <2>1
  <2>3. CASE t.whole /\ i.uri # None
    <3>1. /\ t.image \in Images /\ t.image.buffer = t.image.size /\ t.image.uri = None
          /\ t.image.size # None
      BY <1>1, <2>3, SnapshotShape DEF NoImage
    <3>2. i \in Images /\ i.buffer = i.size /\ i.uri = i.tex
      BY <2>3, <3>1, ImportShape
    <3>. QED  BY <2>2, <2>3, <3>2
  <2>. QED  BY <1>2, <2>2, <2>3
<1>4. ASSUME NEW p \in Previews, NEW w \in OrNone, RefreshPreview(p, w) PROVE PreviewInv'
  <2>1. p \in previews /\ previews' = previews /\ preview[p] \in Images
        /\ preview[p].buffer \in {None, preview[p].size}
        /\ preview[p].uri # None /\ preview[p].uri = preview[p].tex
    BY <1>4 DEF RefreshPreview
  <2>2. PICK t \in Snapshots(preview[p], w) :
          IF t.whole
          THEN \E i \in Imports(t.image) : preview' = [preview EXCEPT ![p] = i]
          ELSE preview' = [preview EXCEPT ![p] = t.image]
    BY <1>4 DEF RefreshPreview
  <2>3. /\ t.image \in Images /\ t.image.buffer \in {None, t.image.size}
        /\ t.image.tex = preview[p].tex /\ t.image.uri = preview[p].uri
        /\ t.whole => t.image.buffer = t.image.size /\ t.image.size # None
    BY <2>1, SnapshotShape
  <2>4. CASE t.whole
    <3>1. PICK i \in Imports(t.image) : preview' = [preview EXCEPT ![p] = i]
      BY <2>2, <2>4
    <3>2. i \in Images /\ i.buffer = i.size /\ i.uri = i.tex /\ i.uri # None
      BY <2>1, <2>3, <2>4, ImportShape
    <3>. QED  BY <2>1, <3>1, <3>2
  <2>5. CASE ~t.whole
    BY <2>1, <2>2, <2>3, <2>5
  <2>. QED  BY <2>4, <2>5
<1>5. ASSUME NEW p \in Previews, DropPreview(p) PROVE PreviewInv'
  <2>1. previews' = previews \ {p} /\ preview' = [preview EXCEPT ![p] = NoImage]
    BY <1>5 DEF DropPreview
  <2>. QED  BY <1>1, <2>1 DEF NoImage
<1>6. ASSUME NEW s \in Surfaces, NEW w \in Sizes, NEW visible \in BOOLEAN,
             CreateSurface(s, w, visible)
      PROVE  UNCHANGED pictures
  BY <1>6 DEF CreateSurface, pictures
<1>7. ASSUME NEW s \in Surfaces, Bind(s) \/ BindList(s) \/ BindListField(s) \/ DestroySurface(s)
      PROVE  UNCHANGED pictures
  BY <1>7 DEF Bind, BindList, BindListField, Binding, DestroySurface, pictures
<1>8. ASSUME NEW s \in Surfaces, NEW visible \in BOOLEAN, SetVisible(s, visible)
      PROVE  UNCHANGED pictures
  BY <1>8 DEF SetVisible, pictures
<1>9. ASSUME NEW s \in Surfaces, NEW w \in Sizes, SetSize(s, w) PROVE UNCHANGED pictures
  BY <1>9 DEF SetSize, pictures
<1>10. CASE CreateFails \/ TickBegin \/ SkipHidden \/ RenderSurface \/ SubmitSurface \/ TickEnd
  BY <1>2, <1>10 DEF CreateFails, TickBegin, SkipHidden, RenderSurface, SubmitSurface, TickEnd,
                     pictures
<1>11. CASE UNCHANGED vars
  BY <1>2, <1>11 DEF vars
<1>. QED  BY <1>2, <1>3, <1>4, <1>5, <1>6, <1>7, <1>8, <1>9, <1>10, <1>11 DEF Next

-----------------------------------------------------------------------------
\* Whoever resizes a surface and when, it draws into a target of its size, or could get
\* none.
THEOREM SurfacesFit == Spec => []TargetFits
<1>1. Init => TargetInv
  BY DEF Init, TargetInv, TargetFits, NoTarget, OrNone
<1>2. TargetInv => TargetFits
  BY DEF TargetInv
<1>. QED  BY <1>1, <1>2, TargetStep, PTL DEF Spec

\* The substrate renders in its own context, and gives it back unless brackets were nested.
THEOREM ContextKept == Spec => []ContextIsRight
<1>1. Init => ContextInv
  BY DEF Init, ContextInv, ContextIsRight, Idle
<1>2. ContextInv => ContextIsRight
  BY DEF ContextInv
<1>. QED  BY <1>1, <1>2, ContextStep, PTL DEF Spec

\* A preview in use can be shown, whatever its refreshes ran into.
THEOREM PreviewsShow == Spec => []PreviewsCanBeShown
<1>1. Init => PreviewInv
  BY DEF Init, PreviewInv, PreviewsCanBeShown, BufferIsSized, NoImage, Images, OrNone
<1>2. PreviewInv => PreviewsCanBeShown
  BY DEF PreviewInv
<1>. QED  BY <1>1, <1>2, PreviewStep, PTL DEF Spec

-----------------------------------------------------------------------------
(***************************************************************************)
(* A tick brings the screen up to date: the surfaces the loop has left     *)
(* behind it are those at or before tick.on in the list as it is now, and  *)
(* each of them is shown at its size unless it is hidden or in behind.     *)
(***************************************************************************)
Had(s) == Precedes(surfaces, s, tick.on) \/ (tick.at = "loop" /\ s = tick.on)

LoopInv ==
  /\ surfaces \in Seq(Surfaces) /\ NoDuplicates(surfaces)
  /\ is_visible \subseteq Live
  /\ shown \in [Surfaces -> OrNone]
  /\ \A s \in Live : target[s].plan # "none"
  /\ tick \in [at : {"idle", "loop", "update"}, on : Surfaces \cup {NoSurface}, buffer : OrNone]
  /\ tick.on \in Live \cup {NoSurface}
  /\ tick.at = "idle" => tick.on = NoSurface
  /\ tick.at = "update" => tick.on # NoSurface

\* What the loop has had is on the screen, and the buffer it is drawing into fits.
HadIsShown ==
  /\ tick.at # "idle" => \A s \in is_visible \ behind : Had(s) => shown[s] = size[s]
  /\ tick.at = "update" /\ tick.on \notin behind /\ target[tick.on].plan = "dmabuf"
       => tick.buffer = size[tick.on]

TickInv == TargetInv /\ LoopInv /\ HadIsShown

LEMMA LiveAre ==
  ASSUME surfaces \in Seq(Surfaces)
  PROVE  Live \subseteq Surfaces /\ NoSurface \notin Live
         /\ \A x, y : Precedes(surfaces, x, y) => x \in Live /\ y \in Live
BY UiAssumption DEF Live, Elements, Precedes

\* The loop goes to the next in the list, and it is done when there is none.
LEMMA FollowingIs ==
  ASSUME LoopInv
  PROVE  /\ Following \in Live \cup {NoSurface}
         /\ Following # NoSurface =>
              \A x : Precedes(surfaces, x, Following)
                       => x # Following /\ (x = tick.on \/ Precedes(surfaces, x, tick.on))
         /\ Following = NoSurface =>
              \A x \in Live : x = tick.on \/ Precedes(surfaces, x, tick.on)
<1>. DEFINE N == Len(surfaces)
            at == {i \in DOMAIN surfaces : surfaces[i] = tick.on}
            next == IF at = {} THEN 1 ELSE 1 + CHOOSE i \in at : TRUE
<1>1. /\ N \in Nat /\ DOMAIN surfaces = 1 .. N /\ NoSurface \notin Live
      /\ \A i \in 1 .. N : surfaces[i] \in Live
      /\ \A i, j \in 1 .. N : surfaces[i] = surfaces[j] => i = j
      /\ \A x \in Live : \E i \in 1 .. N : surfaces[i] = x
  BY LiveAre DEF LoopInv, NoDuplicates, Live, Elements
<1>2. tick.on \in Live \cup {NoSurface}
  BY DEF LoopInv
<1>3. /\ next \in 1 .. N + 1
      /\ Following = IF next \in 1 .. N THEN surfaces[next] ELSE NoSurface
      /\ \A i \in 1 .. N : i < next <=> surfaces[i] = tick.on \/ Precedes(surfaces, surfaces[i], tick.on)
  <2>1. CASE tick.on = NoSurface
    <3>1. at = {} /\ next = 1
      BY <1>1, <2>1
    <3>2. \A i \in 1 .. N : ~ Precedes(surfaces, surfaces[i], tick.on) /\ surfaces[i] # tick.on
      BY <1>1, <2>1 DEF Precedes
    <3>. QED  BY <1>1, <2>1, <3>1, <3>2 DEF Following
  <2>2. CASE tick.on \in Live
    <3>1. PICK k \in 1 .. N : surfaces[k] = tick.on
      BY <1>1, <2>2
    <3>2. at = {k}
      BY <1>1, <3>1
    <3>3. next = k + 1
      BY <3>2
    <3>4. ASSUME NEW i \in 1 .. N
          PROVE  i <= k <=> surfaces[i] = tick.on \/ Precedes(surfaces, surfaces[i], tick.on)
      BY <1>1, <3>1 DEF Precedes
    <3>. HIDE DEF next
    <3>5. Following = IF next \in 1 .. N THEN surfaces[next] ELSE NoSurface
      <4>1. at # {}
        BY <3>2
      <4>. QED  BY <1>1, <4>1 DEF Following, next
    <3>. QED  BY <1>1, <3>3, <3>4, <3>5
  <2>. QED  BY <1>2, <2>1, <2>2
<1>. HIDE DEF next
<1>4. CASE next \in 1 .. N
  <2>1. ASSUME NEW x, Precedes(surfaces, x, surfaces[next])
        PROVE  \E i \in 1 .. N : i < next /\ x = surfaces[i]
    BY <1>1, <1>4, <2>1 DEF Precedes
  <2>2. \A i \in 1 .. N : i < next => surfaces[i] # surfaces[next]
    BY <1>1, <1>4
  <2>. QED  BY <1>1, <1>3, <1>4, <2>1, <2>2
<1>5. CASE next \notin 1 .. N
  <2>1. \A i \in 1 .. N : i < next
    BY <1>1, <1>3, <1>5
  <2>. QED  BY <1>1, <1>3, <1>5, <2>1
<1>. QED  BY <1>4, <1>5

LEMMA InitTick == Init => TickInv
<1>. SUFFICES ASSUME Init PROVE TickInv
  OBVIOUS
<1>1. TargetInv
  BY DEF Init, TargetInv, TargetFits, NoTarget, OrNone
<1>2. Live = {} /\ NoDuplicates(surfaces) /\ surfaces \in Seq(Surfaces)
  BY DEF Init, Live, Elements, NoDuplicates
<1>. QED  BY <1>1, <1>2 DEF Init, TickInv, LoopInv, HadIsShown, Idle, OrNone

\* A call in the middle of a tick leaves what the loop has had as it is, or puts it in
\* behind.
LEMMA CallKeeps ==
  ASSUME TickInv, TargetInv', Calls, UNCHANGED tick,
         surfaces' \in Seq(Surfaces), NoDuplicates(surfaces'), is_visible' \subseteq Live',
         shown' \in [Surfaces -> OrNone], \A s \in Live' : target'[s].plan # "none",
         tick.on \in Live => tick.on \in Live',
         \A s : Precedes(surfaces', s, tick.on) => Precedes(surfaces, s, tick.on),
         InTick => \A s \in Surfaces \ behind' :
                     /\ s \in is_visible' \cup {tick.on} => s \notin behind
                     /\ s \in is_visible' => s \in is_visible /\ shown'[s] = shown[s]
                     /\ s \in is_visible' \cup {tick.on} => size'[s] = size[s] /\ target'[s] = target[s]
  PROVE  TickInv'
<1>1. LoopInv'
  BY DEF TickInv, LoopInv
<1>2. CASE tick.at = "idle"
  BY <1>1, <1>2 DEF TickInv, HadIsShown
<1>3. CASE tick.at = "update"
  <2>1. InTick /\ tick.at # "idle" /\ tick.on \in Live /\ tick' = tick
    BY <1>3 DEF InTick, TickInv, LoopInv
  <2>2. Live \subseteq Surfaces /\ Live' \subseteq Surfaces
    BY LiveAre DEF TickInv, LoopInv, Live, Elements
  <2>3. ASSUME NEW s \in is_visible' \ behind', Had(s)' PROVE shown'[s] = size'[s]
    <3>1. s \in Surfaces \ behind'
      BY <1>1, <2>2, <2>3 DEF LoopInv
    <3>2. s \in is_visible \ behind /\ shown'[s] = shown[s] /\ size'[s] = size[s]
      BY <2>1, <2>3, <3>1
    <3>3. Had(s)
      BY <1>3, <2>1, <2>3 DEF Had
    <3>. QED  BY <2>1, <3>2, <3>3 DEF TickInv, HadIsShown
  <2>4. ASSUME tick.on \notin behind', target'[tick.on].plan = "dmabuf"
        PROVE  tick.buffer = size'[tick.on]
    <3>1. tick.on \in Surfaces \ behind'
      BY <2>1, <2>2, <2>4
    <3>2. tick.on \notin behind /\ size'[tick.on] = size[tick.on] /\ target'[tick.on] = target[tick.on]
      BY <2>1, <3>1
    <3>. QED  BY <1>3, <2>4, <3>2 DEF TickInv, HadIsShown
  <2>. QED  BY <1>1, <2>1, <2>3, <2>4 DEF TickInv, HadIsShown
<1>. QED  BY <1>2, <1>3 DEF Calls

\* Creating, resizing, hiding and destroying surfaces.
LEMMA SurfaceCallsKeep ==
  ASSUME TickInv, TargetInv', NEW s \in Surfaces,
         \/ \E w \in Sizes, visible \in BOOLEAN : CreateSurface(s, w, visible)
         \/ \E w \in Sizes : SetSize(s, w)
         \/ \E visible \in BOOLEAN : SetVisible(s, visible)
         \/ DestroySurface(s)
  PROVE  TickInv'
<1>0. /\ surfaces \in Seq(Surfaces) /\ NoDuplicates(surfaces) /\ is_visible \subseteq Live
      /\ shown \in [Surfaces -> OrNone] /\ size \in [Surfaces -> OrNone]
      /\ target \in [Surfaces -> [plan : {"none", "dmabuf", "shm", "broken"}, size : OrNone]]
      /\ \A r \in Live : target[r].plan # "none"
      /\ tick.on \in Live \cup {NoSurface} /\ NoSurface \notin Live
      /\ Live \subseteq Surfaces
  BY LiveAre DEF TickInv, LoopInv, TargetInv
<1>1. ASSUME NEW w \in Sizes, NEW visible \in BOOLEAN, CreateSurface(s, w, visible)
      PROVE  TickInv'
  <2>1. PICK t \in InitSurfaceGl(w) : t.plan # "broken" /\ target' = [target EXCEPT ![s] = t]
    BY <1>1 DEF CreateSurface
  <2>2. /\ Calls /\ s \notin Live /\ UNCHANGED <<tick, shown>>
        /\ surfaces' = Append(surfaces, s) /\ size' = [size EXCEPT ![s] = w]
        /\ is_visible' \subseteq is_visible \cup {s}
        /\ is_visible \subseteq is_visible'
        /\ behind' = IF InTick THEN behind \cup {s} ELSE behind
    BY <1>1 DEF CreateSurface, MayBeBehind
  <2>3. /\ surfaces' \in Seq(Surfaces) /\ NoDuplicates(surfaces') /\ Live' = Live \cup {s}
    BY <1>0, <2>2, AppendElements DEF Live
  <2>4. t.plan # "none"
    BY DEF InitSurfaceGl
  <2>5. \A r \in Live' : target'[r].plan # "none"
    BY <1>0, <2>1, <2>3, <2>4
  <2>6. ASSUME NEW r, Precedes(surfaces', r, tick.on) PROVE Precedes(surfaces, r, tick.on)
    <3>1. tick.on # s
      BY <1>0, <2>2, UiAssumption
    <3>. QED  BY <1>0, <2>2, <2>6, <3>1, AppendPrecedes
  <2>7. ASSUME InTick, NEW r \in Surfaces \ behind'
        PROVE  r # s /\ r \notin behind /\ size'[r] = size[r] /\ target'[r] = target[r]
    BY <1>0, <2>1, <2>2, <2>7
  <2>8. is_visible' \subseteq Live' /\ shown' \in [Surfaces -> OrNone]
        /\ (tick.on \in Live => tick.on \in Live')
    BY <1>0, <2>2, <2>3
  <2>9. InTick => \A r \in Surfaces \ behind' :
                    /\ r \in is_visible' \cup {tick.on} => r \notin behind
                    /\ r \in is_visible' => r \in is_visible /\ shown'[r] = shown[r]
                    /\ r \in is_visible' \cup {tick.on} => size'[r] = size[r] /\ target'[r] = target[r]
    BY <2>2, <2>7
  <2>. QED  BY <2>2, <2>3, <2>5, <2>6, <2>8, <2>9, CallKeeps
<1>2. ASSUME NEW w \in Sizes, SetSize(s, w) PROVE TickInv'
  <2>1. PICK t \in InitSurfaceGl(w) : target' = [target EXCEPT ![s] = t]
    BY <1>2 DEF SetSize
  <2>2. /\ Calls /\ UNCHANGED <<tick, shown, surfaces, is_visible>>
        /\ size' = [size EXCEPT ![s] = w]
        /\ behind' = IF InTick THEN behind \cup {s} ELSE behind
    BY <1>2 DEF SetSize, MayBeBehind
  <2>3. Live' = Live /\ t.plan # "none"
    BY <2>2 DEF Live, InitSurfaceGl
  <2>4. \A r \in Live' : target'[r].plan # "none"
    BY <1>0, <2>1, <2>3
  <2>5. ASSUME InTick, NEW r \in Surfaces \ behind'
        PROVE  r \notin behind /\ size'[r] = size[r] /\ target'[r] = target[r]
    BY <1>0, <2>1, <2>2, <2>5
  <2>. QED  BY <1>0, <2>2, <2>3, <2>4, <2>5, CallKeeps
<1>3. ASSUME NEW visible \in BOOLEAN, SetVisible(s, visible) PROVE TickInv'
  <2>1. /\ Calls /\ s \in Live /\ UNCHANGED <<tick, shown, surfaces, size, target>>
        /\ is_visible' \subseteq is_visible \cup {s}
        /\ behind' = IF InTick THEN behind \cup {s} ELSE behind
    BY <1>3 DEF SetVisible, MayBeBehind
  <2>2. Live' = Live
    BY <2>1 DEF Live
  <2>. QED  BY <1>0, <2>1, <2>2, CallKeeps
<1>4. ASSUME DestroySurface(s) PROVE TickInv'
  <2>1. /\ Calls /\ s \in Live /\ s # tick.on /\ UNCHANGED tick
        /\ surfaces' = Dropped(surfaces, {s})
        /\ size' = [size EXCEPT ![s] = None] /\ target' = [target EXCEPT ![s] = NoTarget]
        /\ shown' = [shown EXCEPT ![s] = None]
        /\ is_visible' = is_visible \ {s} /\ behind' = behind \ {s}
    BY <1>4 DEF DestroySurface
  <2>2. /\ surfaces' \in Seq(Surfaces) /\ NoDuplicates(surfaces') /\ Live' = Live \ {s}
    BY <1>0, <2>1, DroppedProperties DEF Live
  <2>3. \A r \in Live' : target'[r].plan # "none"
    BY <1>0, <2>1, <2>2
  <2>4. \A r : Precedes(surfaces', r, tick.on) => Precedes(surfaces, r, tick.on)
    BY <1>0, <2>1, KeptInOrder DEF Dropped
  <2>5. ASSUME NEW r \in Surfaces \ {s}
        PROVE  size'[r] = size[r] /\ target'[r] = target[r] /\ shown'[r] = shown[r]
    BY <1>0, <2>1
  <2>6. \A r \in Surfaces \ behind' :
          /\ r \in is_visible' \cup {tick.on} => r \notin behind
          /\ r \in is_visible' => r \in is_visible /\ shown'[r] = shown[r]
          /\ r \in is_visible' \cup {tick.on} => size'[r] = size[r] /\ target'[r] = target[r]
    BY <2>1, <2>5
  <2>7. shown' \in [Surfaces -> OrNone]
    BY <1>0, <2>1 DEF OrNone
  <2>8. is_visible' \subseteq Live' /\ (tick.on \in Live => tick.on \in Live')
    BY <1>0, <2>1, <2>2
  <2>. QED  BY <2>1, <2>2, <2>3, <2>4, <2>6, <2>7, <2>8, CallKeeps
<1>. QED  BY <1>1, <1>2, <1>3, <1>4

\* The loop goes on over a hidden surface, or one it cannot draw.
LEMMA PassOver ==
  ASSUME TickInv, TargetInv', tick.at = "loop", Following # NoSurface,
         tick' = [tick EXCEPT !.on = Following],
         UNCHANGED <<surfaces, is_visible, shown, size, target>>,
         behind' \in {behind, behind \cup {Following}},
         Following \notin is_visible \ behind'
  PROVE  TickInv'
<1>1. /\ tick'.at = "loop" /\ tick'.on = Following /\ tick'.buffer = tick.buffer
      /\ tick' \in [at : {"idle", "loop", "update"}, on : Surfaces \cup {NoSurface}, buffer : OrNone]
  BY FollowingIs, LiveAre DEF TickInv, LoopInv
<1>2. Live' = Live
  BY DEF Live
<1>3. LoopInv'
  BY <1>1, <1>2, FollowingIs DEF TickInv, LoopInv
<1>4. ASSUME NEW s \in is_visible' \ behind', Had(s)' PROVE shown'[s] = size'[s]
  <2>1. s # Following /\ s \in is_visible \ behind
    BY <1>4
  <2>2. Precedes(surfaces, s, Following)
    BY <1>1, <1>4, <2>1 DEF Had
  <2>3. Had(s)
    BY <2>2, FollowingIs DEF Had, TickInv
  <2>. QED  BY <2>1, <2>3 DEF TickInv, HadIsShown
<1>. QED  BY <1>1, <1>3, <1>4 DEF TickInv, HadIsShown

LEMMA RenderKeeps == ASSUME TickInv, TargetInv', RenderSurface PROVE TickInv'
<1>1. /\ tick.at = "loop" /\ Following # NoSurface /\ Following \in is_visible
      /\ UNCHANGED <<surfaces, size, is_visible, target, shown>>
  BY DEF RenderSurface
<1>2. CASE tick' = [tick EXCEPT !.on = Following] /\ behind' = behind \cup {Following}
  BY <1>1, <1>2, PassOver
<1>3. CASE /\ tick' = [at |-> "update", on |-> Following,
                       buffer |-> IF target[Following].plan = "dmabuf"
                                  THEN target[Following].size ELSE None]
           /\ behind' = behind \ {Following}
  <2>1. /\ Following \in Live /\ Live' = Live /\ Following \in Surfaces
        /\ tick'.at = "update" /\ tick'.on = Following
    BY <1>1, <1>3, FollowingIs, LiveAre DEF TickInv, LoopInv, Live
  <2>2. target[Following] \in [plan : {"none", "dmabuf", "shm", "broken"}, size : OrNone]
        /\ None \in OrNone
    BY <2>1 DEF TickInv, TargetInv, OrNone
  <2>3. LoopInv'
    BY <1>1, <1>3, <2>1, <2>2 DEF TickInv, LoopInv
  <2>4. ASSUME NEW s \in is_visible' \ behind', Had(s)' PROVE shown'[s] = size'[s]
    <3>1. Precedes(surfaces, s, Following)
      BY <1>1, <2>1, <2>4 DEF Had
    <3>2. Had(s) /\ s # Following
      BY <1>1, <3>1, FollowingIs DEF Had, TickInv
    <3>. QED  BY <1>1, <1>3, <2>4, <3>2 DEF TickInv, HadIsShown
  <2>5. target'[tick'.on].plan = "dmabuf" => tick'.buffer = size'[tick'.on]
    BY <1>1, <1>3, <2>1 DEF TickInv, TargetInv, TargetFits
  <2>. QED  BY <2>1, <2>3, <2>4, <2>5 DEF TickInv, HadIsShown
<1>. QED  BY <1>2, <1>3 DEF RenderSurface

LEMMA SubmitKeeps == ASSUME TickInv, TargetInv', SubmitSurface PROVE TickInv'
<1>1. /\ tick.at = "update" /\ tick.on \in Live /\ tick.on \in Surfaces
      /\ UNCHANGED <<surfaces, size, is_visible, target, behind>> /\ Live' = Live
  BY LiveAre DEF SubmitSurface, TickInv, LoopInv, Live
<1>2. CASE UNCHANGED <<shown, tick>>
  BY <1>1, <1>2 DEF TickInv, LoopInv, HadIsShown, Had
<1>3. CASE /\ target[tick.on].plan # "broken"
           /\ shown' = [shown EXCEPT ![tick.on] = IF target[tick.on].plan = "dmabuf"
                                                  THEN tick.buffer ELSE target[tick.on].size]
           /\ tick' = [tick EXCEPT !.at = "loop", !.buffer = None]
  <2>1. /\ tick'.at = "loop" /\ tick'.on = tick.on
        /\ tick' \in [at : {"idle", "loop", "update"}, on : Surfaces \cup {NoSurface}, buffer : OrNone]
    BY <1>3 DEF TickInv, LoopInv, OrNone
  <2>2. /\ target[tick.on] \in [plan : {"none", "dmabuf", "shm", "broken"}, size : OrNone]
        /\ target[tick.on].plan \in {"dmabuf", "shm"} /\ tick.buffer \in OrNone
    BY <1>1, <1>3 DEF TickInv, LoopInv, TargetInv
  <2>3. shown' \in [Surfaces -> OrNone]
    BY <1>3, <2>2 DEF TickInv, LoopInv
  <2>4. LoopInv'
    BY <1>1, <2>1, <2>3 DEF TickInv, LoopInv
  <2>5. ASSUME NEW s \in is_visible' \ behind', Had(s)' PROVE shown'[s] = size'[s]
    <3>0. s \in Surfaces
      BY <1>1, <2>5, LiveAre DEF TickInv, LoopInv
    <3>1. CASE s = tick.on
      <4>1. shown'[s] = IF target[s].plan = "dmabuf" THEN tick.buffer ELSE target[s].size
        BY <1>3, <3>0, <3>1 DEF TickInv, LoopInv
      <4>2. target[s].plan = "shm" => target[s].size = size[s]
        BY <3>0 DEF TickInv, TargetInv, TargetFits
      <4>3. target[s].plan = "dmabuf" => tick.buffer = size[s]
        BY <1>1, <2>5, <3>1 DEF TickInv, HadIsShown
      <4>. QED  BY <1>1, <2>2, <3>1, <4>1, <4>2, <4>3
    <3>2. CASE s # tick.on
      <4>1. Had(s) /\ shown'[s] = shown[s]
        BY <1>1, <1>3, <2>1, <2>5, <3>0, <3>2 DEF Had, TickInv, LoopInv
      <4>. QED  BY <1>1, <2>5, <4>1 DEF TickInv, HadIsShown
    <3>. QED  BY <3>1, <3>2
  <2>. QED  BY <2>1, <2>4, <2>5 DEF TickInv, HadIsShown
<1>. QED  BY <1>2, <1>3 DEF SubmitSurface

\* The remaining steps: what calls leave alone, and the ends of a tick.
LEMMA OtherStepsKeep ==
  ASSUME TickInv, TargetInv', UNCHANGED <<surfaces, size, is_visible, target, shown, tick, behind>>
  PROVE  TickInv'
BY DEF TickInv, LoopInv, HadIsShown, Had, Live

LEMMA TickEndsKeep == ASSUME TickInv, TargetInv', TickBegin \/ TickEnd PROVE TickInv'
<1>1. UNCHANGED <<surfaces, size, is_visible, target, shown>> /\ Live' = Live
  BY DEF TickBegin, TickEnd, surface, Live
<1>2. CASE TickBegin
  <2>1. tick.on = NoSurface /\ tick' = [tick EXCEPT !.at = "loop"] /\ behind' = behind
    BY <1>2 DEF TickBegin, TickInv, LoopInv
  <2>2. /\ tick'.at = "loop" /\ tick'.on = NoSurface
        /\ tick' \in [at : {"idle", "loop", "update"}, on : Surfaces \cup {NoSurface}, buffer : OrNone]
    BY <2>1 DEF TickInv, LoopInv
  <2>3. LoopInv'
    BY <1>1, <2>2 DEF TickInv, LoopInv
  <2>4. \A s \in is_visible' : ~Had(s)'
    BY <1>1, <2>2, LiveAre DEF Had, TickInv, LoopInv
  <2>. QED  BY <2>2, <2>3, <2>4 DEF TickInv, HadIsShown
<1>3. CASE TickEnd
  BY <1>1, <1>3 DEF TickEnd, TickInv, LoopInv, HadIsShown, Idle, OrNone
<1>. QED  BY <1>2, <1>3

LEMMA TickStep == TickInv /\ [Next]_vars => TickInv'
<1>. SUFFICES ASSUME TickInv, [Next]_vars PROVE TickInv'
  OBVIOUS
<1>0. TargetInv'
  BY TargetStep DEF TickInv
<1>1. ASSUME NEW s \in Surfaces, NEW w \in Sizes, NEW visible \in BOOLEAN,
             CreateSurface(s, w, visible)
      PROVE  TickInv'
  BY <1>0, <1>1, SurfaceCallsKeep
<1>2. ASSUME NEW s \in Surfaces, NEW visible \in BOOLEAN, SetVisible(s, visible) PROVE TickInv'
  BY <1>0, <1>2, SurfaceCallsKeep
<1>3. ASSUME NEW s \in Surfaces, DestroySurface(s) PROVE TickInv'
  BY <1>0, <1>3, SurfaceCallsKeep
<1>4. ASSUME NEW s \in Surfaces, NEW w \in Sizes, SetSize(s, w) PROVE TickInv'
  BY <1>0, <1>4, SurfaceCallsKeep
<1>5. ASSUME NEW s \in Surfaces, Bind(s) \/ BindList(s) \/ BindListField(s) PROVE TickInv'
  BY <1>0, <1>5, OtherStepsKeep DEF Bind, BindList, BindListField, Binding
<1>6. ASSUME NEW p \in Previews, NEW w \in OrNone, CreatePreview(p, w) \/ RefreshPreview(p, w)
      PROVE  TickInv'
  BY <1>0, <1>6, OtherStepsKeep DEF CreatePreview, RefreshPreview, surface
<1>7. ASSUME NEW p \in Previews, DropPreview(p) PROVE TickInv'
  BY <1>0, <1>7, OtherStepsKeep DEF DropPreview, surface
<1>8. CASE CreateFails
  BY <1>0, <1>8, OtherStepsKeep DEF CreateFails, surface
<1>9. CASE SkipHidden
  BY <1>0, <1>9, PassOver DEF SkipHidden, surface
<1>10. CASE UNCHANGED vars
  BY <1>0, <1>10, OtherStepsKeep DEF vars, surface
<1>. QED  BY <1>0, <1>1, <1>2, <1>3, <1>4, <1>5, <1>6, <1>7, <1>8, <1>9, <1>10,
             RenderKeeps, SubmitKeeps, TickEndsKeep DEF Next

\* When the list is at its end every live surface has had its turn.
LEMMA EndIsWhole ==
  ASSUME TickInv, TickEnd, NEW s \in is_visible \ behind
  PROVE  shown[s] = size[s]
<1>1. s \in Live /\ tick.at = "loop" /\ Following = NoSurface
  BY DEF TickEnd, TickInv, LoopInv
<1>2. Had(s)
  BY <1>1, FollowingIs DEF Had, TickInv
<1>. QED  BY <1>1, <1>2 DEF TickInv, HadIsShown

\* A tick ends nowhere but at the end of the list.
LEMMA EndsOnce ==
  ASSUME TickInv, [Next]_vars, tick.at = "loop", tick'.at = "idle"
  PROVE  TickEnd
<1>1. ~Calls
  BY DEF Calls
<1>2. ~CreateFails /\ ~TickBegin /\ ~SubmitSurface
  BY <1>1 DEF CreateFails, TickBegin, SubmitSurface
<1>3. ~SkipHidden /\ ~RenderSurface /\ ~UNCHANGED vars
  BY DEF SkipHidden, RenderSurface, vars, TickInv, LoopInv
<1>4. ~ \E s \in Surfaces, w \in Sizes, visible \in BOOLEAN : CreateSurface(s, w, visible)
  BY <1>1 DEF CreateSurface
<1>5. ~ \E s \in Surfaces : Bind(s) \/ BindList(s) \/ BindListField(s) \/ DestroySurface(s)
  BY <1>1 DEF Bind, BindList, BindListField, Binding, DestroySurface
<1>6. ~ \E s \in Surfaces, visible \in BOOLEAN : SetVisible(s, visible)
  BY <1>1 DEF SetVisible
<1>7. ~ \E s \in Surfaces, w \in Sizes : SetSize(s, w)
  BY <1>1 DEF SetSize
<1>8. ~ \E p \in Previews, w \in OrNone : CreatePreview(p, w) \/ RefreshPreview(p, w)
  BY <1>1 DEF CreatePreview, RefreshPreview
<1>9. ~ \E p \in Previews : DropPreview(p)
  BY <1>1 DEF DropPreview
<1>. QED  BY <1>2, <1>3, <1>4, <1>5, <1>6, <1>7, <1>8, <1>9 DEF Next

\* Whatever the callbacks of documents create, destroy, hide and resize while the list is
\* walked, no visible surface that could be drawn is left out of a tick.
THEOREM TicksAreWhole == Spec => TickBringsUpToDate
<1>1. TickInv /\ [Next]_vars
        => [tick.at = "loop" /\ tick'.at = "idle" =>
              \A s \in is_visible \ behind : shown[s] = size[s]]_vars
  BY EndsOnce, EndIsWhole
<1>. QED  BY <1>1, InitTick, TickStep, PTL DEF Spec, TickBringsUpToDate

=============================================================================
