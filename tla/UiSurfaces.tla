------------------------------ MODULE UiSurfaces ------------------------------
(***************************************************************************)
(* What the UI substrate draws (kernel/src/ui_substrate.cpp): the render    *)
(* targets of the surfaces, the previews of windows and the EGL context     *)
(* they share with nobody, through calls of the extensions and the tick of  *)
(* every frame.                                                            *)
(*                                                                         *)
(* A tick calls out: Context::Update() fires the document's events, and     *)
(* their callbacks make any call of the interface in the middle of the      *)
(* rendering of a surface.  Getters are pure by contract.  A callback that  *)
(* destroys the surface being rendered is left out (nothing in the code     *)
(* survives it).                                                           *)
(*                                                                         *)
(* A buffer, a texture or a registration is its size, or None.             *)
(*                                                                         *)
(* External: EGL keeps one current context and makes ours current; a pass   *)
(* of the wlr renderer leaves the context it found; what an allocator, a    *)
(* swapchain or a driver may refuse it refuses at any time.                 *)
(***************************************************************************)
EXTENDS Naturals, Sequences, Lists

CONSTANTS
  Surfaces, NoSurface,
  Previews,
  Sizes, None

ASSUME UiAssumption == NoSurface \notin Surfaces /\ None \notin Sizes

OrNone == Sizes \cup {None}

VARIABLES
  surfaces,       \* Impl::surfaces, the list tick_all() walks
  size, is_visible,
  document,       \* "unread" while the data model is open, then "read"
  ctor,           \* what the open data model has: "value", "list", "field", or lost one
  target,         \* [plan, size]: swapchain, shm buffer, or what a failure left
  shown,          \* the buffer of the scene node
  previews,       \* Impl::previews: those the extensions hold
  preview,        \* [Previews -> [size, buffer, tex, uri]]
  current, saved, \* the EGL context and GlBridge::saved_context: "wlr" or "ui"
  tick,           \* [at, on, buffer]: where tick_all() is
  crashed,        \* a null pointer was dereferenced
  nested,         \* history: a make_current() ran inside another
  behind          \* history: surfaces the tick could not draw as they are

surface == <<surfaces, size, is_visible, document, ctor, target, shown>>
pictures == <<previews, preview>>
gl == <<current, saved, nested>>
vars == <<surface, pictures, gl, tick, crashed, behind>>

Live == Elements(surfaces)
NoImage == [size |-> None, buffer |-> None, tex |-> None, uri |-> None]
NoTarget == [plan |-> "none", size |-> None]
Idle == [at |-> "idle", on |-> NoSurface, buffer |-> None]

\* Extension code runs between events, and in callbacks of a document.
Calls == tick.at \in {"idle", "update"} /\ ~crashed
InTick == tick.at = "update"

\* make_current() ... restore_current() around a piece of work: there is one
\* saved_context, and the inner of two brackets takes it.
Bracket ==
  /\ saved' = current
  /\ nested' = (nested \/ InTick)
  /\ UNCHANGED current

\* A surface that changes while a tick is going on may have had its turn.
MayBeBehind(s) == behind' = IF InTick THEN behind \cup {s} ELSE behind

\* init_surface_gl(): a swapchain where dmabufs can be imported, else or if that fails a
\* texture with a shm buffer; the texture may make no complete framebuffer.
InitSurfaceGl(w) ==
  {[plan |-> "dmabuf", size |-> w], [plan |-> "shm", size |-> w], [plan |-> "broken", size |-> None]}

-----------------------------------------------------------------------------
Init ==
  /\ surfaces = <<>>
  /\ size = [s \in Surfaces |-> None]
  /\ is_visible = {}
  /\ document = [s \in Surfaces |-> "unread"]
  /\ ctor = [s \in Surfaces |-> {}]
  /\ target = [s \in Surfaces |-> NoTarget]
  /\ shown = [s \in Surfaces |-> None]
  /\ previews = {}
  /\ preview = [p \in Previews |-> NoImage]
  /\ current = "wlr" /\ saved = "wlr"
  /\ tick = Idle
  /\ crashed = FALSE /\ nested = FALSE /\ behind = {}

\* create_surface() fails when its target, RmlUi context or scene node does: the bracket
\* of destroy_surface() is inside its own, and ours stays the current context.
CreateFails ==
  /\ Calls
  /\ current' = "ui" /\ saved' = "ui" /\ nested' = TRUE
  /\ UNCHANGED <<surface, pictures, tick, crashed, behind>>

\* create_surface().
CreateSurface(s, w, visible) ==
  /\ Calls
  /\ s \notin Live
  /\ \E t \in InitSurfaceGl(w) : t.plan # "broken" /\ target' = [target EXCEPT ![s] = t]
  /\ surfaces' = Append(surfaces, s)
  /\ size' = [size EXCEPT ![s] = w]
  /\ is_visible' = IF visible THEN is_visible \cup {s} ELSE is_visible
  /\ UNCHANGED <<document, ctor, shown, pictures, tick, crashed>>
  /\ MayBeBehind(s)
  /\ Bracket

\* The data model takes bindings until the document is read, and none after.
Binding(s, what) ==
  /\ Calls
  /\ s \in Live /\ document[s] = "unread"
  /\ ctor' = [ctor EXCEPT ![s] = @ \cup {what}]
  /\ UNCHANGED <<surfaces, size, is_visible, document, target, shown, pictures, gl, tick,
                 crashed, behind>>

\* bind_int() and its kind, bind_event(), bind_drag(), bind_list_event().
Bind(s) == Binding(s, "value")

\* bind_list().
BindList(s) == Binding(s, "list")

\* bind_list_field_impl(): a field of a list nobody has declared yet is dropped.
BindListField(s) == Binding(s, IF "list" \in ctor[s] THEN "field" ELSE "lost")

SetVisible(s, visible) ==
  /\ Calls
  /\ s \in Live
  /\ is_visible' = IF visible THEN is_visible \cup {s} ELSE is_visible \ {s}
  /\ UNCHANGED <<surfaces, size, document, ctor, target, shown, pictures, gl, tick, crashed>>
  /\ MayBeBehind(s)

\* Mutant of SetSize: the size is assigned when the target has been built.
SetSizeLate(s, w) ==
  /\ Calls
  /\ s \in Live /\ w # size[s]
  /\ size' = [size EXCEPT ![s] = w]
  /\ \E t \in InitSurfaceGl(size[s]) : target' = [target EXCEPT ![s] = t]
  /\ UNCHANGED <<surfaces, is_visible, document, ctor, shown, pictures, tick, crashed>>
  /\ MayBeBehind(s)
  /\ Bracket

\* set_size() with resize_surface_gl() and free_surface_gl(): the size is the new one
\* whether or not the target can be built.
SetSize(s, w) ==
  /\ Calls
  /\ s \in Live /\ w # size[s]
  /\ size' = [size EXCEPT ![s] = w]
  /\ \E t \in InitSurfaceGl(w) : target' = [target EXCEPT ![s] = t]
  /\ UNCHANGED <<surfaces, is_visible, document, ctor, shown, pictures, tick, crashed>>
  /\ MayBeBehind(s)
  /\ Bracket

\* ~SurfaceHandle(), destroy_surface().
DestroySurface(s) ==
  /\ Calls
  /\ s \in Live /\ s # tick.on
  /\ surfaces' = Dropped(surfaces, {s})
  /\ size' = [size EXCEPT ![s] = None]
  /\ is_visible' = is_visible \ {s}
  /\ document' = [document EXCEPT ![s] = "unread"]
  /\ ctor' = [ctor EXCEPT ![s] = {}]
  /\ target' = [target EXCEPT ![s] = NoTarget]
  /\ shown' = [shown EXCEPT ![s] = None]
  /\ behind' = behind \ {s}
  /\ UNCHANGED <<pictures, tick, crashed>>
  /\ Bracket

-----------------------------------------------------------------------------
\* snapshot_into_buffer(): what the preview is after it, for each place it can stop at,
\* and whether it got to the end.  The source has w for its tree_extent(), None for no pixels.
Snapshots(i, w) ==
  LET replaced == i.buffer = None \/ i.size # w
      drawn == IF replaced THEN [i EXCEPT !.buffer = w, !.size = w] ELSE i
  IN  IF w = None THEN {[image |-> i, whole |-> FALSE]}
      ELSE {[image |-> drawn, whole |-> b] : b \in BOOLEAN}
             \cup IF replaced THEN {[image |-> [i EXCEPT !.buffer = None], whole |-> FALSE]} ELSE {}

\* Mutant of Imports: the old import goes before the new one is there.
ImportsEarly(i) == {[i EXCEPT !.tex = None, !.uri = None], [i EXCEPT !.tex = i.buffer, !.uri = i.size]}

\* import_snapshot(): fails, or replaces texture and registration together.
Imports(i) == {i, [i EXCEPT !.tex = i.buffer, !.uri = i.size]}

\* create_preview(): all of it or, through destroy_preview(), nothing.
CreatePreview(p, w) ==
  /\ Calls
  /\ p \notin previews
  /\ \E s \in Snapshots(NoImage, w) : \E i \in Imports(s.image) :
       IF s.whole /\ i.uri # None
       THEN preview' = [preview EXCEPT ![p] = i] /\ previews' = previews \cup {p}
       ELSE UNCHANGED pictures
  /\ UNCHANGED <<surface, tick, crashed, behind>>
  /\ Bracket

\* PreviewHandle::refresh(): stops where the snapshot or the import does.
RefreshPreview(p, w) ==
  /\ Calls
  /\ p \in previews
  /\ \E s \in Snapshots(preview[p], w) :
       IF s.whole
       THEN /\ \E i \in Imports(s.image) : preview' = [preview EXCEPT ![p] = i]
            /\ Bracket
       ELSE /\ preview' = [preview EXCEPT ![p] = s.image]
            /\ UNCHANGED gl
  /\ UNCHANGED <<surface, previews, tick, crashed, behind>>

\* ~PreviewHandle(), destroy_preview().
DropPreview(p) ==
  /\ Calls
  /\ p \in previews
  /\ previews' = previews \ {p}
  /\ preview' = [preview EXCEPT ![p] = NoImage]
  /\ UNCHANGED <<surface, tick, crashed, behind>>
  /\ Bracket

-----------------------------------------------------------------------------
\* The frame: tick_all() makes the context current and walks the list.
TickBegin ==
  /\ tick.at = "idle" /\ ~crashed
  /\ surfaces # <<>>
  /\ tick' = [tick EXCEPT !.at = "loop"]
  /\ saved' = current /\ current' = "ui"
  /\ UNCHANGED <<surface, pictures, nested, crashed, behind>>

\* The successor of the surface the loop is at, in the list as it is now.
Following ==
  LET at == {i \in DOMAIN surfaces : surfaces[i] = tick.on}
      next == IF at = {} THEN 1 ELSE 1 + CHOOSE i \in at : TRUE
  IN  IF tick.on = NoSurface \/ at # {}
      THEN IF next \in DOMAIN surfaces THEN surfaces[next] ELSE NoSurface
      ELSE NoSurface

\* A hidden surface is passed over.
SkipHidden ==
  /\ tick.at = "loop"
  /\ Following # NoSurface /\ Following \notin is_visible
  /\ tick' = [tick EXCEPT !.on = Following]
  /\ UNCHANGED <<surface, pictures, gl, crashed, behind>>

\* render_surface() up to Context::Update(): the data model is closed and the document
\* read at the first call; no document or no free buffer is the end of it.
RenderSurface ==
  LET s == Following IN
  /\ tick.at = "loop"
  /\ s # NoSurface /\ s \in is_visible
  /\ document' = [document EXCEPT ![s] = "read"]
  /\ ctor' = [ctor EXCEPT ![s] = {}]
  /\ \/ /\ document[s] = "unread" \/ target[s].plan = "dmabuf"
        /\ tick' = [tick EXCEPT !.on = s]
        /\ behind' = behind \cup {s}
     \/ /\ tick' = [at |-> "update", on |-> s,
                    buffer |-> IF target[s].plan = "dmabuf" THEN target[s].size ELSE None]
        /\ behind' = behind \ {s}
  /\ UNCHANGED <<surfaces, size, is_visible, target, shown, pictures, gl, crashed>>

\* render_surface() from there on: the buffer goes to the scene node.  Which of the two
\* kinds it is was read before Update(), and is read again here.
SubmitSurface ==
  LET s == tick.on IN
  /\ tick.at = "update" /\ ~crashed
  /\ IF target[s].plan = "broken"
     THEN crashed' = TRUE /\ UNCHANGED <<shown, tick>>
     ELSE /\ shown' = [shown EXCEPT ![s] = IF target[s].plan = "dmabuf" THEN tick.buffer
                                           ELSE target[s].size]
          /\ tick' = [tick EXCEPT !.at = "loop", !.buffer = None]
          /\ UNCHANGED crashed
  /\ UNCHANGED <<surfaces, size, is_visible, document, ctor, target, pictures, gl, behind>>

\* Mutant of TickEnd: the loop breaks off at a hidden surface.
TickEndAtHidden ==
  /\ tick.at = "loop"
  /\ Following \notin is_visible
  /\ tick' = Idle
  /\ current' = saved
  /\ behind' = {}
  /\ UNCHANGED <<surface, pictures, saved, nested, crashed>>

\* Mutant of TickEnd: the context is not given back.
TickEndKeeps ==
  /\ tick.at = "loop"
  /\ Following = NoSurface
  /\ tick' = Idle
  /\ behind' = {}
  /\ UNCHANGED <<surface, pictures, gl, crashed>>

TickEnd ==
  /\ tick.at = "loop"
  /\ Following = NoSurface
  /\ tick' = Idle
  /\ current' = saved
  /\ behind' = {}
  /\ UNCHANGED <<surface, pictures, saved, nested, crashed>>

Next ==
  \/ CreateFails
  \/ \E s \in Surfaces, w \in Sizes, visible \in BOOLEAN : CreateSurface(s, w, visible)
  \/ \E s \in Surfaces : Bind(s) \/ BindList(s) \/ BindListField(s) \/ DestroySurface(s)
  \/ \E s \in Surfaces, visible \in BOOLEAN : SetVisible(s, visible)
  \/ \E s \in Surfaces, w \in Sizes : SetSize(s, w)
  \/ \E p \in Previews, w \in OrNone : CreatePreview(p, w) \/ RefreshPreview(p, w)
  \/ \E p \in Previews : DropPreview(p)
  \/ TickBegin \/ SkipHidden \/ RenderSurface \/ SubmitSurface \/ TickEnd

Spec == Init /\ [][Next]_vars

-----------------------------------------------------------------------------
TypeOK ==
  /\ surfaces \in Seq(Surfaces)
  /\ size \in [Surfaces -> OrNone]
  /\ is_visible \subseteq Live
  /\ document \in [Surfaces -> {"unread", "read"}]
  /\ ctor \in [Surfaces -> SUBSET {"value", "list", "field", "lost"}]
  /\ target \in [Surfaces -> [plan: {"none", "dmabuf", "shm", "broken"}, size: OrNone]]
  /\ shown \in [Surfaces -> OrNone]
  /\ previews \subseteq Previews
  /\ preview \in [Previews -> [size: OrNone, buffer: OrNone, tex: OrNone, uri: OrNone]]
  /\ current \in {"wlr", "ui"} /\ saved \in {"wlr", "ui"}
  /\ tick \in [at: {"idle", "loop", "update"}, on: Surfaces \cup {NoSurface}, buffer: OrNone]
  /\ crashed \in BOOLEAN /\ nested \in BOOLEAN
  /\ behind \subseteq Surfaces

\* A surface draws into a target of its size, whoever resized it and when, unless none
\* could be had (ui.hpp:72-81).
TargetFits ==
  \A s \in Surfaces : target[s].plan \in {"dmabuf", "shm"} => target[s].size = size[s]

\* When a tick ends every visible surface it could draw is on the screen at its size: none
\* is passed over because the list, the visibility or a size changed under the loop.
TickBringsUpToDate ==
  [][tick.at = "loop" /\ tick'.at = "idle" =>
       \A s \in is_visible \ behind : shown[s] = size[s]]_vars

\* Rendering goes on in the substrate's own context after whatever a callback did, and the
\* wlr renderer finds its own again, unless two brackets were nested.
ContextIsRight ==
  /\ tick.at # "idle" => current = "ui"
  /\ tick.at = "idle" /\ ~nested => current = "wlr"

\* A preview in an extension's hands can be shown, after any refresh that stopped half-way
\* too: its name leads to a texture, and says its size; one that is not leaves nothing.
PreviewsCanBeShown ==
  \A p \in Previews :
    IF p \in previews THEN preview[p].uri # None /\ preview[p].uri = preview[p].tex
    ELSE preview[p] = NoImage

\* Refuted: "the surface is then left with no GL target and will not render until a later
\* resize succeeds" (ui_substrate.cpp:720-722).  It renders, and reads the shm buffer that
\* is not there.
NeverCrashes == ~crashed

\* Refuted: "save/restore around every GL section" (ui_substrate.cpp:176).  A create_surface()
\* that fails leaves the substrate's context current, and so does a callback of a document
\* that resizes a surface while a tick is going on.
ContextComesBack == tick.at = "idle" => current = "wlr"

\* Refuted: "row fields may be added in any order relative to bind_list for the same name"
\* (ui.hpp:203-204).
FieldsInAnyOrder == \A s \in Live : "lost" \notin ctor[s]

\* Refuted: a refresh that fails "is a no-op and leaves the previous snapshot intact"
\* (ui.hpp:314-316).  It reports the size of a snapshot that was not taken.
RefreshIsWhole == \A p \in previews : preview[p].size = preview[p].uri

=============================================================================
