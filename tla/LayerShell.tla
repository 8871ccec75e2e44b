----------------------------- MODULE LayerShell ------------------------------
(* ext-layer-shell: panels, launchers and wallpapers of foreign clients. A     *)
(* surface without an output takes the first tracked one, or is parked until   *)
(* an output appears; every commit, removal and new output re-arranges the     *)
(* output concerned. Also the kernel's typed surface registry and the popups   *)
(* ext-xdg-shell attaches through it.                                          *)
(*                                                                             *)
(* Clients, the output layout and wlroots' clean-up of a dying surface (its    *)
(* popups go first, then the keyboard focus, then the destroy signal) are the  *)
(* environment.                                                                *)
EXTENDS Arrangement, Lists

CONSTANTS
  Outputs,    \* wlr_output pointers
  Surfaces,   \* wlr_layer_surface_v1 pointers
  Toplevels,  \* xdg toplevels, hosted by ext-xdg-shell for as long as they exist
  Popups,     \* xdg popups
  States,     \* the layer states a client may commit
  Keyboards,  \* the keyboard interactivities it may ask for
  Full,       \* the layout box of an output
  NoOne       \* no output, no surface, no parent

SurfaceState == [anchor: SUBSET Edges, zone: Int, override: Edges \cup {"none"},
                 margin: [Edges \cup {"none"} -> Int]]

\* Pointers to different objects differ.
ASSUME LayerAssumption ==
  /\ States \subseteq SurfaceState
  /\ Full \in [x: Int, y: Int, width: Int, height: Int]
  /\ NoOne \notin Outputs \cup Surfaces \cup Toplevels \cup Popups
  /\ Surfaces \cap Popups = {} /\ Surfaces \cap Toplevels = {} /\ Popups \cap Toplevels = {}

VARIABLES
  active,    \* activate() has run
  layout,    \* the outputs in the kernel's wlr_output_layout, in order of arrival
  outputs,   \* outputs_
  usable,    \* usable_areas_: a function from the outputs that have an entry
  pending,   \* pending_: surfaces parked without an output
  placed,    \* surfaces_: surfaces with a scene node and a LayerSurface
  surf,      \* what wlroots keeps of each layer surface
  focus,     \* the seat's keyboard focus
  hosted,    \* the kernel's surface registry: the surfaces that resolve to a tree
  popup      \* per popup: its parent and whether it has a scene tree

layerVars == <<active, layout, outputs, usable, pending, placed, surf, focus, hosted, popup>>

\* The default state of a new surface reserves nothing.
Fresh == [anchor |-> {}, zone |-> 0, margin |-> [e \in Edges \cup {"none"} |-> 0],
          override |-> "none"]

Gone == [output |-> NoOne, state |-> Fresh, keyboard |-> "none", alive |-> FALSE,
         initialized |-> FALSE, configured |-> FALSE, mapped |-> FALSE]
NoPopup == [parent |-> NoOne, alive |-> FALSE, tree |-> FALSE]

LayerInit ==
  /\ active = FALSE
  /\ layout = <<>> /\ outputs = <<>> /\ pending = <<>> /\ placed = <<>>
  /\ usable = <<>>
  /\ surf = [s \in Surfaces |-> Gone]
  /\ focus = NoOne
  /\ hosted = Toplevels
  /\ popup = [p \in Popups |-> NoPopup]

------------------------------------------------------------------------------
(* arrange(output): configure every placed surface on it, each in the area the *)
(* ones before it left, and remember what remains.                             *)

OnOutput(o, pl, sf) == Kept(pl, {s \in Surfaces : sf[s].output = o})

\* What surfaces in these states, one after the other, leave of an output.
Left(states) ==
  LET area[i \in 0 .. Len(states)] ==
        IF i = 0 THEN Full ELSE ApplyExclusive(area[i - 1], states[i])
  IN  area[Len(states)]

Remaining(o, pl, sf) ==
  LET on == OnOutput(o, pl, sf) IN Left([i \in DOMAIN on |-> sf[on[i]].state])

Configured(o, pl, sf) ==
  [s \in Surfaces |-> IF s \in Elements(OnOutput(o, pl, sf))
                      THEN [sf[s] EXCEPT !.configured = TRUE] ELSE sf[s]]

\* usable_area(o) creates the entry it does not find.
WithEntry(us, o, area) == [q \in DOMAIN us \cup {o} |-> IF q = o THEN area ELSE us[q]]

Arrange(o, pl, sf, us) ==
  IF o = NoOne THEN [surf |-> sf, usable |-> us]
  ELSE [surf |-> Configured(o, pl, sf), usable |-> WithEntry(us, o, Remaining(o, pl, sf))]

------------------------------------------------------------------------------
(* The registry: host_surface() associates, the handle's destruction clears,   *)
(* scene_tree_for() resolves. No surface is hosted twice in this code, so the  *)
(* token that protects a newer association never decides.                      *)

HostSurface(h, S) == h \cup S
Unhost(h, S) == h \ S
\* Mutant of SceneTreeFor: every parent resolves.
SceneTreeForAnything(h, s) == TRUE

SceneTreeFor(h, s) == s \in h

\* The popups that outlive S: wlroots destroys a surface's popups before it, and
\* theirs before them.
Children(S) == {p \in Popups : popup[p].alive /\ popup[p].parent \in S}
Under(S) == {p \in Popups : \A T \in SUBSET Popups : Children(S \cup T) \subseteq T => p \in T}
PopupsLeft(S) == [p \in Popups |-> IF p \in Under(S) THEN NoPopup ELSE popup[p]]
PopupsGone(now) == {p \in Popups : ~now[p].alive}

------------------------------------------------------------------------------
(* Outputs.                                                                    *)

\* place() for each surface of `ready`; for those in `failed` no scene node can
\* be created and the surface is closed.
Place(ready, failed, pl, sf) ==
  [placed |-> pl \o Dropped(ready, failed),
   surf   |-> [s \in Surfaces |-> IF s \in failed THEN Gone ELSE sf[s]]]

\* Mutant of TrackOutput: arranges, then adopts.
TrackOutputArrangesFirst(st, o, failed) ==
  IF o \in Elements(st.outputs) THEN st
  ELSE LET done    == Arrange(o, st.placed, st.surf, st.usable)
           adopted == [s \in Surfaces |-> IF s \in Elements(st.pending)
                                          THEN [done.surf[s] EXCEPT !.output = o]
                                          ELSE done.surf[s]]
           there   == Place(st.pending, failed, st.placed, adopted)
       IN [outputs |-> Append(st.outputs, o), pending |-> <<>>, placed |-> there.placed,
           surf |-> there.surf, usable |-> done.usable]

\* track_output: adopt the parked surfaces, then arrange.
TrackOutput(st, o, failed) ==
  IF o \in Elements(st.outputs) THEN st
  ELSE LET adopted == [s \in Surfaces |-> IF s \in Elements(st.pending)
                                          THEN [st.surf[s] EXCEPT !.output = o]
                                          ELSE st.surf[s]]
           there   == Place(st.pending, failed, st.placed, adopted)
           done    == Arrange(o, there.placed, there.surf, st.usable)
       IN [outputs |-> Append(st.outputs, o), pending |-> <<>>, placed |-> there.placed,
           surf |-> done.surf, usable |-> done.usable]

Tracking == [outputs |-> outputs, pending |-> pending, placed |-> placed,
             surf |-> surf, usable |-> usable]

Become(st, pops) ==
  /\ popup' = pops
  /\ outputs' = st.outputs /\ pending' = st.pending /\ placed' = st.placed
  /\ surf' = st.surf /\ usable' = st.usable
  /\ hosted' = HostSurface(Unhost(hosted, Elements(placed) \cup PopupsGone(popup')),
                           Elements(st.placed))

\* activate() seeds the outputs that arrived while nobody listened.
TrackAll(st, arrived) ==
  LET seeded[i \in 0 .. Len(arrived)] ==
        IF i = 0 THEN st ELSE TrackOutput(seeded[i - 1], arrived[i], {})
  IN  seeded[Len(arrived)]

SeedOutputs == TrackAll(Tracking, layout)

Activate ==
  /\ ~active
  /\ active' = TRUE
  /\ Become(SeedOutputs, popup)
  /\ UNCHANGED <<layout, focus>>

OutputAdded(o) ==
  /\ o \notin Elements(layout)
  /\ layout' = Append(layout, o)
  /\ \/ /\ ~active
        /\ UNCHANGED <<outputs, usable, pending, placed, surf, hosted, popup>>
     \/ /\ active
        /\ \E failed \in SUBSET Elements(pending) :
             Become(TrackOutput(Tracking, o, failed), PopupsLeft(failed))
  /\ UNCHANGED <<active, focus>>

\* Mutant of Close: the area is taken before the surface is erased.
CloseArrangesFirst(st, s) ==
  LET done == Arrange(st.surf[s].output, st.placed, st.surf, st.usable)
  IN [st EXCEPT !.placed = Dropped(@, {s}), !.surf = [done.surf EXCEPT ![s] = Gone],
                !.usable = done.usable]

\* A destroyed surface leaves surfaces_ before its output is arranged again.
Close(st, s) ==
  LET left == Dropped(st.placed, {s})
      done == Arrange(st.surf[s].output, left, [st.surf EXCEPT ![s] = Gone], st.usable)
  IN [st EXCEPT !.placed = left, !.surf = done.surf, !.usable = done.usable]

CloseAll(st, doomed) ==
  LET left[i \in 0 .. Len(doomed)] ==
        IF i = 0 THEN st ELSE Close(left[i - 1], doomed[i])
  IN  left[Len(doomed)]

\* Mutant of OutputRemoved: closes while it walks surfaces_, and skips the second surface.
OutputRemovedSkips(o) ==
  /\ o \in Elements(layout)
  /\ layout' = Dropped(layout, {o})
  /\ \/ /\ ~active
        /\ UNCHANGED <<outputs, usable, pending, placed, surf, focus, hosted, popup>>
     \/ /\ active
        /\ LET on        == OnOutput(o, placed, surf)
               doomed    == SubSeq(on, 1, IF Len(on) > 1 THEN 1 ELSE Len(on))
               forgotten == [Tracking EXCEPT !.outputs = Dropped(outputs, {o}),
                               !.usable = [q \in DOMAIN usable \ {o} |-> usable[q]]]
           IN /\ Become(CloseAll(forgotten, doomed), PopupsLeft(Elements(doomed)))
              /\ focus' = IF focus \in Elements(doomed) THEN NoOne ELSE focus
  /\ UNCHANGED active

\* on_output_removed: forget the output, then close every surface on it.
OutputRemoved(o) ==
  /\ o \in Elements(layout)
  /\ layout' = Dropped(layout, {o})
  /\ \/ /\ ~active
        /\ UNCHANGED <<outputs, usable, pending, placed, surf, focus, hosted, popup>>
     \/ /\ active
        /\ LET doomed    == OnOutput(o, placed, surf)
               forgotten == [Tracking EXCEPT !.outputs = Dropped(outputs, {o}),
                               !.usable = [q \in DOMAIN usable \ {o} |-> usable[q]]]
           IN /\ Become(CloseAll(forgotten, doomed), PopupsLeft(Elements(doomed)))
              /\ focus' = IF focus \in Elements(doomed) THEN NoOne ELSE focus
  /\ UNCHANGED active

------------------------------------------------------------------------------
(* Layer surfaces.                                                             *)

NewSurface(s, o) ==
  /\ active /\ ~surf[s].alive /\ o \in Elements(layout) \cup {NoOne}
  /\ LET there == [surf EXCEPT ![s] = [Gone EXCEPT !.alive = TRUE,
                     !.output = IF o = NoOne /\ outputs # <<>> THEN Head(outputs) ELSE o]]
     IN IF there[s].output = NoOne
        THEN Become([Tracking EXCEPT !.pending = Append(pending, s), !.surf = there], popup)
        ELSE \E failed \in SUBSET {s} :
               LET done == Place(<<s>>, failed, placed, there)
               IN Become([Tracking EXCEPT !.placed = done.placed, !.surf = done.surf], popup)
  /\ UNCHANGED <<active, layout, focus>>

\* wlroots' side of a commit: without a buffer it is the initial commit, or it
\* unmaps the surface, which then starts over.
Committed(s, state, keyboard, buffer) ==
  LET unmaps == surf[s].mapped /\ ~buffer
  IN [surf[s] EXCEPT !.state = state, !.keyboard = keyboard, !.mapped = buffer,
                     !.initialized = ~unmaps, !.configured = @ /\ ~unmaps]

\* The commit listener: arrange, then update_keyboard_focus. A parked surface
\* has no commit listener. A buffer may only follow a configure.
Commit(s, state, keyboard, buffer) ==
  /\ surf[s].alive
  /\ buffer => surf[s].initialized /\ surf[s].configured
  /\ LET now    == Committed(s, state, keyboard, buffer)
         unmaps == surf[s].mapped /\ ~buffer
         kept   == IF unmaps /\ focus = s THEN NoOne ELSE focus
         after  == [Tracking EXCEPT !.surf[s] = now]
         done   == Arrange(now.output, placed, after.surf, usable)
     IN IF s \in Elements(placed)
        THEN /\ Become([after EXCEPT !.surf = done.surf, !.usable = done.usable],
                       IF unmaps THEN PopupsLeft({s}) ELSE popup)
             /\ focus' = IF buffer /\ keyboard = "exclusive" THEN s ELSE kept
        ELSE /\ Become(after, popup)
             /\ focus' = kept
  /\ UNCHANGED <<active, layout>>

\* The destroy handler of a parked surface, or of a placed one.
Destroy(s) ==
  /\ surf[s].alive
  /\ Become(IF s \in Elements(pending)
            THEN [Tracking EXCEPT !.pending = Dropped(pending, {s}), !.surf[s] = Gone]
            ELSE Close(Tracking, s), PopupsLeft({s}))
  /\ focus' = IF focus = s THEN NoOne ELSE focus
  /\ UNCHANGED <<active, layout>>

\* focus_on_demand_at: a button or a finger goes down on the surface itself.
FocusOnDemandAt(s) ==
  /\ s \in Elements(placed) /\ surf[s].mapped /\ surf[s].keyboard = "on_demand"
  /\ focus' = s
  /\ UNCHANGED <<active, layout, outputs, usable, pending, placed, surf, hosted, popup>>

\* ext-xdg-shell focuses a toplevel.
FocusToplevel(t) ==
  /\ focus' = t
  /\ UNCHANGED <<active, layout, outputs, usable, pending, placed, surf, hosted, popup>>

------------------------------------------------------------------------------
(* Popups (ext-xdg-shell). wlroots announces one when it is created; a layer   *)
(* surface becomes its parent by a later get_popup request.                    *)

HandleNewPopup(p, parent) ==
  /\ active /\ ~popup[p].alive
  /\ parent \in Popups => popup[parent].alive
  /\ LET tree == parent # NoOne /\ SceneTreeFor(hosted, parent)
     IN /\ popup' = [popup EXCEPT ![p] = [parent |-> parent, alive |-> TRUE, tree |-> tree]]
        /\ hosted' = IF tree THEN HostSurface(hosted, {p}) ELSE hosted
  /\ UNCHANGED <<active, layout, outputs, usable, pending, placed, surf, focus>>

\* The layer surface's new_popup signal: "bound for completeness".
GetPopup(p, s) ==
  /\ popup[p].alive /\ popup[p].parent = NoOne /\ surf[s].alive
  /\ popup' = [popup EXCEPT ![p].parent = s]
  /\ UNCHANGED <<active, layout, outputs, usable, pending, placed, surf, focus, hosted>>

DestroyPopup(p) ==
  /\ popup[p].alive
  /\ popup' = [PopupsLeft({p}) EXCEPT ![p] = NoPopup]
  /\ hosted' = Unhost(hosted, PopupsGone(popup'))
  /\ UNCHANGED <<active, layout, outputs, usable, pending, placed, surf, focus>>

LayerNext ==
  \/ Activate
  \/ \E o \in Outputs : OutputAdded(o) \/ OutputRemoved(o)
  \/ \E s \in Surfaces :
       \/ \E o \in Outputs \cup {NoOne} : NewSurface(s, o)
       \/ \E state \in States, keyboard \in Keyboards,
            buffer \in BOOLEAN : Commit(s, state, keyboard, buffer)
       \/ Destroy(s)
       \/ FocusOnDemandAt(s)
  \/ \E t \in Toplevels : FocusToplevel(t)
  \/ \E p \in Popups :
       \/ \E parent \in Toplevels \cup (Popups \ {p}) \cup {NoOne} : HandleNewPopup(p, parent)
       \/ \E s \in Surfaces : GetPopup(p, s)
       \/ DestroyPopup(p)

LayerSpec == LayerInit /\ [][LayerNext]_layerVars

------------------------------------------------------------------------------
(* Properties.                                                                 *)

(* The lists stay lists of distinct live surfaces: a surface is parked or      *)
(* placed, never both; the registry resolves exactly what has a tree, and the  *)
(* keyboard is never with a layer surface that is not on screen.               *)
LayerTypeOK ==
  /\ NoDuplicates(placed) /\ NoDuplicates(pending)
  /\ Elements(placed) \cap Elements(pending) = {}
  /\ Elements(placed) \cup Elements(pending) = {s \in Surfaces : surf[s].alive}
  /\ Elements(outputs) = (IF active THEN Elements(layout) ELSE {})
  /\ hosted = Toplevels \cup Elements(placed) \cup {p \in Popups : popup[p].tree}
  /\ focus \in Surfaces => focus \in Elements(placed) /\ surf[focus].mapped
  /\ DOMAIN usable \subseteq Outputs

(* The area kept for an output is what its live surfaces leave of it now:      *)
(* whatever was committed, destroyed, adopted or unplugged in between, no      *)
(* reservation of a gone or moved surface lingers (arrange, line 159).         *)
UsableIsCurrent ==
  \A o \in Elements(outputs) :
    o \in DOMAIN usable /\ usable[o] = Remaining(o, placed, surf)

(* A client that made its initial commit is answered: it has been configured,  *)
(* unless there is no output at all and it is parked (line 195, and the        *)
(* regression test_client.cpp:29 guards against).                              *)
NobodyWaits ==
  \A s \in Surfaces : surf[s].initialized =>
    IF s \in Elements(pending) THEN outputs = <<>> ELSE surf[s].configured

(* Closing is complete: a placed surface is on an output that still exists.    *)
PlacedOnTracked == \A s \in Elements(placed) : surf[s].output \in Elements(outputs)

(* A popup hangs under the tree of a parent that is still hosted: the borrowed *)
(* tree scene_tree_for returned never outlives its owner.                      *)
TreesHangTogether ==
  \A p \in Popups : popup[p].tree => popup[p].parent \in hosted

(* What ext-layer-shell.md:37 says of popups: one whose parent is hosted is    *)
(* attached to the parent's tree. get_popup assigns the parent after           *)
(* handle_new_popup looked for it, and the new_popup listener does nothing.    *)
PopupsAttach ==
  \A p \in Popups : popup[p].parent # NoOne /\ SceneTreeFor(hosted, popup[p].parent)
                      => popup[p].tree

(* What the comment at ext_layer_shell.cpp:342 says, "N == #outputs": the      *)
(* entry erased when an output vanishes comes back when the surfaces on it are *)
(* closed, because each destroy handler arranges the dead output.              *)
EntriesAreOutputs == DOMAIN usable = Elements(outputs)
==============================================================================
