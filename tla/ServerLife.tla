----------------------------- MODULE ServerLife -----------------------------
(***************************************************************************)
(* The life of the compositor around its extensions (kernel/src/server.cpp *)
(* and the GL bridge of ui_substrate.cpp): init() builds the parts one     *)
(* after the other and may fail at most of them, extensions come and run,  *)
(* and shutdown() takes apart what there is.                               *)
(*                                                                         *)
(* A part is an object, or a group of listeners, that has to go before     *)
(* what it Uses.  An extension may hold whatever its Host hands out.       *)
(*                                                                         *)
(* External, of wlroots: destroying the display takes the seat, the output *)
(* layout and the socket with it, the scene its trees, the backend its     *)
(* outputs and devices; the end of the last client moves the seat's        *)
(* pointer focus, and a device that goes calls its handlers here.          *)
(***************************************************************************)
EXTENDS ExtensionHost

VARIABLES
  phase,      \* "starting", "running", "stopping", "over"
  step,       \* steps of Startup, or of Teardown, that are done
  up,         \* the parts that exist
  available   \* GlBridge::ok: extensions can have surfaces

life == <<phase, step, up, available>>

\* init(), in its order, with start_substrate() and GlBridge::init() at its end.
Startup ==
  <<"display", "backend", "renderer", "allocator", "output_layout", "new_output", "scene",
    "scene_layout", "scene_layers", "cursor", "cursor_mgr", "cursor_handlers", "new_input",
    "seat", "seat_handlers", "socket", "devices", "watcher", "egl_context", "render_iface",
    "rml", "substrate">>

NeverFails == {"new_output", "cursor_handlers", "new_input", "seat_handlers", "watcher", "substrate"}
OfGlBridge == {"egl_context", "render_iface", "rml"}

SeatHandlers == {"seat", "cursor", "cursor_mgr"}
HandedOut ==
  {"display", "scene", "seat", "cursor", "cursor_mgr", "output_layout", "scene_layers",
   "substrate", "watcher"}

Uses(part) ==
  CASE part \in {"backend", "output_layout", "seat", "socket", "watcher"} -> {"display"}
    [] part \in {"new_output", "new_input", "renderer"} -> {"backend"}
    [] part = "allocator" -> {"backend", "renderer"}
    [] part = "scene_layout" -> {"scene", "output_layout"}
    [] part = "scene_layers" -> {"scene"}
    [] part = "cursor" -> {"output_layout"}
    [] part = "cursor_handlers" -> {"cursor"}
    [] part = "seat_handlers" -> SeatHandlers
    [] part = "devices" -> {"backend", "seat"}
    [] part = "clients" -> {"socket", "seat"}
    [] part = "egl_context" -> {"renderer"}
    [] part = "render_iface" -> {"egl_context"}
    [] part = "rml" -> {"render_iface"}
    [] part = "substrate" -> {"renderer", "allocator", "scene_layers", "watcher"}
    [] OTHER -> {}

\* teardown() of the GL bridge.
GlTeardown == <<{"rml"}, {"render_iface"}, {"egl_context"}>>

Listeners == {"new_output", "new_input", "cursor_handlers", "seat_handlers"}

\* Mutant of Teardown: the clients go after the listeners' objects, as if they had none.
TeardownClientsLast ==
  GlTeardown \o
  <<{"substrate"}, {"watcher"}, {"scene", "scene_layout", "scene_layers"}, {"cursor_mgr"},
    {"cursor"}, {"clients"}, Listeners, {"allocator"}, {"renderer"}, {"backend", "devices"},
    {"display", "seat", "output_layout", "socket"}>>

\* shutdown(), once the extensions are gone.
Teardown ==
  GlTeardown \o
  <<{"substrate"}, {"watcher"}, {"clients"}, Listeners,
    {"scene", "scene_layout", "scene_layers"}, {"cursor_mgr"}, {"cursor"}, {"allocator"},
    {"renderer"}, {"backend", "devices"}, {"display", "seat", "output_layout", "socket"}>>

-----------------------------------------------------------------------------
LifeInit ==
  /\ HostInit
  /\ phase = "starting" /\ step = 0 /\ up = {} /\ available = FALSE

\* The next part is there; with the last one Server::create() returns.
StartNext ==
  /\ phase = "starting"
  /\ step' = step + 1
  /\ up' = up \cup {Startup[step']}
  /\ available' = (Startup[step'] = "rml" \/ available)
  /\ phase' = IF step' = Len(Startup) THEN "running" ELSE phase
  /\ UNCHANGED hostVars

\* A part that cannot be had ends init(), and create() shuts down.  A backend that fails
\* to start may have announced some of its devices.
StartFails ==
  /\ phase = "starting"
  /\ Startup[step + 1] \notin NeverFails \cup OfGlBridge
  /\ up' \in {up} \cup IF Startup[step + 1] = "devices" THEN {up \cup {"devices"}} ELSE {}
  /\ phase' = "stopping" /\ step' = 0
  /\ UNCHANGED <<hostVars, available>>

\* GlBridge::init() fails: the substrate is there and not available.  What init() got so far
\* stays for teardown(), except that without a font RmlUi is shut down again.
GlFails ==
  /\ phase = "starting"
  /\ \/ Startup[step + 1] \in OfGlBridge /\ UNCHANGED up
     \/ available /\ up' = up \ {"rml"}
  /\ available' = FALSE
  /\ step' = Len(Startup) - 1
  /\ UNCHANGED <<hostVars, phase>>

\* The session: installation, activation, clients.
Serve ==
  /\ phase = "running"
  /\ \/ \E e \in Extensions : Install(e)
     \/ Activate
     \/ \E owners \in SUBSET Extensions : ActivateNext(owners) \/ ActivateThrows(owners)
  /\ UNCHANGED life

ClientConnects ==
  /\ phase = "running"
  /\ "clients" \notin up
  /\ up' = up \cup {"clients"}
  /\ UNCHANGED <<hostVars, phase, step, available>>

\* ~Server(): the session is over, or activation threw out of run().
Stop ==
  /\ phase = "running"
  /\ order = <<>>
  /\ phase' = "stopping" /\ step' = 0
  /\ UNCHANGED <<hostVars, up, available>>

DestroyExtension == phase = "stopping" /\ DestroyNext /\ UNCHANGED life

ExtensionsGone == alive = {}

\* The next step of shutdown(); parts that are not there are passed over.
TearDown ==
  /\ phase = "stopping"
  /\ ExtensionsGone
  /\ step' = step + 1
  /\ up' = up \ Teardown[step']
  /\ phase' = IF step' = Len(Teardown) THEN "over" ELSE phase
  /\ UNCHANGED <<hostVars, available>>

LifeNext ==
  \/ StartNext \/ StartFails \/ GlFails
  \/ Serve \/ ClientConnects \/ Stop
  \/ DestroyExtension \/ TearDown

LifeSpec == LifeInit /\ [][LifeNext]_<<hostVars, life>>

-----------------------------------------------------------------------------
\* Whatever step of the start failed and whatever the session left, nothing is there
\* without what it uses, and nothing at all when shutdown() is done
\* (server.cpp:422-449 "release while the wlr objects they borrow are still alive").
NothingOutlivesWhatItUses ==
  /\ \A part \in up : Uses(part) \subseteq up
  /\ alive # {} => HandedOut \subseteq up
  /\ phase = "over" => up = {} /\ alive = {}

=============================================================================
