------------------------------ MODULE HotReload ------------------------------
(***************************************************************************)
(* What is reloaded when a file changes: the key bindings                  *)
(* (ext-keybindings/src/extension.cpp, reload_config) and the documents of  *)
(* UI surfaces (kernel/src/ui_substrate.cpp, with UNBOX_DEV set), both      *)
(* through the one FileWatcher, next to an extension with watches of its   *)
(* own.                                                                    *)
(*                                                                         *)
(* Other processes write at any moment; the compositor is one thread, so    *)
(* while callbacks of a dispatch are pending nothing else of it runs.      *)
(* A file read while it is written may look like a file of its own.        *)
(***************************************************************************)
EXTENDS FileWatcher, Lists

CONSTANTS
  ConfigFile,
  WatchedByExt,           \* files the other extension may watch
  Surfaces, DocumentOf,   \* [Surfaces -> Files]: resolved_path
  UsableContents                  \* the contents that parse and say something

ASSUME HotReloadAssumption ==
  /\ UsableContents \subseteq Contents \ {Absent, Torn}
  /\ ConfigFile \in Files /\ WatchedByExt \subseteq Files /\ DocumentOf \in [Surfaces -> Files]
  /\ Surfaces \cap {"config", "ext"} = {}

Default == "default"      \* the compiled-in bindings
Partial == "partial"      \* what a file says that is not all there yet
None == "none"            \* a null document

VARIABLES
  bindings,         \* the live table: whose content it was made from
  alive,            \* surfaces that exist, all of them visible
  doc_loaded,       \* those whose first load was tried
  document,         \* [Surfaces -> what the document was made from]
  pending_reloads

surfs == <<alive, doc_loaded, document, pending_reloads>>
reloadVars == <<fs, watcher, to_fire, missed, bindings, surfs>>

WatchesOf(who) == {t \in Live(watcher) : watcher.entries[t].who = who}
MayWatch == watcher.next_token < MaxToken

\* What a reader has after a file was read: a file that is broken or empty changes
\* nothing, one that is half written may do either.
Reread(old, c) ==
  CASE c \in UsableContents -> {c}
    [] c = Torn -> {old, Partial}
    [] OTHER -> {old}

-----------------------------------------------------------------------------
(* ext-keybindings reads the bindings at construction and starts the watch  *)
(* at activation; ReloadInit is the state after both.                            *)

ConfigWatch == [dir |-> DirOf[ConfigFile], base |-> ConfigFile, who |-> "config"]

ReloadInit ==
  /\ FilesInit
  /\ watcher = Add(Idle, ConfigWatch)
  /\ bindings \in Reread(Default, content[ConfigFile])
  /\ missed = {}
  /\ to_fire = {}
  /\ alive = {} /\ doc_loaded = {} /\ pending_reloads = {}
  /\ document = [s \in Surfaces |-> None]

\* Mutant of RereadConfig: the file is not read again, its first content stands.
RereadConfigOnce ==
  bindings' \in IF bindings = Default THEN Reread(bindings, content[ConfigFile]) ELSE {bindings}

\* reload_config().
RereadConfig == bindings' \in Reread(bindings, content[ConfigFile])

-----------------------------------------------------------------------------
(* The UI substrate.                                                       *)

CreateSurface(s) ==
  /\ to_fire = {} /\ s \notin alive
  /\ alive' = alive \cup {s}
  /\ UNCHANGED <<fs, watcher, to_fire, missed, bindings, doc_loaded, document,
                 pending_reloads>>

\* load_document_first(): a document that is there gets a watch on its directory.
FirstLoads == {s \in alive \ doc_loaded : content[DocumentOf[s]] # Absent}
AssetWatch(s) == [dir |-> DirOf[DocumentOf[s]], base |-> AnyFile, who |-> s]
AddAssetWatches(w, order) ==
  LET added[i \in 0 .. Len(order)] ==
        IF i = 0 THEN w ELSE Add(added[i - 1], AssetWatch(order[i]))
  IN  added[Len(order)]

\* tick_all(): the reloads that are due, then the first load of what is new.  A first
\* load that fails is not tried again.
Tick ==
  /\ to_fire = {} /\ alive # {}
  /\ \E reloaded \in [Surfaces -> Contents \cup {Partial, None}] :
       /\ \A s \in Surfaces :
            reloaded[s] \in (IF s \in pending_reloads /\ s \in doc_loaded
                             THEN Reread(document[s], content[DocumentOf[s]])
                             ELSE {document[s]})
       /\ document' = [s \in Surfaces |-> IF s \in FirstLoads THEN content[DocumentOf[s]]
                                          ELSE reloaded[s]]
  /\ pending_reloads' = {}
  /\ doc_loaded' = doc_loaded \cup alive
  /\ \E n \in 0 .. MaxToken - watcher.next_token : \E order \in [1 .. n -> FirstLoads] :
       /\ NoDuplicates(order) /\ Elements(order) = FirstLoads
       /\ watcher' = AddAssetWatches(watcher, order)
  /\ UNCHANGED <<fs, to_fire, missed, bindings, alive>>

\* Mutant of Forgotten: a reload that is due stays due.
ForgottenNot(s) == pending_reloads

\* unwatch_surface().
Forgotten(s) == pending_reloads \ {s}

\* destroy_surface(): the watch goes with the surface.
DestroySurface(s) ==
  /\ s \in alive
  /\ alive' = alive \ {s} /\ doc_loaded' = doc_loaded \ {s}
  /\ document' = [document EXCEPT ![s] = None]
  /\ pending_reloads' = Forgotten(s)
  /\ LET gone == CHOOSE t \in WatchesOf(s) \cup {NoToken} : WatchesOf(s) # {} => t # NoToken IN
       /\ watcher' = RemoveWatch(watcher, gone)
       /\ missed' = missed \cup Unheard(watcher, gone)

-----------------------------------------------------------------------------
(* An extension with watches of its own.                                   *)

Watch(f) ==
  /\ MayWatch
  /\ watcher' = Add(watcher, [dir |-> DirOf[f], base |-> f, who |-> "ext"])
  /\ UNCHANGED <<missed, surfs>>

Unwatch(t) ==
  /\ t \in WatchesOf("ext")
  /\ watcher' = RemoveWatch(watcher, t)
  /\ missed' = missed \cup Unheard(watcher, t)
  /\ UNCHANGED surfs

\* What the extension does, in a callback or out of one.
ExtensionActs ==
  \/ \E f \in WatchedByExt : Watch(f)
  \/ \E t \in Live(watcher) : Unwatch(t)
  \/ \E s \in Surfaces : DestroySurface(s)

-----------------------------------------------------------------------------
\* The callbacks of on_readable(), in the order of a hash table: a watch that an earlier
\* one removed is skipped.  One that throws disables its extension and stays.
Fire(t) ==
  /\ t \in to_fire
  /\ to_fire' = to_fire \ {t}
  /\ \/ /\ t \notin Live(watcher)
        /\ UNCHANGED <<watcher, missed, bindings, surfs>>
     \/ /\ t \in WatchesOf("config")
        /\ RereadConfig
        /\ missed' = missed \ {t}
        /\ UNCHANGED <<watcher, surfs>>
     \/ /\ t \in Live(watcher) /\ watcher.entries[t].who \in Surfaces
        /\ pending_reloads' = pending_reloads \cup {watcher.entries[t].who}
        /\ missed' = missed \ {t}
        /\ UNCHANGED <<watcher, bindings, alive, doc_loaded, document>>
     \/ /\ t \in WatchesOf("ext")
        /\ ExtensionActs \/ UNCHANGED <<watcher, missed, surfs>>
        /\ UNCHANGED bindings
  /\ UNCHANGED fs

Dispatch == Drain /\ UNCHANGED <<bindings, surfs>>
Callbacks == \E t \in to_fire : Fire(t)

ReloadNext ==
  \/ Saves /\ UNCHANGED <<bindings, surfs>>
  \/ Dispatch
  \/ Callbacks
  \/ \E s \in Surfaces : CreateSurface(s)
  \/ Tick
  \/ to_fire = {} /\ ExtensionActs /\ UNCHANGED <<fs, to_fire, bindings>>

ReloadSpec == ReloadInit /\ [][ReloadNext]_reloadVars

\* The event loop: a readable inotify descriptor is dispatched and its callbacks run.
FairSpec == ReloadSpec /\ WF_reloadVars(Dispatch) /\ WF_reloadVars(Callbacks)

-----------------------------------------------------------------------------
NothingQueued == to_fire = {} /\ watcher.events = {}
Informed(who) == WatchesOf(who) # {} /\ WatchesOf(who) \cap missed = {}

\* When the watcher has nothing left to report, the live bindings are those of the file:
\* however it was saved and whatever was registered or removed around it, no change is
\* swallowed, but for the two ways told at ConfigIsWatched.
ConfigIsCurrent ==
  NothingQueued /\ Informed("config") /\ content[ConfigFile] \in UsableContents
    => bindings = content[ConfigFile]

\* The same for the documents, once the reloads that are due were done.
DocumentIsCurrent ==
  \A s \in alive :
    NothingQueued /\ s \notin pending_reloads /\ Informed(s) /\ content[DocumentOf[s]] \in UsableContents
      => document[s] = content[DocumentOf[s]]

\* A reload is due, and a callback can make one due, only for a surface that exists: both
\* hold a bare pointer to it.
ReloadsAreLive ==
  /\ pending_reloads \subseteq alive
  /\ \A t \in Live(watcher) : watcher.entries[t].who \in alive \cup {"config", "ext"}

\* A configuration that is saved and left alone becomes the live one.
ConfigCatchesUp ==
  \A c \in UsableContents :
    <>[](content[ConfigFile] = c /\ Informed("config")) => <>[](bindings = c)

\* host.hpp: on_change is invoked `whenever the file is written' and `also fires when the
\* file is CREATED'.  The code refutes it, in two ways: a watch that is removed takes the
\* queued events of the others with it, and a directory created later is not watched.
ConfigIsWatched == WatchesOf("config") \cap missed = {}
=============================================================================
