----------------------------- MODULE FileWatcher -----------------------------
(***************************************************************************)
(* The one inotify watcher of the kernel (kernel/src/file_watcher.cpp) and  *)
(* the part of a file system it looks at.                                  *)
(*                                                                         *)
(* The operations of the watcher are operators on its record, because a    *)
(* callback calls them in the middle of a dispatch:                        *)
(*   started    fd_ and source_ are open                                   *)
(*   entries    entries_, [live tokens -> [dir, base, who]]                *)
(*   next_token next_token_                                                *)
(*   armed      the directories inotify watches                            *)
(*   wd_dirs    the directories whose watch descriptor is on record        *)
(*   events     files with an event in the queue that has not been read    *)
(*   fresh      history: directories created since they were last looked at *)
(*                                                                         *)
(* A watch descriptor is the directory it stands for: clearing wd_dirs_     *)
(* makes every queued event one of a descriptor nobody knows, so the queue  *)
(* is as good as empty.  Two spellings of one directory are left out.      *)
(* External: inotify reports IN_CREATE, IN_CLOSE_WRITE and IN_MOVED_TO.     *)
(***************************************************************************)
EXTENDS Naturals, FiniteSets

CONSTANTS
  Dirs, Files,
  DirOf,          \* [Files -> Dirs]
  AnyFile,        \* the empty basename of a directory watch
  InPlace,        \* files an editor may open and write in place
  Removable,      \* the directories that may come and go
  Complete,       \* [Files -> contents of the file when it was saved]
  MaxToken        \* bound: watches ever registered

Absent == "absent"
Torn == "torn"        \* being written
Contents == (UNION {Complete[f] : f \in Files}) \cup {Absent, Torn}

NoToken == 0          \* invalid_token, an inactive FileWatch

ASSUME FilesAssumption ==
  /\ DirOf \in [Files -> Dirs] /\ AnyFile \notin Files
  /\ InPlace \subseteq Files /\ Removable \subseteq Dirs
  /\ \A f \in Files : Complete[f] \cap {Absent, Torn} = {}
  /\ MaxToken \in Nat

VARIABLES
  existing,       \* directories that exist
  content,        \* [Files -> Contents]
  watcher,
  to_fire,        \* tokens the dispatch that is going on has yet to call
  missed          \* history: tokens that were not told of a change of their file

fs == <<existing, content>>

Live(w) == DOMAIN w.entries
Matches(entry, f) == entry.dir = DirOf[f] /\ entry.base \in {f, AnyFile}
Watching(w, f) == {t \in Live(w) : Matches(w.entries[t], f)}

-----------------------------------------------------------------------------
Idle == [started |-> FALSE, entries |-> <<>>, next_token |-> 0,
         armed |-> {}, wd_dirs |-> {}, events |-> {}, fresh |-> {}]

\* arm_dir(): a directory that is not there is not watched.
ArmDir(w, dir) == [w EXCEPT !.armed = @ \cup ({dir} \cap existing),
                            !.wd_dirs = @ \cup ({dir} \cap existing),
                            !.fresh = @ \ {dir}]

\* add(), add_dir(): the handle gets the token w.next_token + 1.
Add(w, entry) ==
  LET token == w.next_token + 1 IN
  ArmDir([w EXCEPT !.started = TRUE, !.next_token = token,
                   !.entries = [t \in Live(w) \cup {token} |->
                                  IF t = token THEN entry ELSE w.entries[t]]],
         entry.dir)

\* Mutant of RemoveWatch: the directories in use are not armed again.
RemoveUnarmed(w, token) ==
  IF token \notin Live(w) THEN w
  ELSE IF Live(w) = {token} THEN [Idle EXCEPT !.next_token = w.next_token]
  ELSE [w EXCEPT !.entries = [t \in Live(w) \ {token} |-> w.entries[t]],
                 !.armed = {}, !.wd_dirs = {}, !.events = {}, !.fresh = {}]

\* remove_watch() with stop_if_idle(): every descriptor is dropped and the
\* directories still in use are armed again.
RemoveWatch(w, token) ==
  IF token \notin Live(w) THEN w
  ELSE IF Live(w) = {token} THEN [Idle EXCEPT !.next_token = w.next_token]
  ELSE LET left == Live(w) \ {token}
           dirs == {w.entries[t].dir : t \in left} \cap existing
       IN  [w EXCEPT !.entries = [t \in left |-> w.entries[t]],
                     !.armed = dirs, !.wd_dirs = dirs, !.events = {}, !.fresh = {}]

\* The watches that lose a queued event to RemoveWatch.
Unheard(w, token) ==
  IF token \in Live(w)
  THEN (UNION {Watching(w, f) : f \in w.events}) \ {token} ELSE {}

-----------------------------------------------------------------------------
FilesInit ==
  /\ existing \in {Dirs \ gone : gone \in SUBSET Removable}
  /\ content \in [Files -> Contents \ {Torn}]
  /\ \A f \in Files : content[f] \in {Absent} \cup (IF DirOf[f] \in existing THEN Complete[f] ELSE {})

\* A write that inotify has an event for.  In a directory that was created after it was
\* last armed, nobody learns of it.
Written(f, c) ==
  /\ content' = [content EXCEPT ![f] = c]
  /\ watcher' = IF DirOf[f] \in watcher.armed
                THEN [watcher EXCEPT !.events = @ \cup {f}] ELSE watcher
  /\ missed' = IF DirOf[f] \in watcher.fresh THEN missed \cup Watching(watcher, f)
               ELSE missed
  /\ UNCHANGED <<existing, to_fire>>

\* An editor opens the file to write in place: no event, unless the file is new.
OpenToWrite(f) ==
  /\ DirOf[f] \in existing /\ content[f] # Torn
  /\ IF content[f] = Absent THEN Written(f, Torn)
     ELSE /\ content' = [content EXCEPT ![f] = Torn]
          /\ UNCHANGED <<existing, watcher, to_fire, missed>>

CloseWritten(f, c) == content[f] = Torn /\ Written(f, c)

\* An editor renames a temporary file over it.
RenameOver(f, c) == DirOf[f] \in existing /\ Written(f, c)

\* Deleting is not among the events asked for; a directory takes its watch along.
Delete(f) ==
  /\ content[f] # Absent
  /\ content' = [content EXCEPT ![f] = Absent]
  /\ UNCHANGED <<existing, watcher, to_fire, missed>>

DirRemoved(d) ==
  /\ d \in existing
  /\ existing' = existing \ {d}
  /\ content' = [f \in Files |-> IF DirOf[f] = d THEN Absent ELSE content[f]]
  /\ watcher' = [watcher EXCEPT !.armed = @ \ {d}]
  /\ UNCHANGED <<to_fire, missed>>

DirCreated(d) ==
  /\ d \notin existing
  /\ existing' = existing \cup {d}
  /\ watcher' = [watcher EXCEPT !.fresh = @ \cup {d}]
  /\ UNCHANGED <<content, to_fire, missed>>

Saves ==
  \/ \E f \in InPlace : OpenToWrite(f)
  \/ \E f \in Files : Delete(f)
  \/ \E f \in Files : \E c \in Complete[f] : CloseWritten(f, c) \/ RenameOver(f, c)
  \/ \E d \in Removable : DirRemoved(d) \/ DirCreated(d)

\* Mutant of Drain: an event of a directory watch must name its file.
DrainFilesOnly ==
  /\ to_fire = {} /\ watcher.events # {}
  /\ to_fire' = UNION {{t \in Watching(watcher, f) : watcher.entries[t].base = f} :
                         f \in {g \in watcher.events : DirOf[g] \in watcher.wd_dirs}}
  /\ watcher' = [watcher EXCEPT !.events = {}]
  /\ UNCHANGED <<fs, missed>>

\* on_readable(), up to the callbacks: all events are read and every watch that
\* matches one is called once.
Drain ==
  /\ to_fire = {} /\ watcher.events # {}
  /\ to_fire' = UNION {Watching(watcher, f) :
                         f \in {g \in watcher.events : DirOf[g] \in watcher.wd_dirs}}
  /\ watcher' = [watcher EXCEPT !.events = {}]
  /\ UNCHANGED <<fs, missed>>
=============================================================================
