--------------------------- MODULE ExtensionHost ---------------------------
(***************************************************************************)
(* The extension host (kernel/src/server.cpp): installation, activation in *)
(* dependency order, and the order in which extensions are destroyed.      *)
(*                                                                         *)
(* What an extension does with its dependencies is abstracted to the hooks *)
(* it subscribes to: a Subscription is a member that calls its hook when   *)
(* it is destroyed (hooks.hpp, Subscription::reset), so the hook has to be *)
(* there still.                                                            *)
(***************************************************************************)
EXTENDS Integers, FiniteSets, Lists

CONSTANT Extensions   \* every extension a composition root may install

ASSUME HostAssumption == IsFiniteSet(Extensions)

VARIABLES
  depends_on,  \* the manifests: [Extensions -> SUBSET Extensions]
  tier,        \* the manifests: [Extensions -> {0 (core), 1 (standard)}]
  extensions,  \* installed, in install order
  extensions_activated,
  order,       \* the computed activation order that is left to activate
  active,      \* activated, in activation order
  failed,      \* an exception left activate_extensions()
  alive,       \* extension objects that exist
  subs,        \* <<subscriber, owner>>: a Subscription held on a hook of owner
  destroyed    \* destroyed, in order

manifests == <<depends_on, tier>>
hostVars == <<manifests, extensions, extensions_activated, order, active, failed, alive, subs,
          destroyed>>

Installed == Elements(extensions)
Active == Elements(active)
Index(e) == CHOOSE i \in DOMAIN extensions : extensions[i] = e
Before(s, a, b) ==
  \E i, j \in DOMAIN s : i < j /\ s[i] = a /\ s[j] = b

-----------------------------------------------------------------------------
(* activate_extensions(): Kahn's algorithm. *)

Rank(e) == <<tier[e], Index(e)>>
Below(a, b) == \/ Rank(a)[1] < Rank(b)[1]
               \/ Rank(a)[1] = Rank(b)[1] /\ Rank(a)[2] < Rank(b)[2]

\* Mutant of Ready: one dependency is enough.
ReadyAfterOne(done) ==
  {e \in Installed \ done :
     depends_on[e] = {} \/ depends_on[e] \cap done # {}}

\* Not picked yet, indegree 0.
Ready(done) == {e \in Installed \ done : depends_on[e] \subseteq done}

Pick(ready) == CHOOSE e \in ready : \A other \in ready \ {e} : Below(e, other)

\* The first n picks; fewer when nothing is ready.
Picks[n \in 0 .. Len(extensions)] ==
  IF n = 0 THEN <<>>
  ELSE LET picked == Picks[n - 1]
           ready == Ready(Elements(picked))
       IN  IF ready = {} THEN picked ELSE Append(picked, Pick(ready))

Topological == Picks[Len(extensions)]
MissingDependency == \E e \in Installed : ~(depends_on[e] \subseteq Installed)
HasCycle == Len(Topological) < Len(extensions)

-----------------------------------------------------------------------------
HostInit ==
  /\ depends_on \in [Extensions -> SUBSET Extensions]
  /\ tier \in [Extensions -> {0, 1}]
  /\ extensions = <<>>
  /\ extensions_activated = FALSE
  /\ order = <<>>
  /\ active = <<>>
  /\ failed = FALSE
  /\ alive = {}
  /\ subs = {}
  /\ destroyed = <<>>

\* install() throws, and changes nothing, after activation or for a known id.
Install(e) ==
  /\ ~extensions_activated /\ destroyed = <<>>
  /\ e \notin Installed
  /\ extensions' = Append(extensions, e)
  /\ alive' = alive \cup {e}
  /\ UNCHANGED <<manifests, extensions_activated, order, active, failed, subs, destroyed>>

\* activate_extensions() up to the first activate(): a missing dependency or a cycle
\* throws before any extension ran.
Activate ==
  /\ ~extensions_activated /\ destroyed = <<>>
  /\ extensions_activated' = TRUE
  /\ IF MissingDependency \/ HasCycle
     THEN failed' = TRUE /\ UNCHANGED order
     ELSE order' = Topological /\ UNCHANGED failed
  /\ UNCHANGED <<manifests, extensions, active, alive, subs, destroyed>>

\* activate() of the next extension, which subscribes to hooks of what it depends on.
ActivateNext(owners) ==
  /\ order # <<>> /\ ~failed
  /\ LET e == Head(order)
     IN  /\ owners \subseteq depends_on[e]
         /\ active' = Append(active, e)
         /\ subs' = subs \cup ({e} \X owners)
  /\ order' = Tail(order)
  /\ UNCHANGED <<manifests, extensions, extensions_activated, failed, alive, destroyed>>

\* activate() throws: startup is aborted.  What it had subscribed to stays with it.
ActivateThrows(owners) ==
  /\ order # <<>> /\ ~failed
  /\ owners \subseteq depends_on[Head(order)]
  /\ subs' = subs \cup ({Head(order)} \X owners)
  /\ failed' = TRUE
  /\ order' = <<>>
  /\ UNCHANGED <<manifests, extensions, extensions_activated, active, alive, destroyed>>

\* Mutant of DestroyNext: extensions are destroyed as they were installed.
DestroyFirst ==
  /\ alive # {}
  /\ order = <<>>
  /\ LET i == CHOOSE i \in DOMAIN extensions :
                /\ extensions[i] \in alive
                /\ \A j \in DOMAIN extensions : extensions[j] \in alive => i <= j
     IN  /\ alive' = alive \ {extensions[i]}
         /\ subs' = {s \in subs : s[1] # extensions[i]}
         /\ destroyed' = Append(destroyed, extensions[i])
  /\ UNCHANGED <<manifests, extensions, extensions_activated, order, active, failed>>

\* shutdown(): the last installed extension that is left goes, with its members.  The
\* session is over, or never started.
DestroyNext ==
  /\ alive # {}
  /\ order = <<>>
  /\ LET i == CHOOSE i \in DOMAIN extensions :
                /\ extensions[i] \in alive
                /\ \A j \in DOMAIN extensions : extensions[j] \in alive => j <= i
     IN  /\ alive' = alive \ {extensions[i]}
         /\ subs' = {s \in subs : s[1] # extensions[i]}
         /\ destroyed' = Append(destroyed, extensions[i])
  /\ UNCHANGED <<manifests, extensions, extensions_activated, order, active, failed>>

HostNext ==
  \/ \E e \in Extensions : Install(e)
  \/ Activate
  \/ \E owners \in SUBSET Extensions : ActivateNext(owners) \/ ActivateThrows(owners)
  \/ DestroyNext

HostSpec == HostInit /\ [][HostNext]_hostVars

-----------------------------------------------------------------------------
HostTypeOK ==
  /\ depends_on \in [Extensions -> SUBSET Extensions]
  /\ tier \in [Extensions -> {0, 1}]
  /\ {extensions, order, active, destroyed} \subseteq Seq(Extensions)
  /\ extensions_activated \in BOOLEAN
  /\ failed \in BOOLEAN
  /\ alive \subseteq Extensions
  /\ subs \subseteq alive \X Extensions

\* An extension starts when everything it depends on has started, so that the services
\* and hooks it fetches are there (extension.hpp "ids that must activate before this").
DependenciesActiveFirst ==
  \A i \in DOMAIN active : depends_on[active[i]] \subseteq {active[j] : j \in 1 .. i - 1}

\* A session runs whole or not at all: a manifest set with a hole or a circle activates
\* nobody, and otherwise everybody's turn comes exactly once.
AllOrNothing ==
  /\ \A i, j \in DOMAIN (active \o order) :
       (active \o order)[i] = (active \o order)[j] => i = j
  /\ active # <<>> => ~MissingDependency /\ ~HasCycle
  /\ extensions_activated /\ ~failed => Elements(active \o order) = Installed

\* A core extension activates after a standard one only when it waits for something
\* that is not active before that one: tiers order what dependencies leave open
\* (extension.hpp "Lower tiers activate first").
TiersOrderTheRest ==
  \A i, j \in DOMAIN active :
    i < j /\ tier[active[i]] = 1 /\ tier[active[j]] = 0 =>
      \E k \in i .. j - 1 : active[k] \in depends_on[active[j]]

\* If dependencies were installed before their dependents, no extension outlives the
\* owner of a hook it is subscribed to (server.cpp:423-427).
HooksOutliveSubscriptions ==
  (\A e \in Installed, d \in Installed : d \in depends_on[e] => Before(extensions, d, e))
    => \A s \in subs : s[2] \in alive

=============================================================================
