--------------------------- MODULE KernelLifecycle ---------------------------
(***************************************************************************)
(* A service on the pluggable kernel: main boots it and serves, signals    *)
(* shut it down.  boot and every shutdown are chains of promises; a signal *)
(* can arrive between any two of their links, also before boot is over and *)
(* while an earlier shutdown goes on.  A rejected shutdown is handled by   *)
(* nobody, which ends the process; so does a boot that failed.             *)
(***************************************************************************)
EXTENDS PluginOrder

CONSTANTS
  Signal,      \* numbers of the signals that may arrive
  Request,
  MaxFaults    \* bound on plugins, services and listeners that fail

ASSUME LifeAssumption == IsFiniteSet(Signal) /\ MaxFaults \in Nat

VARIABLES
  enabled,     \* getPluginsEnabled: a sequence of definitions
  boot,        \* the link boot and serve have reached
  next,        \* loop index of the links that go through the plugins
  initialized, \* how many of the plugins are initialized
  managed,     \* boot has built the PluginManager
  plugins,     \* its map: names in order of insertion
  shutdown,    \* the link each shutdown has reached, with the index of its loop
  container,   \* the services with asyncInit
  server,
  request,
  hooked,      \* history: plugins whose boot hook was called, in order
  late,        \* history: signals that came when the server listened
  exited,      \* the process ended
  faults

lifeVars == <<enabled, boot, next, initialized, managed, plugins, shutdown, container, server,
              request, hooked, late, exited, faults>>
booting == <<boot, next, initialized, managed>>
history == <<hooked, late>>
others == <<enabled, history>>

Idle == [pc |-> "none", i |-> 1]

\* The loops over the plugins.
Advance(i) == i + 1

\* A crash or process.exit, and what it does to those connected.
Exit ==
  /\ exited' = TRUE
  /\ request' = [r \in Request |-> IF request[r] = "open" THEN "cut" ELSE request[r]]

Fault == faults < MaxFaults /\ faults' = faults + 1

-----------------------------------------------------------------------------
(* boot and serve *)

\* A link of boot resolves, or rejects: main exits.
BootLink(from, to) ==
  /\ ~exited /\ boot = from /\ boot' = to
  /\ UNCHANGED <<shutdown, server, request, exited, faults>>

BootFails ==
  /\ ~exited
  /\ \/ boot \in {"buildContainer", "asyncInit", "listen"}
     \/ boot = "loadPlugins" /\ (next = 1 \/ next <= Len(enabled))
     \/ boot = "hooks" /\ next <= Len(plugins)
  /\ Fault
  /\ boot' = "failed"
  /\ Exit
  /\ UNCHANGED <<next, initialized, managed, plugins, shutdown, container, server>> /\ UNCHANGED others

BuildContainer ==
  /\ BootLink("buildContainer", "asyncInit")
  /\ UNCHANGED <<next, initialized, managed, plugins, container>> /\ UNCHANGED others

\* The services are there; middlewares and routes are mounted and the plugin
\* manager is built in the same turn, from here on this.plugins is set.
AsyncInit ==
  /\ BootLink("asyncInit", "loadPlugins")
  /\ container' = "ready"
  /\ managed' = TRUE
  /\ UNCHANGED <<next, initialized, plugins>> /\ UNCHANGED others

\* PluginRegistry asks for the enabled plugins, which may fail, and creates and
\* initializes one after the other, in the order in which they were enabled.
LoadPlugin ==
  /\ boot = "loadPlugins" /\ next <= Len(enabled)
  /\ BootLink("loadPlugins", "loadPlugins")
  /\ next' = next + 1
  /\ initialized' = initialized + 1
  /\ UNCHANGED <<managed, plugins, container>> /\ UNCHANGED others

\* register sorts them; without an order boot fails.
Register ==
  /\ boot = "loadPlugins" /\ next > Len(enabled) /\ ~exited
  /\ LET sorted == Sort(enabled)
     IN  IF sorted.error = "none"
         THEN /\ boot' = "hooks" /\ next' = 1
              /\ plugins' = [i \in DOMAIN sorted.order |-> sorted.order[i].name]
              /\ UNCHANGED <<request, exited>>
         ELSE /\ boot' = "failed" /\ Exit
              /\ UNCHANGED <<next, plugins>>
  /\ UNCHANGED <<initialized, managed, shutdown, container, server, faults>> /\ UNCHANGED others

\* invoke goes through the live map: a shutdown that clears it ends the loop.
BootHook ==
  /\ boot = "hooks" /\ next <= Len(plugins)
  /\ BootLink("hooks", "hooks")
  /\ next' = Advance(next)
  /\ hooked' = Append(hooked, plugins[next])
  /\ UNCHANGED <<enabled, initialized, managed, plugins, container, late>>

HooksOver_notAwaited(i) == TRUE
HooksOver(i) == i > Len(plugins)

Booted ==
  /\ boot = "hooks" /\ HooksOver(next)
  /\ BootLink("hooks", "listen")
  /\ UNCHANGED <<next, initialized, managed, plugins, container>> /\ UNCHANGED others

\* listen sets this._server at once; the port is bound later.
Listen ==
  /\ ~exited /\ boot = "listen" /\ server = "none"
  /\ server' = "binding"
  /\ UNCHANGED <<plugins, shutdown, container, request, exited, faults>> /\ UNCHANGED booting /\ UNCHANGED others

Listening ==
  /\ ~exited /\ boot = "listen" /\ server = "binding"
  /\ server' = "listening"
  /\ boot' = "serving"
  /\ UNCHANGED <<next, initialized, managed, plugins, shutdown, container, request, exited, faults>>
  /\ UNCHANGED others

-----------------------------------------------------------------------------
(* shutdown *)

AfterPlugins_withoutSuper == "done"
\* super.shutdown follows the plugins.
AfterPlugins == "asyncDispose"

\* Without a plugin manager there is nothing to call and nothing to dispose.
Shutdown(s) ==
  /\ ~exited /\ shutdown[s] = Idle
  /\ shutdown' = [shutdown EXCEPT ![s].pc = IF managed THEN "hooks" ELSE AfterPlugins]
  /\ late' = IF server = "listening" THEN late \cup {s} ELSE late
  /\ UNCHANGED <<enabled, plugins, container, server, request, hooked, exited, faults>>
  /\ UNCHANGED booting

To(s, pc, i) == shutdown' = [shutdown EXCEPT ![s] = [pc |-> pc, i |-> i]]

ShutdownFails(s) ==
  /\ ~exited
  /\ \/ shutdown[s].pc \in {"hooks", "dispose"} /\ shutdown[s].i <= Len(plugins)
     \/ shutdown[s].pc = "asyncDispose"
  /\ Fault
  /\ To(s, "rejected", 1)
  /\ Exit
  /\ UNCHANGED <<plugins, container, server>> /\ UNCHANGED booting /\ UNCHANGED others

ShutdownHook(s) ==
  /\ ~exited /\ shutdown[s].pc = "hooks"
  /\ IF shutdown[s].i <= Len(plugins) THEN To(s, "hooks", Advance(shutdown[s].i)) ELSE To(s, "dispose", 1)
  /\ UNCHANGED <<plugins, container, server, request, exited, faults>> /\ UNCHANGED booting /\ UNCHANGED others

\* dispose goes through the live map too; the map is cleared behind the loop.
DisposePlugin(s) ==
  /\ ~exited /\ shutdown[s].pc = "dispose" /\ shutdown[s].i <= Len(plugins)
  /\ To(s, "dispose", Advance(shutdown[s].i))
  /\ UNCHANGED <<plugins, container, server, request, exited, faults>> /\ UNCHANGED booting /\ UNCHANGED others

DisposeEnds(s) ==
  /\ ~exited /\ shutdown[s].pc = "dispose" /\ shutdown[s].i > Len(plugins)
  /\ plugins' = <<>>
  /\ To(s, AfterPlugins, 1)
  /\ UNCHANGED <<container, server, request, exited, faults>> /\ UNCHANGED booting /\ UNCHANGED others

AsyncDispose(s) ==
  /\ ~exited /\ shutdown[s].pc = "asyncDispose"
  /\ container' = "disposed"
  /\ To(s, "close", 1)
  /\ UNCHANGED <<plugins, server, request, exited, faults>> /\ UNCHANGED booting /\ UNCHANGED others

Accepts_unbound(srv) == FALSE
\* server.close answers with an error unless the server listens.
Accepts(srv) == srv = "listening"

Close(s) ==
  /\ ~exited /\ shutdown[s].pc = "close"
  /\ CASE server = "none"   -> To(s, "done", 1) /\ UNCHANGED <<server, request, exited>>
       [] Accepts(server)   -> /\ server' = "closing" /\ To(s, "closing", 1)
                               /\ UNCHANGED <<request, exited>>
       [] OTHER             -> To(s, "rejected", 1) /\ Exit /\ UNCHANGED server
  /\ UNCHANGED <<plugins, container, faults>> /\ UNCHANGED booting /\ UNCHANGED others

\* close is answered when nobody is connected any more.
Closed(s) ==
  /\ ~exited /\ shutdown[s].pc = "closing"
  /\ \A r \in Request : request[r] # "open"
  /\ server' = "closed"
  /\ To(s, "done", 1)
  /\ UNCHANGED <<plugins, container, request, exited, faults>> /\ UNCHANGED booting /\ UNCHANGED others

-----------------------------------------------------------------------------
(* requests *)

Arrive(r) ==
  /\ ~exited /\ server = "listening" /\ request[r] = "new"
  /\ request' = [request EXCEPT ![r] = "open"]
  /\ UNCHANGED <<plugins, shutdown, container, server, exited, faults>> /\ UNCHANGED booting /\ UNCHANGED others

\* A handler that meets services which are disposed may fail.
Respond(r) ==
  /\ ~exited /\ request[r] = "open"
  /\ \E answer \in IF container = "ready" THEN {"answered"} ELSE {"answered", "failed"} :
       request' = [request EXCEPT ![r] = answer]
  /\ UNCHANGED <<plugins, shutdown, container, server, exited, faults>> /\ UNCHANGED booting /\ UNCHANGED others

-----------------------------------------------------------------------------
\* enabled is whatever the repository of plugins answers: a sequence of definitions.
LifeInit ==
  /\ \A i \in DOMAIN enabled : DOMAIN enabled[i] = {"name", "dependsOn"}
  /\ boot = "buildContainer" /\ next = 1 /\ initialized = 0 /\ managed = FALSE
  /\ plugins = <<>>
  /\ shutdown = [s \in Signal |-> Idle]
  /\ container = "empty" /\ server = "none"
  /\ request = [r \in Request |-> "new"]
  /\ hooked = <<>> /\ late = {}
  /\ exited = FALSE /\ faults = 0

Booting ==
  \/ BuildContainer \/ AsyncInit \/ LoadPlugin \/ Register \/ BootHook \/ Booted \/ Listen \/ Listening

Stopping(s) ==
  ShutdownHook(s) \/ DisposePlugin(s) \/ DisposeEnds(s) \/ AsyncDispose(s) \/ Close(s) \/ Closed(s)

LifeNext ==
  \/ Booting \/ BootFails
  \/ \E s \in Signal : Shutdown(s) \/ Stopping(s) \/ ShutdownFails(s)
  \/ \E r \in Request : Arrive(r) \/ Respond(r)

-----------------------------------------------------------------------------
(* Properties *)

\* Type correctness of the life cycle.
LifeTypeOK ==
  /\ boot \in {"buildContainer", "asyncInit", "loadPlugins", "hooks", "listen", "serving", "failed"}
  /\ \A s \in Signal :
       shutdown[s].pc \in {"none", "hooks", "dispose", "asyncDispose", "close", "closing", "done", "rejected"}
  /\ server \in {"none", "binding", "listening", "closing", "closed"}
  /\ request \in [Request -> {"new", "open", "answered", "failed", "cut"}]
  /\ initialized \in 0 .. Len(enabled) /\ late \subseteq Signal /\ faults \in 0 .. MaxFaults
  /\ ToSet(plugins) \subseteq Names(enabled) /\ Len(plugins) <= Len(enabled)

Signals == {s \in Signal : shutdown[s] # Idle}

\* A service that listens, and was not told to stop before, has called the boot hook
\* of every plugin, once and of dependents before those they depend on.
BootHooksInOrder ==
  server = "listening" /\ Signals \subseteq late =>
    /\ ToSet(hooked) = Names(enabled)
    /\ \A i, j \in DOMAIN hooked : i < j =>
         /\ hooked[i] # hooked[j]
         /\ \A k \in DOMAIN enabled :
              enabled[k].name = hooked[j] /\ UniqueNames(enabled) => ~Contains(enabled[k].dependsOn, hooked[i])

\* One signal to a service that listens, whose plugins and services do not fail, cuts
\* nobody off: those who are connected are waited for.
RequestsAreAnswered ==
  Cardinality(Signals) <= 1 /\ Signals \subseteq late /\ faults = 0 => \A r \in Request : request[r] # "cut"

\* A service that listens when the signal comes stops, in order or not, also when it
\* was signalled before, during its boot.
StopsWhenListening == <>[](late # {} => exited \/ server = "closed")
=============================================================================
