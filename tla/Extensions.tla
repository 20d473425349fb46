----------------------------- MODULE Extensions -----------------------------
(***************************************************************************)
(* services/registry.py, the registry of services.d with its dependency    *)
(* order; services/module_builder.py, which writes new services and        *)
(* plugins; and shell/plugin_loader.py, which picks the plugins up. One    *)
(* thread drives them. The recursion that computes the order is a stack of *)
(* calls, and a step is a call of visit() or the return from one.          *)
(*                                                                         *)
(* Services are numbered in the order in which their descriptors sort. Of  *)
(* a descriptor its dependencies, its module and AutoStart are kept.       *)
(***************************************************************************)
EXTENDS Naturals, Sequences, SequencesExt, FiniteSets

CONSTANTS
  Shipped,   \* services whose descriptors come with the repository
  OnDemand,  \* those of them with AutoStart=false
  Made,      \* services that module_builder may be asked for
  Plugins,   \* plugins that it may be asked for
  System,    \* shell/plugins/system.py
  MaxDeps    \* bound on the dependencies of a service

ASSUME ExtensionsAssumption ==
  /\ Shipped \cup Made \subseteq Nat /\ IsFiniteSet(Shipped \cup Made) /\ Shipped \cap Made = {}
  /\ OnDemand \subseteq Shipped /\ System \notin Plugins /\ MaxDeps \in Nat

Names == Shipped \cup Made

VARIABLES
  deps,      \* DependsOn of the shipped services
  descriptor,  \* each descriptor: none, whole, or opened and not written
  known,     \* the keys of _registry in their order, with what was parsed
  order,     \* _load_order
  calls,     \* the calls under way in _compute_load_order(), itself the first:
             \* whose visit() it is, and the names it has yet to go through
  visited, sorted,  \* its visited and order
  todo,      \* what start_all_autostart() has yet to come to
  state,     \* ServiceDescriptor.state, "stopped" as well for no descriptor
  held,      \* the services whose instance the registry holds
  plugins,   \* files in shell/plugins
  commands   \* plugins whose commands the shell has

pluginVars == <<plugins, commands>>
orderVars == <<order, calls, visited, sorted>>
serviceVars == <<deps, descriptor, known, orderVars, todo, state, held>>
extensionVars == <<serviceVars, pluginVars>>

Registered == {known[i].name : i \in DOMAIN known}
Parsed(n) == CHOOSE i \in DOMAIN known : known[i].name = n

\* Neither a discovery nor start_all_autostart() is under way.
AtRest == calls = <<>> /\ todo = <<>>

ExtensionsTypeOK ==
  /\ Registered \subseteq Names /\ ToSet(order) \subseteq Names
  /\ visited \subseteq Names /\ ToSet(sorted) \subseteq visited
  /\ state \in [Names -> {"stopped", "running", "failed"}]
  /\ held \subseteq Shipped /\ commands \subseteq plugins

\* Any dependencies, cyclic ones included, and such as have no descriptor yet.
ExtensionsInit ==
  /\ deps \in [Shipped -> {s \in SeqOf(Names, MaxDeps) : IsInjective(s)}]
  /\ descriptor = [n \in Names |-> IF n \in Shipped THEN "whole" ELSE "none"]
  /\ known = <<>> /\ order = <<>> /\ todo = <<>>
  /\ calls = <<>> /\ visited = {} /\ sorted = <<>>
  /\ state = [n \in Names |-> "stopped"] /\ held = {}
  /\ plugins = {System} /\ commands = {}

-----------------------------------------------------------------------------
\* _SERVICE_DESCRIPTOR_TEMPLATE has no DependsOn.
DependsOn(n) == IF n \in Shipped THEN deps[n] ELSE <<>>

\* _parse_service_file(): an empty descriptor has no module.
Parse(n) == [name |-> n, on |-> DependsOn(n), module |-> descriptor[n] = "whole"]

\* The descriptors of services.d that the registry does not have, as they sort.
Arrived == {n \in Names : descriptor[n] # "none"} \ Registered
Arrivals == {s \in [1..Cardinality(Arrived) -> Arrived] :
               \A i, j \in DOMAIN s : i < j => s[i] < s[j]}

\* discover(): every descriptor is parsed anew. One that was known keeps its
\* place; its state and its instance are forgotten. _compute_load_order() begins
\* with the names of the registry to go through.
Discover ==
  LET found == {n \in Names : descriptor[n] # "none"}
  IN /\ AtRest
     /\ \E new \in Arrivals :
          known' = [i \in DOMAIN known |-> IF known[i].name \in found THEN Parse(known[i].name)
                                                                     ELSE known[i]]
                   \o [i \in DOMAIN new |-> Parse(new[i])]
     /\ calls' = <<[left |-> [i \in DOMAIN known' |-> known'[i].name]]>>
     /\ visited' = {} /\ sorted' = <<>>
     /\ state' = [n \in Names |-> IF n \in found THEN "stopped" ELSE state[n]]
     /\ held' = held \ found
     /\ UNCHANGED <<deps, descriptor, order, todo, pluginVars>>

\* The call that is running, and how it goes on with the next name.
Call == calls[Len(calls)]
Onward == [calls EXCEPT ![Len(calls)] = [Call EXCEPT !.left = Tail(Call.left)]]

\* A name without descriptor has no dependencies.
On(n) == IF n \in Registered THEN known[Parsed(n)].on ELSE <<>>

\* visit() is called: nothing is done for a name that was visited.
VisitCalled ==
  /\ calls # <<>> /\ Call.left # <<>>
  /\ LET n == Head(Call.left)
     IN IF n \in visited
          THEN calls' = Onward /\ UNCHANGED visited
          ELSE /\ calls' = Append(Onward, [name |-> n, left |-> On(n)])
               /\ visited' = visited \cup {n}
  /\ UNCHANGED <<deps, descriptor, known, order, sorted, todo, state, held, pluginVars>>

\* A fault: a service is put before all that are in the order.
VisitReturns_InFront ==
  /\ Len(calls) > 1 /\ Call.left = <<>>
  /\ sorted' = <<Call.name>> \o sorted
  /\ calls' = SubSeq(calls, 1, Len(calls) - 1)
  /\ UNCHANGED <<deps, descriptor, known, order, visited, todo, state, held, pluginVars>>

\* visit() has been called for all dependencies: the name comes after them, with
\* or without descriptor.
VisitReturns ==
  /\ Len(calls) > 1 /\ Call.left = <<>>
  /\ sorted' = Append(sorted, Call.name)
  /\ calls' = SubSeq(calls, 1, Len(calls) - 1)
  /\ UNCHANGED <<deps, descriptor, known, order, visited, todo, state, held, pluginVars>>

\* All names were visited: the order is set, and discover() returns.
OrderComputed ==
  /\ Len(calls) = 1 /\ Call.left = <<>>
  /\ order' = sorted /\ calls' = <<>>
  /\ UNCHANGED <<deps, descriptor, known, visited, sorted, todo, state, held, pluginVars>>

\* How start() of a service may end. That of _SERVICE_TEMPLATE raises, with
\* its thread running: nobody makes the {} of the template's {{}}, which is a
\* set with a dictionary in it.
StartOutcomes(n) == IF n \in Made THEN {"failed"} ELSE {"running", "failed"}

\* _start_service(). Without a module nothing is started and the state is
\* set. Where start() raises an instance of an earlier start stays.
StartService(n) ==
  \/ /\ ~ known[Parsed(n)].module
     /\ state' = [state EXCEPT ![n] = "running"] /\ UNCHANGED held
  \/ /\ known[Parsed(n)].module
     /\ \E end \in StartOutcomes(n) :
          /\ state' = [state EXCEPT ![n] = end]
          /\ held' = IF end = "running" THEN held \cup {n} ELSE held

\* start_all_autostart()
StartAll ==
  /\ AtRest /\ order # <<>> /\ todo' = order
  /\ UNCHANGED <<deps, descriptor, known, orderVars, state, held, pluginVars>>

\* Its next service, unless that has no descriptor or is not to be started.
StartNext ==
  /\ todo # <<>> /\ todo' = Tail(todo)
  /\ IF Head(todo) \in Registered \ OnDemand THEN StartService(Head(todo))
                                              ELSE UNCHANGED <<state, held>>
  /\ UNCHANGED <<deps, descriptor, known, orderVars, pluginVars>>

Start(n) ==
  /\ AtRest /\ n \in Registered /\ StartService(n)
  /\ UNCHANGED <<deps, descriptor, known, orderVars, todo, pluginVars>>

\* stop(): there is nothing to stop without an instance; one whose stop()
\* raises is kept as it is.
Stop(n) ==
  /\ AtRest /\ n \in held
  /\ state' = [state EXCEPT ![n] = "stopped"]
  /\ held' = held \ {n}
  /\ UNCHANGED <<deps, descriptor, known, orderVars, todo, pluginVars>>

-----------------------------------------------------------------------------
\* _write_all() of a file that does not exist: written, or opened and then
\* failed. Those that were written before it are not taken back.
WriteAll(f) == IF f = "none" THEN {"whole", "empty"} ELSE {f}

\* scaffold_service(): the module, its test and its descriptor, of which only
\* the last is read here.
ScaffoldService(n) ==
  /\ AtRest /\ descriptor[n] = "none"
  /\ \E f \in WriteAll(descriptor[n]) : descriptor' = [descriptor EXCEPT ![n] = f]
  /\ UNCHANGED <<deps, known, orderVars, todo, state, held, pluginVars>>

\* scaffold_plugin()
ScaffoldPlugin(p) ==
  /\ p \notin plugins /\ plugins' = plugins \cup {p}
  /\ UNCHANGED <<serviceVars, commands>>

\* What a plugin's module defines; that of _PLUGIN_TEMPLATE a register() that
\* nobody calls.
Defines(p) == IF p = System THEN {"PLUGIN_NAME", "COMMANDS"} ELSE {"register"}

\* _register_plugin()
RegisterPlugin(p) == {"PLUGIN_NAME", "COMMANDS"} \subseteq Defines(p)

\* Shell._load_plugins() and PluginLoader.load_all(), when a shell is made:
\* whatever a plugin does when it is imported, the others are loaded.
LoadPlugins ==
  /\ commands' = {p \in plugins : RegisterPlugin(p)}
  /\ UNCHANGED <<serviceVars, plugins>>

ServicesNext ==
  \/ Discover \/ VisitCalled \/ VisitReturns \/ OrderComputed
  \/ StartAll \/ StartNext
  \/ \E n \in Names : Start(n) \/ Stop(n)
  \/ \E n \in Made : ScaffoldService(n)

\* The plugins share nothing with the registry.
PluginsNext == (\E p \in Plugins : ScaffoldPlugin(p)) \/ LoadPlugins

ExtensionsNext == ServicesNext \/ PluginsNext
ExtensionsSpec == ExtensionsInit /\ [][ExtensionsNext]_extensionVars

-----------------------------------------------------------------------------
\* m depends on n, itself or through others, or is n.
Reaches(m, n) == \A S \in SUBSET Names :
                   m \in S /\ (\A x \in S : ToSet(On(x)) \subseteq S) => n \in S

\* Whatever the dependencies, cyclic, missing or added by later discoveries:
\* every service is in the load order once, and after each service that it
\* depends on, unless that depends on it in turn: registry.py:242-259.
DependenciesFirst ==
  calls = <<>> =>
    /\ IsInjective(order) /\ Registered \subseteq ToSet(order)
    /\ \A i, j \in DOMAIN order :
         order[j] \in ToSet(On(order[i])) /\ i < j => Reaches(order[j], order[i])
=============================================================================
