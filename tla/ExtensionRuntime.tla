-------------------------- MODULE ExtensionRuntime --------------------------
(***************************************************************************)
(* The extension runtime (runtime/src/extensions/runtime.js).  An          *)
(* operation checks the extension's state, awaits a hook of its module,    *)
(* and writes the state afterwards; nothing serialises the calls, so       *)
(* everything may have changed meanwhile.  An operation is Begin and       *)
(* Finish; when the module has no such hook there is no await and the two  *)
(* are one step (Direct).  install() is discover and load in one step and  *)
(* then the other operations, each its own call, so its later part is a    *)
(* caller like any other.                                                  *)
(***************************************************************************)
EXTENDS Naturals

CONSTANTS
    Exts,
    Modules,     \* implementations that may be loaded
    NoModule,
    Kind,        \* what made a module: an SDK's function, or plain code with
                 \* every hook or with none
    Dependency,  \* the extensions a manifest depends on
    Calls,       \* calls in flight at once
    NoCall

ASSUME ExtensionAssumption ==
    /\ NoModule \notin Modules
    /\ Kind \in [Modules ->
           {"plain", "bare", "plugin", "connector", "skill", "workflow", "template", "agent"}]
    /\ Dependency \in [Exts -> SUBSET Exts]
    /\ NoCall \notin Calls
    /\ NoCall \notin [op : STRING, ext : Exts,
                       made : [by : Modules \cup {NoModule}, call : Calls \cup {NoCall}]]

VARIABLES
    state,       \* lifecycle state; "absent" before discover()
    module,      \* rec.module
    exports,     \* rec.exports
    registered,  \* rec.registered: the exports handed to the host
    overrun,     \* history: where an initialize() wrote over exports that an
                 \* earlier one had made
    healthy,     \* rec.health.ok
    inFlight     \* the operations whose hook is awaited

extVars == <<state, module, exports, registered, overrun, healthy, inFlight>>

Contract == INSTANCE ExtensionContract

Operation == {"validate", "initialize", "register", "activate", "monitor", "unload"}

\* Exports are told apart by the module whose initialize() made them and the
\* call that ran it; a module without that hook is its own exports.  All
\* initialize() of an extension that end well begin before the first of them
\* ends, so no two of them have the same slot.
Export == [by : Modules \cup {NoModule}, call : Calls \cup {NoCall}]

NoExport == [by |-> NoModule, call |-> NoCall]

ExtCall == [op : Operation, ext : Exts, made : Export]

ExtTypeOK ==
    /\ state \in [Exts -> Contract!LifecycleState]
    /\ module \in [Exts -> Modules \cup {NoModule}]
    /\ exports \in [Exts -> Export]
    /\ registered \in [Exts -> Export]
    /\ overrun \subseteq Exts
    /\ healthy \in [Exts -> BOOLEAN]
    /\ inFlight \in [Calls -> ExtCall \cup {NoCall}]

ExtInit ==
    /\ state = [e \in Exts |-> "absent"]
    /\ module = [e \in Exts |-> NoModule]
    /\ exports = [e \in Exts |-> NoExport]
    /\ registered = [e \in Exts |-> NoExport]
    /\ overrun = {}
    /\ healthy = [e \in Exts |-> TRUE]
    /\ inFlight = [c \in Calls |-> NoCall]

-----------------------------------------------------------------------------
(* The hooks that the SDKs give the modules they make; a plain object may  *)
(* have any.                                                               *)

PluginHooks == {"initialize", "register", "activate", "monitor", "unload"}
ConnectorHooks == {"initialize", "monitor"}
SkillHooks == {"initialize", "monitor"}
WorkflowHooks == {"initialize"}
TemplateHooks == {"initialize"}
AgentHooks == {"initialize"}

Hooks(m) ==
    CASE Kind[m] = "plain" -> Operation
      [] Kind[m] = "bare" -> {}
      [] Kind[m] = "plugin" -> PluginHooks
      [] Kind[m] = "connector" -> ConnectorHooks
      [] Kind[m] = "skill" -> SkillHooks
      [] Kind[m] = "workflow" -> WorkflowHooks
      [] Kind[m] = "template" -> TemplateHooks
      [] Kind[m] = "agent" -> AgentHooks

\* Nothing is loaded before load(): rec.module is null and has no hook.
Awaits(e, op) == module[e] # NoModule /\ op \in Hooks(module[e])

-----------------------------------------------------------------------------
(* The checks around a hook.                                               *)

\* #assertState and its like: what an operation asks before its hook.
Allows(e, op) ==
    CASE op = "validate" -> state[e] = "loaded"
      [] op = "initialize" -> state[e] = "validated"
      [] op = "register" -> state[e] = "initialized"
      [] op = "activate" -> state[e] = "registered"
      [] op = "monitor" -> state[e] \in {"active", "monitored"}
      [] op = "unload" -> state[e] \notin {"absent", "unloaded"}

\* Mutant: the state checked before the hook is not checked again.
MayBecomeUnchecked(e, s) == TRUE

\* #transition(): what it asks after the hook, and the state it leaves when
\* it throws.
MayBecome(e, s) == s = state[e] \/ s \in Contract!LifecycleTransitions[state[e]]

Becomes(e, s) == [state EXCEPT ![e] = IF MayBecome(e, s) THEN s ELSE state[e]]

\* validate(): a dependency that was unloaded.
DependencyGone(e) == \E d \in Dependency[e] : state[d] = "unloaded"

\* What each operation does once its hook has answered.  initialize() and
\* register() assign their result before #transition() may refuse.
Effect(e, op, made) ==
    CASE op = "validate" ->
           /\ state' = IF DependencyGone(e) THEN state ELSE Becomes(e, "validated")
           /\ UNCHANGED <<exports, registered, overrun, healthy>>
      [] op = "initialize" ->
           /\ exports' = [exports EXCEPT ![e] = made]
           /\ overrun' = IF exports[e] = NoExport THEN overrun ELSE overrun \cup {e}
           /\ state' = Becomes(e, "initialized")
           /\ UNCHANGED <<registered, healthy>>
      [] op = "register" ->
           /\ registered' = [registered EXCEPT ![e] = made]
           /\ state' = Becomes(e, "registered")
           /\ UNCHANGED <<exports, overrun, healthy>>
      [] op = "activate" ->
           /\ state' = Becomes(e, "active")
           /\ UNCHANGED <<exports, registered, overrun, healthy>>
      [] op = "monitor" ->
           /\ \E ok \in BOOLEAN : healthy' = [healthy EXCEPT ![e] = ok]
           /\ state' = IF state[e] = "active" THEN Becomes(e, "monitored") ELSE state
           /\ UNCHANGED <<exports, registered, overrun>>
      [] op = "unload" ->
           /\ state' = [state EXCEPT ![e] = "unloaded"]
           /\ UNCHANGED <<exports, registered, overrun, healthy>>

\* What the call took from the record before its hook: the module whose
\* initialize() it runs, the exports that register() publishes.
Taken(c, e, op) ==
    IF op = "register" THEN exports[e] ELSE [by |-> module[e], call |-> c]

-----------------------------------------------------------------------------
(* The operations.                                                         *)

\* A valid manifest under a new id; an invalid or a known one changes nothing.
Discover(e) ==
    /\ state[e] = "absent"
    /\ state' = [state EXCEPT ![e] = "discovered"]
    /\ UNCHANGED <<module, exports, registered, overrun, healthy, inFlight>>

\* Mutant: load() replaces the module in any state.
LoadsAny(e) == state[e] # "absent"

\* A loaded extension may be loaded again: the state does not change.
Loads(e) == state[e] # "absent" /\ MayBecome(e, "loaded")

Load(e, m) ==
    /\ Loads(e)
    /\ state' = Becomes(e, "loaded")
    /\ module' = [module EXCEPT ![e] = m]
    /\ UNCHANGED <<exports, registered, overrun, healthy, inFlight>>

Install(e, m) ==
    /\ state[e] = "absent"
    /\ state' = [state EXCEPT ![e] = "loaded"]
    /\ module' = [module EXCEPT ![e] = m]
    /\ UNCHANGED <<exports, registered, overrun, healthy, inFlight>>

Direct(e, op) ==
    /\ Allows(e, op) /\ ~Awaits(e, op)
    /\ Effect(e, op, Taken(NoCall, e, op))
    /\ UNCHANGED <<module, inFlight>>

\* register() may also await the onRegister() of its host.
Begin(c, e, op) ==
    /\ inFlight[c] = NoCall
    /\ Allows(e, op) /\ (Awaits(e, op) \/ op = "register")
    /\ inFlight' = [inFlight EXCEPT ![c] = [op |-> op, ext |-> e, made |-> Taken(c, e, op)]]
    /\ UNCHANGED <<state, module, exports, registered, overrun, healthy>>

Finish(c) ==
    /\ inFlight[c] # NoCall
    /\ inFlight' = [inFlight EXCEPT ![c] = NoCall]
    /\ Effect(inFlight[c].ext, inFlight[c].op, inFlight[c].made)
    /\ UNCHANGED module

\* The hook rejects, and the call with it, before anything is written.
HookFails(c) ==
    /\ inFlight[c] # NoCall
    /\ inFlight' = [inFlight EXCEPT ![c] = NoCall]
    /\ UNCHANGED <<state, module, exports, registered, overrun, healthy>>

ExtNext ==
    \/ \E e \in Exts :
          \/ Discover(e)
          \/ \E m \in Modules : Load(e, m) \/ Install(e, m)
          \/ \E op \in Operation : Direct(e, op) \/ \E c \in Calls : Begin(c, e, op)
    \/ \E c \in Calls : Finish(c) \/ HookFails(c)

ExtSpec == ExtInit /\ [][ExtNext]_extVars

-----------------------------------------------------------------------------
(* Properties.                                                             *)

\* However the calls overlap, no late continuation takes an extension back or
\* revives an unloaded one: #transition() looks at the state again.
ImplementsContract == Contract!Contract

\* invoke() serves an extension in these states, from its exports.
Invocable(e) == state[e] \in {"active", "monitored"}

\* An extension that may be invoked runs exports that the module loaded now
\* has made, and so were those the host was handed.  They are the very same
\* ones unless two initialize() overlapped: the later of them stores its
\* exports even when #transition() then refuses it, and invoke() serves
\* exports that the host may never have seen.
InvocableIsWired ==
    \A e \in Exts : Invocable(e) =>
        /\ module[e] # NoModule
        /\ exports[e].by = module[e]
        /\ registered[e].by = module[e]
        /\ registered[e] # exports[e] => e \in overrun

=============================================================================
