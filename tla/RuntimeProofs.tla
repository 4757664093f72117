---------------------------- MODULE RuntimeProofs ----------------------------
(***************************************************************************)
(* The extensions, the agents, and the parts of the runtime beside one     *)
(* another.                                                                *)
(*                                                                         *)
(* However the calls on extensions overlap, and whatever their hooks       *)
(* answer, the extension runtime implements ExtensionContract, and what it *)
(* invokes is what the loaded module made.  Runs of an agent settle: no    *)
(* record is left saying that it runs when every run on it has ended, and  *)
(* every run of the runtime is shut down.  For any extensions, modules,    *)
(* dependencies and calls in flight, any overlapping runs and              *)
(* registrations, and any choice of implemented steps.  The last section   *)
(* is about the composition that is model-checked.                         *)
(***************************************************************************)
EXTENDS RuntimePartsMC, PartsProofs, GraphProofs

-----------------------------------------------------------------------------
(* The extension runtime.                                                  *)

\* The published table, state by state.
LEMMA Table ==
  /\ Contract!LifecycleTransitions["absent"] = {"discovered"}
  /\ Contract!LifecycleTransitions["discovered"] = {"loaded", "unloaded"}
  /\ Contract!LifecycleTransitions["loaded"] = {"validated", "unloaded"}
  /\ Contract!LifecycleTransitions["validated"] = {"initialized", "unloaded"}
  /\ Contract!LifecycleTransitions["initialized"] = {"registered", "unloaded"}
  /\ Contract!LifecycleTransitions["registered"] = {"active", "unloaded"}
  /\ Contract!LifecycleTransitions["active"] = {"monitored", "unloaded"}
  /\ Contract!LifecycleTransitions["monitored"] = {"active", "unloaded"}
  /\ Contract!LifecycleTransitions["unloaded"] = {}
  BY DEF Contract!LifecycleTransitions, Contract!LifecycleState

-----------------------------------------------------------------------------
(* The invariant.                                                          *)

\* States after which no other module can be loaded.
Late == {"validated", "initialized", "registered", "active", "monitored", "unloaded"}

Made == {"initialized", "registered", "active", "monitored"}

Wired == {"registered", "active", "monitored"}

\* Exports that were made are the extension's, or another initialize() overran them.
HandedOn(e, made) == made = exports[e] \/ e \in overrun

ModulesFit ==
    \A e \in Exts :
        /\ state[e] \in {"loaded", "validated"} \cup Made => module[e] # NoModule
        /\ state[e] \in Made => exports[e].by = module[e]
        /\ state[e] \in Wired => registered[e].by = module[e] /\ HandedOn(e, registered[e])

\* What a call carries over its hook is still what the extension has: at that stage
\* nobody can replace the module any more, and another initialize() that replaces the
\* exports is one that overran.
CarriesWell(e, op, made) ==
    /\ state[e] # "absent"
    /\ op \in {"initialize", "register"} =>
          made.by = module[e] /\ module[e] # NoModule /\ state[e] \in Late
    /\ op = "register" => HandedOn(e, made)

CallsFit ==
    \A c \in Calls : inFlight[c] # NoCall =>
        CarriesWell(inFlight[c].ext, inFlight[c].op, inFlight[c].made)

ExtInv == ExtTypeOK /\ ModulesFit /\ CallsFit

\* What a step may do to the states: an extension moves along the table, arrives,
\* or stays.
Moves(e) ==
    /\ state' \in [Exts -> Contract!LifecycleState]
    /\ \A f \in Exts \ {e} : state'[f] = state[f]
    /\ \/ state'[e] = state[e]
       \/ state'[e] \in Contract!LifecycleTransitions[state[e]]
       \/ state[e] = "absent" /\ state'[e] = "loaded"

\* What a step may do to the exports: where some were made, writing over them is noted.
NotesOverrun ==
    /\ overrun \subseteq overrun' /\ overrun' \subseteq Exts
    /\ \A e \in Exts : exports'[e] # exports[e] => exports[e] = NoExport \/ e \in overrun'

\* Such a step is one of the contract.
LEMMA MoveContract ==
  ASSUME ExtTypeOK, NEW e \in Exts, Moves(e)
  PROVE  [Contract!ContractNext]_state
  <1>1. /\ state \in [Exts -> Contract!LifecycleState]
        /\ state' = [state EXCEPT ![e] = state'[e]]
    BY DEF ExtTypeOK, Moves
  <1>2. CASE state'[e] = state[e]
    BY <1>1, <1>2
  <1>3. CASE state'[e] \in Contract!LifecycleTransitions[state[e]]
    BY <1>1, <1>3 DEF Contract!ContractNext, Contract!Move
  <1>4. CASE state[e] = "absent" /\ state'[e] = "loaded"
    BY <1>1, <1>4 DEF Contract!ContractNext, Contract!Arrive
  <1> QED
    BY <1>2, <1>3, <1>4 DEF Moves

\* Nor does it lead back to where a module could be replaced.
LEMMA MoveLate ==
  ASSUME ExtTypeOK, NEW e \in Exts, Moves(e), NEW f \in Exts
  PROVE  /\ state[f] # "absent" => state'[f] # "absent"
         /\ state[f] \in Late => state'[f] \in Late
  BY Table DEF ExtTypeOK, Moves, Late, Contract!LifecycleState

\* What #transition() leaves.
LEMMA BecomesMoves ==
  ASSUME ExtTypeOK, NEW e \in Exts, NEW s \in Contract!LifecycleState, state' = Becomes(e, s)
  PROVE  /\ Moves(e)
         /\ state'[e] = IF s \in Contract!LifecycleTransitions[state[e]] THEN s ELSE state[e]
  BY DEF ExtTypeOK, Moves, Becomes, MayBecome

-----------------------------------------------------------------------------
(* The steps.                                                              *)

\* A state written after a hook is the one before it when the table refuses.
LEMMA WellMoved ==
  ASSUME ExtTypeOK, ModulesFit, NEW e \in Exts, Moves(e), UNCHANGED module,
         NotesOverrun,
         \A f \in Exts \ {e} : exports'[f] = exports[f] /\ registered'[f] = registered[f],
         state'[e] \in {"loaded", "validated"} \cup Made => module[e] # NoModule,
         state'[e] \in Made => exports'[e].by = module[e],
         state'[e] \in Wired => registered'[e].by = module[e] /\ HandedOn(e, registered[e])'
  PROVE  ModulesFit'
  <1> SUFFICES ASSUME NEW f \in Exts
               PROVE  /\ state'[f] \in {"loaded", "validated"} \cup Made => module[f] # NoModule
                      /\ state'[f] \in Made => exports'[f].by = module[f]
                      /\ state'[f] \in Wired =>
                            registered'[f].by = module[f] /\ HandedOn(f, registered[f])'
    BY DEF ModulesFit, HandedOn
  <1>1. CASE f = e
    BY <1>1
  <1>2. CASE f # e
    BY <1>2 DEF ModulesFit, Moves, HandedOn, NotesOverrun
  <1> QED
    BY <1>1, <1>2

\* The end of an operation, whatever became of the extension while its hook ran.
LEMMA EffectMoves ==
  ASSUME ExtTypeOK, ModulesFit, NEW e \in Exts, NEW op \in Operation,
         NEW made \in Export,
         CarriesWell(e, op, made), Effect(e, op, made), UNCHANGED module
  PROVE  /\ Moves(e)
         /\ ModulesFit'
         /\ NotesOverrun
         /\ exports' \in [Exts -> Export]
         /\ registered' \in [Exts -> Export]
         /\ healthy' \in [Exts -> BOOLEAN]
  <1> USE DEF Contract!LifecycleState
  <1>0. /\ state[e] \in Contract!LifecycleState
        /\ state[e] \in {"loaded", "validated"} \cup Made => module[e] # NoModule
        /\ state[e] \in Made => exports[e].by = module[e]
        /\ state[e] \in Wired => registered[e].by = module[e] /\ HandedOn(e, registered[e])
    BY DEF ExtTypeOK, ModulesFit
  <1>n. UNCHANGED <<exports, overrun>> => NotesOverrun
    BY DEF NotesOverrun, ExtTypeOK
  <1>1. CASE op = "validate"
    <2>1. UNCHANGED <<exports, registered, overrun, healthy>>
      BY <1>1 DEF Effect
    <2>2. /\ Moves(e)
          /\ \/ state'[e] = state[e]
             \/ state[e] = "loaded" /\ state'[e] = "validated"
      <3>1. CASE state' = state
        BY <3>1 DEF Moves, ExtTypeOK
      <3>2. CASE state' = Becomes(e, "validated")
        BY <3>2, <1>0, Table, BecomesMoves
      <3> QED
        BY <3>1, <3>2, <1>1 DEF Effect
    <2> QED
      BY <1>0, <1>n, <2>1, <2>2, WellMoved DEF ExtTypeOK, Made, Wired, HandedOn
  <1>2. CASE op = "initialize"
    <2>1. /\ exports' = [exports EXCEPT ![e] = made]
          /\ overrun' = IF exports[e] = NoExport THEN overrun ELSE overrun \cup {e}
          /\ state' = Becomes(e, "initialized")
          /\ UNCHANGED <<registered, healthy>>
      BY <1>2 DEF Effect
    <2>2. made.by = module[e] /\ module[e] # NoModule /\ state[e] \in Late
      BY <1>2 DEF CarriesWell
    <2>3. /\ Moves(e)
          /\ \/ state'[e] = state[e]
             \/ state[e] = "validated" /\ state'[e] = "initialized"
      BY <1>0, <2>1, Table, BecomesMoves
    <2>4. /\ exports' \in [Exts -> Export]
          /\ exports'[e].by = module[e]
          /\ \A f \in Exts \ {e} : exports'[f] = exports[f]
      BY <2>1, <2>2 DEF ExtTypeOK
    <2>5. NotesOverrun
      BY <2>1, <2>4 DEF NotesOverrun, ExtTypeOK
    <2>6. state'[e] \in Wired => HandedOn(e, registered[e])'
      <3>1. state'[e] \in Wired => exports[e].by # NoModule
        BY <1>0, <2>2, <2>3 DEF Made, Wired
      <3>2. NoExport.by = NoModule
        BY DEF NoExport
      <3> QED
        BY <2>1, <3>1, <3>2 DEF HandedOn
    <2> QED
      BY <1>0, <2>1, <2>3, <2>4, <2>5, <2>6, WellMoved DEF ExtTypeOK, Made, Wired
  <1>3. CASE op = "register"
    <2>1. /\ registered' = [registered EXCEPT ![e] = made]
          /\ state' = Becomes(e, "registered")
          /\ UNCHANGED <<exports, overrun, healthy>>
      BY <1>3 DEF Effect
    <2>2. made.by = module[e] /\ state[e] \in Late /\ HandedOn(e, made)
      BY <1>3 DEF CarriesWell
    <2>3. /\ Moves(e)
          /\ \/ state'[e] = state[e]
             \/ state[e] = "initialized" /\ state'[e] = "registered"
      BY <1>0, <2>1, Table, BecomesMoves
    <2>4. /\ registered' \in [Exts -> Export]
          /\ registered'[e] = made
          /\ \A f \in Exts \ {e} : registered'[f] = registered[f]
      BY <2>1 DEF ExtTypeOK
    <2>5. HandedOn(e, registered[e])'
      BY <2>1, <2>2, <2>4 DEF HandedOn
    <2> QED
      BY <1>0, <1>n, <2>1, <2>2, <2>3, <2>4, <2>5, WellMoved DEF ExtTypeOK, Made, Wired
  <1>4. CASE op = "activate"
    <2>1. state' = Becomes(e, "active") /\ UNCHANGED <<exports, registered, overrun, healthy>>
      BY <1>4 DEF Effect
    <2>2. /\ Moves(e)
          /\ \/ state'[e] = state[e]
             \/ state[e] \in {"registered", "monitored"} /\ state'[e] = "active"
      BY <1>0, <2>1, Table, BecomesMoves
    <2> QED
      BY <1>0, <1>n, <2>1, <2>2, WellMoved DEF ExtTypeOK, Made, Wired, HandedOn
  <1>5. CASE op = "monitor"
    <2>1. /\ \E ok \in BOOLEAN : healthy' = [healthy EXCEPT ![e] = ok]
          /\ UNCHANGED <<exports, registered, overrun>>
      BY <1>5 DEF Effect
    <2>2. healthy' \in [Exts -> BOOLEAN]
      BY <2>1 DEF ExtTypeOK
    <2>3. /\ Moves(e)
          /\ \/ state'[e] = state[e]
             \/ state[e] = "active" /\ state'[e] = "monitored"
      <3>1. CASE state' = state
        BY <3>1 DEF Moves, ExtTypeOK
      <3>2. CASE state[e] = "active" /\ state' = Becomes(e, "monitored")
        BY <3>2, <1>0, Table, BecomesMoves
      <3> QED
        BY <3>1, <3>2, <1>5 DEF Effect
    <2> QED
      BY <1>0, <1>n, <2>1, <2>2, <2>3, WellMoved DEF ExtTypeOK, Made, Wired, HandedOn
  <1>6. CASE op = "unload"
    <2>1. /\ state' = [state EXCEPT ![e] = "unloaded"]
          /\ UNCHANGED <<exports, registered, overrun, healthy>>
      BY <1>6 DEF Effect
    <2>2. state[e] # "absent"
      BY DEF CarriesWell
    <2>3. Moves(e) /\ state'[e] = "unloaded"
      BY <1>0, <2>1, <2>2, Table DEF Moves, ExtTypeOK
    <2> QED
      BY <1>0, <1>n, <2>1, <2>3, WellMoved DEF ExtTypeOK, Made, Wired
  <1> QED
    BY <1>1, <1>2, <1>3, <1>4, <1>5, <1>6 DEF Operation

\* What an operation takes when its check passes.
LEMMA TakenWell ==
  ASSUME ExtTypeOK, ModulesFit, NEW e \in Exts, NEW op \in Operation, Allows(e, op),
         NEW c \in Calls \cup {NoCall}
  PROVE  CarriesWell(e, op, Taken(c, e, op)) /\ Taken(c, e, op) \in Export
  <1>1. state[e] # "absent"
    BY DEF Allows, Operation
  <1>2. op = "initialize" => /\ Taken(c, e, op).by = module[e]
                             /\ module[e] # NoModule /\ state[e] = "validated"
    BY DEF Allows, Taken, ModulesFit
  <1>3. op = "register" => /\ Taken(c, e, op) = exports[e] /\ exports[e].by = module[e]
                           /\ module[e] # NoModule /\ state[e] = "initialized"
    BY DEF Allows, Taken, ModulesFit, Made
  <1>4. Taken(c, e, op) \in Export
    BY DEF Taken, ExtTypeOK, Export
  <1> QED
    BY <1>1, <1>2, <1>3, <1>4 DEF CarriesWell, Late, HandedOn

\* A call in flight still carries what fits after any step that keeps the modules of
\* late extensions.
LEMMA StillCarries ==
  ASSUME ExtTypeOK, NEW e \in Exts, Moves(e), NotesOverrun,
         \A f \in Exts : state[f] \in Late => module'[f] = module[f],
         NEW c \in ExtCall, CarriesWell(c.ext, c.op, c.made)
  PROVE  CarriesWell(c.ext, c.op, c.made)'
  <1>1. c.ext \in Exts
    BY DEF ExtCall
  <1>2. /\ state'[c.ext] # "absent"
        /\ c.op \in {"initialize", "register"} =>
              c.made.by = module'[c.ext] /\ module'[c.ext] # NoModule /\ state'[c.ext] \in Late
    BY <1>1, MoveLate DEF CarriesWell
  <1>3. ASSUME c.op = "register"
        PROVE  HandedOn(c.ext, c.made)'
    <2>1. HandedOn(c.ext, c.made) /\ c.made.by # NoModule
      BY <1>3 DEF CarriesWell
    <2>2. NoExport.by = NoModule
      BY DEF NoExport
    <2> QED
      BY <1>1, <2>1, <2>2 DEF HandedOn, NotesOverrun
  <1> QED
    BY <1>2, <1>3 DEF CarriesWell

\* Calls may end, and may begin with what fits.
LEMMA CallsStay ==
  ASSUME ExtInv, NEW e \in Exts, Moves(e), NotesOverrun,
         \A f \in Exts : state[f] \in Late => module'[f] = module[f],
         \A c \in Calls : \/ inFlight'[c] = inFlight[c]
                          \/ inFlight'[c] = NoCall
                          \/ /\ inFlight'[c] \in ExtCall
                             /\ CarriesWell(inFlight'[c].ext, inFlight'[c].op, inFlight'[c].made)
  PROVE  CallsFit'
  <1> SUFFICES ASSUME NEW c \in Calls, inFlight'[c] # NoCall
               PROVE  CarriesWell(inFlight[c].ext, inFlight[c].op, inFlight[c].made)'
    BY DEF CallsFit
  <1>1. PICK k \in ExtCall : inFlight'[c] = k /\ CarriesWell(k.ext, k.op, k.made)
    BY DEF ExtInv, ExtTypeOK, CallsFit
  <1>2. CarriesWell(k.ext, k.op, k.made)'
    BY <1>1, StillCarries DEF ExtInv
  <1> QED
    BY <1>1, <1>2 DEF CarriesWell, HandedOn

\* The end of an operation, direct or after its hook.
LEMMA EndStep ==
  ASSUME ExtInv, NEW e \in Exts, NEW op \in Operation, NEW made \in Export,
         CarriesWell(e, op, made), Effect(e, op, made), UNCHANGED module,
         inFlight' \in [Calls -> ExtCall \cup {NoCall}],
         \A c \in Calls : inFlight'[c] \in {inFlight[c], NoCall}
  PROVE  ExtInv' /\ Moves(e)
  <1>1. /\ Moves(e)
        /\ ModulesFit'
        /\ NotesOverrun
        /\ exports' \in [Exts -> Export]
        /\ registered' \in [Exts -> Export]
        /\ healthy' \in [Exts -> BOOLEAN]
    BY EffectMoves DEF ExtInv
  <1>2. ExtTypeOK'
    BY <1>1 DEF ExtInv, ExtTypeOK, Moves, NotesOverrun
  <1>3. CallsFit'
    BY <1>1, CallsStay
  <1> QED
    BY <1>1, <1>2, <1>3 DEF ExtInv

\* A module is only loaded while nothing was made of the one before.
LEMMA LoadStep ==
  ASSUME ExtInv, NEW e \in Exts, NEW m \in Modules, Load(e, m) \/ Install(e, m)
  PROVE  ExtInv' /\ Moves(e)
  <1>0. /\ module' = [module EXCEPT ![e] = m]
        /\ UNCHANGED <<exports, registered, overrun, healthy, inFlight>>
        /\ NotesOverrun
    BY DEF Load, Install, NotesOverrun, ExtInv, ExtTypeOK
  <1>1. /\ Moves(e)
        /\ state'[e] = "loaded"
        /\ state[e] \in {"absent", "discovered", "loaded"}
    <2>1. CASE Load(e, m)
      <3>1. state' = Becomes(e, "loaded") /\ state[e] # "absent" /\ MayBecome(e, "loaded")
        BY <2>1 DEF Load, Loads
      <3> QED
        BY <3>1, Table, BecomesMoves DEF ExtInv, ExtTypeOK, MayBecome, Contract!LifecycleState
    <2>2. CASE Install(e, m)
      BY <2>2 DEF Install, Moves, ExtInv, ExtTypeOK, Contract!LifecycleState
    <2> QED
      BY <2>1, <2>2
  <1>2. ExtTypeOK'
    BY <1>0, <1>1 DEF ExtInv, ExtTypeOK, Moves
  <1>3. m # NoModule
    BY ExtensionAssumption
  <1>4. ModulesFit'
    BY <1>0, <1>1, <1>3 DEF ExtInv, ExtTypeOK, ModulesFit, Moves, Made, Wired, HandedOn
  <1>5. CallsFit'
    BY <1>0, <1>1, CallsStay DEF ExtInv, ExtTypeOK, Late
  <1> QED
    BY <1>1, <1>2, <1>4, <1>5 DEF ExtInv

\* An id arrives that the runtime did not know.
LEMMA DiscoverStep ==
  ASSUME ExtInv, NEW e \in Exts, Discover(e)
  PROVE  ExtInv' /\ Moves(e)
  <1>1. /\ state[e] = "absent"
        /\ state' = [state EXCEPT ![e] = "discovered"]
        /\ UNCHANGED <<module, exports, registered, overrun, healthy, inFlight>>
        /\ NotesOverrun
    BY DEF Discover, NotesOverrun, ExtInv, ExtTypeOK
  <1>2. Moves(e) /\ state'[e] = "discovered"
    BY <1>1, Table DEF Moves, ExtInv, ExtTypeOK, Contract!LifecycleState
  <1>3. ExtTypeOK'
    BY <1>1, <1>2 DEF ExtInv, ExtTypeOK, Moves
  <1>4. ModulesFit'
    BY <1>1, <1>2, WellMoved DEF ExtInv, ExtTypeOK, Made, Wired
  <1>5. CallsFit'
    BY <1>1, <1>2, CallsStay
  <1> QED
    BY <1>2, <1>3, <1>4, <1>5 DEF ExtInv

\* A call that has passed its check waits for its hook.
LEMMA ExtBeginStep ==
  ASSUME ExtInv, NEW c \in Calls, NEW e \in Exts, NEW op \in Operation, Begin(c, e, op)
  PROVE  ExtInv' /\ Moves(e)
  <1> DEFINE made == Taken(c, e, op)
  <1>1. /\ inFlight' = [inFlight EXCEPT ![c] = [op |-> op, ext |-> e, made |-> made]]
        /\ UNCHANGED <<state, module, exports, registered, overrun, healthy>>
        /\ Allows(e, op) /\ NotesOverrun
    BY DEF Begin, NotesOverrun, ExtInv, ExtTypeOK
  <1>2. CarriesWell(e, op, made) /\ made \in Export
    BY <1>1, TakenWell DEF ExtInv
  <1>3. PICK t : t = made
    OBVIOUS
  <1> HIDE DEF made
  <1>4. [op |-> op, ext |-> e, made |-> t] \in ExtCall
    BY <1>2, <1>3 DEF ExtCall
  <1>5. ExtTypeOK' /\ ModulesFit' /\ Moves(e)
    BY <1>1, <1>3, <1>4 DEF ExtInv, ExtTypeOK, ModulesFit, Moves, HandedOn
  <1>6. \A d \in Calls : \/ inFlight'[d] = inFlight[d]
                         \/ inFlight'[d] = [op |-> op, ext |-> e, made |-> t]
    BY <1>1, <1>3 DEF ExtInv, ExtTypeOK
  <1>7. CallsFit'
    BY <1>1, <1>2, <1>3, <1>4, <1>5, <1>6, CallsStay
  <1> QED
    BY <1>5, <1>7 DEF ExtInv

\* A hook answered or rejected.
LEMMA HookStep ==
  ASSUME ExtInv, NEW c \in Calls, Finish(c) \/ HookFails(c)
  PROVE  ExtInv' /\ \E e \in Exts : Moves(e)
  <1>1. PICK k \in ExtCall : k = inFlight[c] /\ CarriesWell(k.ext, k.op, k.made)
    BY DEF ExtInv, ExtTypeOK, CallsFit, Finish, HookFails
  <1>2. PICK e \in Exts, op \in Operation, made \in Export :
           k = [op |-> op, ext |-> e, made |-> made]
    BY <1>1 DEF ExtCall
  <1>3. /\ inFlight' \in [Calls -> ExtCall \cup {NoCall}]
        /\ \A d \in Calls : inFlight'[d] \in {inFlight[d], NoCall}
    BY DEF Finish, HookFails, ExtInv, ExtTypeOK
  <1>4. CASE Finish(c)
    <2>1. CarriesWell(e, op, made) /\ Effect(e, op, made) /\ UNCHANGED module
      BY <1>1, <1>2, <1>4 DEF Finish
    <2> QED
      BY <1>3, <2>1, EndStep
  <1>5. CASE HookFails(c)
    <2>1. UNCHANGED <<state, module, exports, registered, overrun, healthy>> /\ NotesOverrun
      BY <1>5 DEF HookFails, NotesOverrun, ExtInv, ExtTypeOK
    <2>2. ExtTypeOK' /\ ModulesFit' /\ Moves(e)
      BY <2>1, <1>3 DEF ExtInv, ExtTypeOK, ModulesFit, Moves, HandedOn
    <2>3. CallsFit'
      BY <1>3, <2>1, <2>2, CallsStay
    <2> QED
      BY <2>2, <2>3 DEF ExtInv
  <1> QED
    BY <1>4, <1>5

\* Every step moves one extension along the table and keeps the invariant.
LEMMA ExtStep ==
  ASSUME ExtInv, ExtNext
  PROVE  ExtInv' /\ \E e \in Exts : Moves(e)
  <1>1. ASSUME NEW e \in Exts, Discover(e)
        PROVE  ExtInv' /\ Moves(e)
    BY <1>1, DiscoverStep
  <1>2. ASSUME NEW e \in Exts, NEW m \in Modules, Load(e, m) \/ Install(e, m)
        PROVE  ExtInv' /\ Moves(e)
    BY <1>2, LoadStep
  <1>3. ASSUME NEW e \in Exts, NEW op \in Operation, Direct(e, op)
        PROVE  ExtInv' /\ Moves(e)
    <2>1. PICK made : made = Taken(NoCall, e, op)
      OBVIOUS
    <2>2. CarriesWell(e, op, made) /\ made \in Export
      BY <1>3, <2>1, TakenWell DEF Direct, ExtInv
    <2>3. Effect(e, op, made) /\ UNCHANGED <<module, inFlight>>
      BY <1>3, <2>1 DEF Direct
    <2> QED
      BY <2>2, <2>3, EndStep DEF ExtInv, ExtTypeOK
  <1>4. ASSUME NEW e \in Exts, NEW op \in Operation, NEW c \in Calls, Begin(c, e, op)
        PROVE  ExtInv' /\ Moves(e)
    BY <1>4, ExtBeginStep
  <1>5. ASSUME NEW c \in Calls, Finish(c) \/ HookFails(c)
        PROVE  ExtInv' /\ \E e \in Exts : Moves(e)
    BY <1>5, HookStep
  <1> QED
    BY <1>1, <1>2, <1>3, <1>4, <1>5 DEF ExtNext

\* It holds at the start.
LEMMA ExtAtFirst == ExtInit => ExtInv
  BY DEF ExtInit, ExtInv, ExtTypeOK, ModulesFit, CallsFit, Made, Wired, Export, NoExport,
         Contract!LifecycleState

\* The inductive invariant: an extension that got past validation still has the module
\* it had then, and so has every call that waits for a hook of it.
THEOREM ExtAlways == ExtSpec => []ExtInv
  <1>1. ExtInv /\ [ExtNext]_extVars => ExtInv'
    <2>1. CASE ExtNext
      BY <2>1, ExtStep
    <2>2. ASSUME ExtInv, UNCHANGED extVars
          PROVE  ExtInv'
      BY <2>2 DEF extVars, ExtInv, ExtTypeOK, ModulesFit, CallsFit, CarriesWell, HandedOn
    <2> QED
      BY <2>1, <2>2
  <1> QED
    BY <1>1, ExtAtFirst, PTL DEF ExtSpec

-----------------------------------------------------------------------------
(* The theorems.                                                           *)

\* The runtime's records and the calls in flight are well typed.
THEOREM ExtTypeCorrect == ExtSpec => []ExtTypeOK
  <1>1. ExtInv => ExtTypeOK
    BY DEF ExtInv
  <1> QED
    BY <1>1, ExtAlways, PTL

\* What invoke() serves was made by an initialize() of the loaded module, and so was
\* what register() handed to the host, although both write before #transition() may
\* refuse them; the two differ only where a second initialize() overran the first.
THEOREM InvokedIsWired == ExtSpec => []InvocableIsWired
  <1>1. ExtInv => InvocableIsWired
    BY DEF ExtInv, ModulesFit, InvocableIsWired, Invocable, Made, Wired, HandedOn
  <1> QED
    BY <1>1, ExtAlways, PTL

\* However the calls overlap, the states of the extensions follow the published table
\* one edge at a time: ExtensionRuntime implements ExtensionContract.
THEOREM FollowsTable == ExtSpec => ImplementsContract
  <1>1. ExtInit => Contract!ContractInit
    BY DEF ExtInit, Contract!ContractInit
  <1>2. ExtInv /\ [ExtNext]_extVars => [Contract!ContractNext]_state
    <2>1. ASSUME ExtInv, ExtNext
          PROVE  [Contract!ContractNext]_state
      BY <2>1, ExtStep, MoveContract DEF ExtInv
    <2>2. CASE UNCHANGED extVars
      BY <2>2 DEF extVars
    <2> QED
      BY <2>1, <2>2
  <1> QED
    BY <1>1, <1>2, ExtAlways, PTL DEF ExtSpec, ImplementsContract, Contract!Contract

-----------------------------------------------------------------------------
(* The agent runtime.                                                      *)

\* The lifecycle has eight steps, and only its last is the shutdown.
LEMMA Lifecycle ==
  /\ Len(Steps) = 8
  /\ Finished = 9
  /\ DOMAIN Steps = 1 .. 8
  /\ Steps[8] = "shutdown"
  /\ \A i \in 1 .. 7 : Steps[i] # "shutdown"
  BY DEF Steps, Finished

-----------------------------------------------------------------------------
(* The invariant.                                                          *)

\* A run that has not failed has been shut down exactly when it has finished; one that
\* failed is at its last step, or beyond it.
RowFits(row) ==
    /\ row.via = "none" => row = NoRun
    /\ row.via # "none" => row.agent \in Agents
    /\ ~row.failing => row.shutdowns = IF row.step = 9 THEN 1 ELSE 0
    /\ row.failing => row.step \in {8, 9}
    /\ row.failing /\ row.step = 8 => row.via = "runtime" /\ row.shutdowns \in 0 .. 1
    /\ row.failing /\ row.step = 9 /\ row.via = "runtime" => row.shutdowns \in 1 .. 2

\* What makes a record say that it runs.
Keeps(row, a) ==
    /\ row.via = "runtime" /\ row.agent = a
    /\ row.step \in 1 .. 8 /\ ~row.failing

RunningIsRun ==
    \A a \in Agents : condition[a] = "running" => \E r \in Runs : Keeps(runs[r], a)

AgentInv ==
    /\ AgentTypeOK
    /\ \A r \in Runs : RowFits(runs[r])
    /\ RunningIsRun

-----------------------------------------------------------------------------
(* The steps.                                                              *)

\* A step of one run: what must be shown of the new row and of the conditions.
LEMMA OneRun ==
  ASSUME AgentInv, NEW r \in Runs, NEW row \in RunRow, RowFits(row),
         runs' \in [Runs -> RunRow],
         \A q \in Runs : runs'[q] = IF q = r THEN row ELSE runs[q],
         known' = known,
         condition' \in [Agents -> {"absent", "registered", "running", "idle", "error"}],
         \A a \in Agents : condition'[a] = "running" =>
             \/ Keeps(row, a)
             \/ condition[a] = "running" /\ ~Keeps(runs[r], a)
  PROVE  AgentInv'
  <1>1. AgentTypeOK'
    BY DEF AgentInv, AgentTypeOK
  <1>2. \A q \in Runs : runs'[q] = IF q = r THEN row ELSE runs[q]
    OBVIOUS
  <1>3. \A q \in Runs : RowFits(runs'[q])
    BY <1>2 DEF AgentInv
  <1>4. RunningIsRun'
    <2> SUFFICES ASSUME NEW a \in Agents, condition'[a] = "running"
                 PROVE  \E q \in Runs : Keeps(runs'[q], a)
      BY DEF RunningIsRun, Keeps
    <2>1. CASE Keeps(row, a)
      BY <2>1, <1>2
    <2>2. CASE condition[a] = "running" /\ ~Keeps(runs[r], a)
      <3>1. PICK q \in Runs : Keeps(runs[q], a)
        BY <2>2 DEF AgentInv, RunningIsRun
      <3>2. q # r
        BY <3>1, <2>2
      <3> QED
        BY <3>1, <3>2, <1>2
    <2> QED
      BY <2>1, <2>2
  <1> QED
    BY <1>1, <1>3, <1>4 DEF AgentInv, RowFits

LEMMA RegisterStep ==
  ASSUME AgentInv, NEW a \in Agents, Register(a)
  PROVE  AgentInv'
  <1>1. AgentTypeOK'
    BY DEF AgentInv, AgentTypeOK, Register
  <1>2. RunningIsRun'
    BY DEF AgentInv, AgentTypeOK, Register, RunningIsRun, Keeps
  <1>3. \A r \in Runs : RowFits(runs'[r])
    BY DEF AgentInv, Register
  <1> QED
    BY <1>1, <1>2, <1>3 DEF AgentInv, RowFits

\* A run is taken.
LEMMA BeginStep ==
  ASSUME AgentInv, NEW r \in Runs, RunAgent(r) \/ \E a \in Agents : RunDefined(r, a)
  PROVE  AgentInv'
  <1>1. \A b \in Agents, via \in {"runtime", "sdk"} :
          Begun(via, b) \in RunRow /\ RowFits(Begun(via, b))
    BY Lifecycle DEF Begun, RunRow, RowFits
  <1>2. PICK b \in Agents, via \in {"runtime", "sdk"} :
          /\ \/ via = "runtime" /\ condition' = [condition EXCEPT ![b] = "running"]
             \/ via = "sdk" /\ condition' = condition
          /\ runs' = [runs EXCEPT ![r] = Begun(via, b)]
          /\ known' = known
          /\ runs[r] = NoRun
    BY DEF RunAgent, RunDefined, AgentInv, AgentTypeOK
  <1>3. PICK row \in RunRow : row = Begun(via, b) /\ RowFits(row)
    BY <1>1
  <1>4. via = "runtime" => Keeps(row, b)
    BY <1>3 DEF Keeps, Begun
  <1>5. \A a \in Agents : ~Keeps(runs[r], a)
    BY <1>2 DEF Keeps, NoRun
  <1>6. condition' \in [Agents -> {"absent", "registered", "running", "idle", "error"}]
    BY <1>2 DEF AgentInv, AgentTypeOK
  <1>7. \A a \in Agents : condition'[a] = "running" =>
           Keeps(row, a) \/ condition[a] = "running"
    BY <1>2, <1>4 DEF AgentInv, AgentTypeOK
  <1>8. /\ runs' \in [Runs -> RunRow]
        /\ \A q \in Runs : runs'[q] = IF q = r THEN row ELSE runs[q]
    BY <1>2, <1>3 DEF AgentInv, AgentTypeOK
  <1> QED
    BY <1>2, <1>3, <1>5, <1>6, <1>7, <1>8, OneRun

\* The rows that a step of a run leaves.
LEMMA Awaited ==
  ASSUME AgentInv, NEW r \in Runs, Awaiting(r)
  PROVE  /\ runs[r] \in RunRow
         /\ RowFits(runs[r])
         /\ runs[r].step \in 1 .. 8
         /\ runs[r].via \in {"runtime", "sdk"}
         /\ runs[r].agent \in Agents
         /\ ShutDown(r) = runs[r].shutdowns + (IF runs[r].step = 8 THEN 1 ELSE 0)
  <1>1. runs[r] \in RunRow /\ RowFits(runs[r])
    BY DEF AgentInv, AgentTypeOK
  <1>2. runs[r].step \in 1 .. 8
    BY Lifecycle DEF Awaiting
  <1>3. runs[r].via \in {"runtime", "sdk"} /\ runs[r].agent \in Agents
    BY <1>1, <1>2 DEF RowFits, NoRun, RunRow
  <1>4. ShutDown(r) = runs[r].shutdowns + (IF runs[r].step = 8 THEN 1 ELSE 0)
    BY <1>2, Lifecycle DEF ShutDown
  <1> QED
    BY <1>1, <1>2, <1>3, <1>4

LEMMA MoveStep ==
  ASSUME AgentInv, NEW r \in Runs, PassStep(r) \/ ThrowStep(r) \/ ShutdownStep(r)
  PROVE  AgentInv'
  <1>1. Awaiting(r) /\ known' = known
    BY DEF PassStep, ThrowStep, ShutdownStep
  <1>2. PICK old \in RunRow : old = runs[r]
    BY <1>1, Awaited
  <1>3. /\ RowFits(old)
        /\ old.step \in 1 .. 8
        /\ old.via \in {"runtime", "sdk"}
        /\ old.agent \in Agents
        /\ old.shutdowns \in 0 .. 2
        /\ ShutDown(r) = old.shutdowns + (IF old.step = 8 THEN 1 ELSE 0)
    BY <1>1, <1>2, Awaited DEF RunRow
  <1>4. condition \in [Agents -> {"absent", "registered", "running", "idle", "error"}]
    BY DEF AgentInv, AgentTypeOK
  <1>5. PICK row : row = runs'[r]
    OBVIOUS
  <1>6. /\ \A q \in Runs : q # r => runs'[q] = runs[q]
        /\ runs' = [q \in Runs |-> runs'[q]]
        /\ row = [via |-> old.via, agent |-> old.agent, step |-> row.step,
                  failing |-> row.failing,
                  shutdowns |-> old.shutdowns + (IF old.step = 8 THEN 1 ELSE 0)]
        /\ \/ /\ PassStep(r) /\ ~old.failing
              /\ row.step = old.step + 1 /\ row.failing = FALSE
           \/ /\ ThrowStep(r) /\ ~old.failing
              /\ row.step = (IF old.via = "sdk" THEN 9 ELSE 8) /\ row.failing = TRUE
           \/ /\ ShutdownStep(r) /\ old.failing
              /\ row.step = 9 /\ row.failing = TRUE
    <2>1. CASE PassStep(r)
      <3>1. runs' = [runs EXCEPT ![r].step = @ + 1, ![r].shutdowns = ShutDown(r)]
        BY <2>1, Lifecycle DEF PassStep
      <3>2. runs' = [q \in Runs |-> runs'[q]] /\ \A q \in Runs : q # r => runs'[q] = runs[q]
        BY <3>1 DEF AgentInv, AgentTypeOK
      <3>3. ~old.failing
        BY <2>1, <1>2 DEF PassStep
      <3>4. row = [via |-> old.via, agent |-> old.agent, step |-> old.step + 1,
                   failing |-> FALSE, shutdowns |-> ShutDown(r)]
        BY <3>1, <3>3, <1>2, <1>5 DEF AgentInv, AgentTypeOK, RunRow
      <3> QED
        BY <2>1, <3>2, <3>3, <3>4, <1>3
    <2>2. CASE ThrowStep(r)
      <3>1. runs' = [runs EXCEPT ![r].step = IF runs[r].via = "sdk" THEN 9 ELSE 8,
                                 ![r].failing = TRUE,
                                 ![r].shutdowns = ShutDown(r)]
        BY <2>2, Lifecycle DEF ThrowStep
      <3>2. runs' = [q \in Runs |-> runs'[q]] /\ \A q \in Runs : q # r => runs'[q] = runs[q]
        BY <3>1 DEF AgentInv, AgentTypeOK
      <3>3. ~old.failing
        BY <2>2, <1>2 DEF ThrowStep
      <3>4. row = [via |-> old.via, agent |-> old.agent, step |-> (IF old.via = "sdk" THEN 9 ELSE 8),
                   failing |-> TRUE, shutdowns |-> ShutDown(r)]
        BY <3>1, <3>3, <1>2, <1>5 DEF AgentInv, AgentTypeOK, RunRow
      <3> QED
        BY <2>2, <3>2, <3>3, <3>4, <1>3
    <2>3. CASE ShutdownStep(r)
      <3>1. runs' = [runs EXCEPT ![r].step = 9, ![r].shutdowns = ShutDown(r)]
        BY <2>3, Lifecycle DEF ShutdownStep
      <3>2. runs' = [q \in Runs |-> runs'[q]] /\ \A q \in Runs : q # r => runs'[q] = runs[q]
        BY <3>1 DEF AgentInv, AgentTypeOK
      <3>3. old.failing
        BY <2>3, <1>2 DEF ShutdownStep
      <3>4. row = [via |-> old.via, agent |-> old.agent, step |-> 9,
                   failing |-> TRUE, shutdowns |-> ShutDown(r)]
        BY <3>1, <3>3, <1>2, <1>5 DEF AgentInv, AgentTypeOK, RunRow
      <3> QED
        BY <2>3, <3>2, <3>3, <3>4, <1>3
    <2> QED
      BY <2>1, <2>2, <2>3
  <1>7. condition' \in [Agents -> {"absent", "registered", "running", "idle", "error"}]
    BY <1>2, <1>3, <1>4 DEF Ended, PassStep, ThrowStep, ShutdownStep
  <1>8. row \in RunRow /\ RowFits(row)
    <2>1. /\ row.via = old.via /\ row.agent = old.agent
          /\ row.shutdowns = old.shutdowns + (IF old.step = 8 THEN 1 ELSE 0)
      BY <1>6
    <2>2. row.step \in 1 .. 9 /\ row.failing \in BOOLEAN
      <3>1. row.step \in 1 .. 9
        BY <1>3, <1>6
      <3>2. row.failing \in BOOLEAN
        BY <1>6
      <3> QED
        BY <3>1, <3>2
    <2>3. row.shutdowns \in 0 .. 2
      BY <1>3, <1>6, <2>1, <2>2 DEF RowFits
    <2>4. row \in RunRow
      BY <1>3, <1>6, <2>1, <2>2, <2>3, Lifecycle DEF RunRow
    <2>5. RowFits(row)
      BY <1>3, <1>6, <2>1, <2>2 DEF RowFits
    <2> QED
      BY <2>4, <2>5
  <1>9. ASSUME NEW a \in Agents, condition'[a] = "running"
        PROVE  \/ Keeps(row, a)
               \/ condition[a] = "running" /\ ~Keeps(old, a)
    <2>0. row.via = old.via /\ row.agent = old.agent
      BY <1>6
    <2>1. CASE PassStep(r) /\ row.step = old.step + 1 /\ row.failing = FALSE
      <3>1. condition' = IF old.step = 8 THEN Ended(r, "idle") ELSE condition
        BY <2>1, <1>2, Lifecycle DEF PassStep
      <3>2. CASE old.step = 8
        BY <3>1, <3>2, <1>2, <1>3, <1>4, <1>9 DEF Ended, Keeps
      <3>3. CASE old.step # 8
        <4>1. condition[a] = "running" /\ row.step \in 1 .. 8
          BY <3>1, <3>3, <2>1, <1>3, <1>9
        <4> QED
          BY <4>1, <2>0, <2>1 DEF Keeps
      <3> QED
        BY <3>2, <3>3
    <2>2. CASE ThrowStep(r)
      <3>1. condition' = Ended(r, "error")
        BY <2>2 DEF ThrowStep
      <3> QED
        BY <3>1, <1>2, <1>3, <1>4, <1>9 DEF Ended, Keeps
    <2>3. CASE ShutdownStep(r)
      <3>1. condition' = condition /\ old.failing
        BY <2>3, <1>2 DEF ShutdownStep
      <3> QED
        BY <3>1, <1>9 DEF Keeps
    <2> QED
      BY <1>6, <2>1, <2>2, <2>3
  <1>10. runs' \in [Runs -> RunRow] /\ \A q \in Runs : runs'[q] = IF q = r THEN row ELSE runs[q]
    <2>1. runs \in [Runs -> RunRow]
      BY DEF AgentInv, AgentTypeOK
    <2>2. \A q \in Runs : runs'[q] = IF q = r THEN row ELSE runs[q]
      BY <1>5, <1>6
    <2> QED
      BY <2>1, <2>2, <1>6, <1>8
  <1> QED
    BY <1>1, <1>2, <1>7, <1>8, <1>9, <1>10, OneRun

LEMMA AgentAtFirst == AgentInit => AgentInv
  BY Lifecycle DEF AgentInit, AgentInv, AgentTypeOK, RunningIsRun, RowFits, NoRun, RunRow

\* The inductive invariant: the rows of the runs account for the shutdowns and for
\* every record that says it runs.
THEOREM AgentAlways == AgentSpec => []AgentInv
  <1>1. AgentInv /\ [AgentNext]_agentVars => AgentInv'
    <2>1. ASSUME AgentInv, AgentNext
          PROVE  AgentInv'
      BY <2>1, RegisterStep, BeginStep, MoveStep DEF AgentNext
    <2>2. ASSUME AgentInv, UNCHANGED agentVars
          PROVE  AgentInv'
      BY <2>2 DEF agentVars, AgentInv, AgentTypeOK, RowFits, RunningIsRun, Keeps
    <2> QED
      BY <2>1, <2>2
  <1> QED
    BY <1>1, AgentAtFirst, PTL DEF AgentSpec

-----------------------------------------------------------------------------
(* The theorems.                                                           *)

\* The records and the runs on them are well typed.
THEOREM AgentTypeCorrect == AgentSpec => []AgentTypeOK
  <1>1. AgentInv => AgentTypeOK
    BY DEF AgentInv
  <1> QED
    BY <1>1, AgentAlways, PTL

\* No record of an agent says that it runs when no run of it is left that has not
\* failed, and every run that the runtime took ends after a shutdown, however many
\* runs overlap and wherever they throw.
THEOREM EveryRunSettles == AgentSpec => []RunsSettle
  <1>1. AgentInv => RunsSettle
    <2> SUFFICES ASSUME AgentInv PROVE RunsSettle
      OBVIOUS
    <2>1. ASSUME NEW a \in Agents, condition[a] = "running"
          PROVE  \E r \in Runs : /\ runs[r].via = "runtime" /\ runs[r].agent = a
                                 /\ Awaiting(r) /\ ~runs[r].failing
      <3>1. PICK r \in Runs : Keeps(runs[r], a)
        BY <2>1 DEF AgentInv, RunningIsRun
      <3>2. Awaiting(r)
        BY <3>1, Lifecycle DEF Awaiting, Keeps
      <3> QED
        BY <3>1, <3>2 DEF Keeps
    <2>2. ASSUME NEW r \in Runs, runs[r].via = "runtime", runs[r].step = Finished
          PROVE  runs[r].shutdowns \in (IF runs[r].failing THEN 1 .. 2 ELSE {1})
      BY <2>2, Lifecycle DEF AgentInv, RowFits
    <2> QED
      BY <2>1, <2>2 DEF RunsSettle
  <1> QED
    BY <1>1, AgentAlways, PTL

-----------------------------------------------------------------------------
(* The composition.                                                        *)

LEMMA PartsStart ==
  Init => /\ FactoryInit /\ ExtInit /\ AgentInit
          /\ GraphInit /\ ServicesInit /\ KnowledgeInit
  BY DEF Init, GraphInit

LEMMA PartsStep ==
  ASSUME [Next]_<<factoryVars, extVars, agentVars, graphVars, servicesVars, knowledgeVars, part>>
  PROVE  /\ [FactoryNext]_factoryVars /\ [ExtNext]_extVars /\ [AgentNext]_agentVars
         /\ [GraphNext]_graphVars /\ [ServicesNext]_servicesVars
         /\ [KnowledgeNext]_knowledgeVars
  <1>1. /\ FactoryNext \/ UNCHANGED factoryVars
        /\ ExtNext \/ UNCHANGED extVars
        /\ AgentNext \/ UNCHANGED agentVars
    BY DEF Next
  <1>2. /\ GraphNext \/ UNCHANGED graphVars
        /\ ServicesNext \/ UNCHANGED servicesVars
        /\ KnowledgeNext \/ UNCHANGED knowledgeVars
    BY DEF Next
  <1> QED
    BY <1>1, <1>2

\* Whatever part of the runtime runs, every part behaves as it does by itself.
THEOREM PartsOfTheRuntime ==
  Spec => /\ FactorySpec /\ ExtSpec /\ AgentSpec
          /\ GraphSpec /\ ServicesSpec /\ KnowledgeSpec
  <1>1. [Next]_<<factoryVars, extVars, agentVars, graphVars, servicesVars, knowledgeVars, part>>
           => /\ [FactoryNext]_factoryVars /\ [ExtNext]_extVars /\ [AgentNext]_agentVars
              /\ [GraphNext]_graphVars /\ [ServicesNext]_servicesVars
              /\ [KnowledgeNext]_knowledgeVars
    BY PartsStep
  <1> QED
    BY <1>1, PartsStart, PTL
       DEF Spec, FactorySpec, ExtSpec, AgentSpec, GraphSpec, ServicesSpec, KnowledgeSpec

\* Every variable of the part that runs keeps its type.
THEOREM RuntimeTyped == Spec => []TypeOK
  <1>1. ASSUME FactoryTypeOK, ExtTypeOK, AgentTypeOK, GraphTypeOK, ServicesTypeOK, KnowledgeTypeOK
        PROVE  TypeOK
    BY <1>1 DEF TypeOK
  <1> QED
    BY <1>1, PartsOfTheRuntime, FactoryTyped, ExtTypeCorrect, AgentTypeCorrect, GraphTyped,
       ServicesTyped, RecordsTyped, PTL

=============================================================================
