------------------------------ MODULE Process ------------------------------
(***************************************************************************)
(* The whole process as an operator and a client of the admin API see it:  *)
(* the start of src/src/main.rs and src/src/config.rs, the handlers of     *)
(* src/src/admin.rs between storage, runtime and admin.log, the end by     *)
(* Ctrl-C, and crashes anywhere.                                           *)
(*                                                                         *)
(* ConfigStorage supplies the storage step by step.  The runtime is the    *)
(* configuration it serves for each server (HttpRuntime and UpstreamDrain  *)
(* have its inside).  One handler runs at a time.                          *)
(***************************************************************************)
EXTENDS ConfigStorage, Naturals

CONSTANTS
    Unknown,    \* a client has not been told what became of its last call
    MaxErrors   \* bound: I/O errors of saves in a row

ASSUME UnknownAssumption == Unknown \notin {None} \cup Server
Operations == {"create", "update", "enable", "disable", "delete", "change", "reload"}
Steps == {"save", "apply", "answer"}
Calls == [server : Servers, op : Operations, step : Steps]

ASSUME CallAssumption == None \notin Calls
ASSUME BoundAssumption == MaxErrors \in Nat

VARIABLES
    at,         \* where main is
    system,     \* yiz-tunnel.json
    todo,       \* enabled servers that the start has not applied yet
    served,     \* the configuration that the runtime serves of each server
    call,       \* the admin handler in progress
    told,       \* history: what the last call on a server said of it
    unbound,    \* history: servers that the start could not bind
    unstopped,  \* history: servers whose stop an I/O error has prevented
    errors      \* history: saves that have failed since one succeeded or the start

process == <<at, system, todo>>
handler == <<served, call, told, unbound, unstopped, errors>>
processVars == <<vars, process, handler>>

Starting == {"system", "fill", "load", "logs", "apply", "listen"}
Places == Starting \cup {"down", "serving", "closing"}
SystemFiles == {"missing", "torn", "valid", "invalid", "unaddressable"}

ProcessInit ==
    /\ Init
    /\ at = "down" /\ system = "missing" /\ todo = {}
    /\ served = [s \in Servers |-> None]
    /\ call = None
    /\ told = [s \in Servers |-> Unknown]
    /\ unbound = {} /\ unstopped = {} /\ errors = 0

Goto(place) == at' = place
Enabled(server) == server # None /\ server.enabled

----------------------------------------------------------------------------
(* The start.                                                              *)

\* The operator writes the system configuration, also one whose admin host is
\* accepted but is no address.
EditSystem(content) ==
    /\ at = "down"
    /\ system' = content
    /\ UNCHANGED <<vars, at, todo, handler>>

Start ==
    /\ at = "down" /\ phase = "down"
    /\ Goto("system")
    /\ UNCHANGED <<vars, system, todo, handler>>

\* load_or_create_system_config: a missing file is created, then truncated ...
CreateSystem ==
    /\ at = "system" /\ system = "missing"
    /\ system' = "torn"
    /\ Goto("fill")
    /\ UNCHANGED <<vars, todo, handler>>

\* ... and filled.
FillSystem ==
    /\ at = "fill"
    /\ system' = "valid"
    /\ Goto("system")
    /\ UNCHANGED <<vars, todo, handler>>

ReadSystem ==
    /\ at = "system" /\ system \in {"valid", "unaddressable"}
    /\ Goto("load")
    /\ UNCHANGED <<vars, system, todo, handler>>

\* HttpServerStorage::load_or_empty, and the list of what is to be applied.
LoadRules ==
    /\ at = "load"
    /\ Restart
    /\ Goto("logs")
    /\ todo' = {s \in Servers : Enabled(memory'[s])}
    /\ UNCHANGED <<system, handler>>

\* LogManager::new and HttpRuntime::new.
OpenLogs ==
    /\ at = "logs" /\ phase = "idle"
    /\ Goto("apply")
    /\ UNCHANGED <<vars, system, todo, handler>>

\* A server that cannot be bound is reported on stderr and left out.
ApplyEnabled(s) ==
    /\ at = "apply" /\ s \in todo
    /\ todo' = todo \ {s}
    /\ \/ served' = [served EXCEPT ![s] = memory[s]] /\ UNCHANGED unbound
       \/ unbound' = unbound \cup {s} /\ UNCHANGED served
    /\ UNCHANGED <<vars, at, system, call, told, unstopped, errors>>

\* The address is parsed only now, when the servers are running already.
ParseAddress ==
    /\ at = "apply" /\ todo = {} /\ system = "valid"
    /\ Goto("listen")
    /\ UNCHANGED <<vars, system, todo, handler>>

\* The listener is bound and the admin API served.
Serve ==
    /\ at = "listen"
    /\ Goto("serving")
    /\ UNCHANGED <<vars, system, todo, handler>>

----------------------------------------------------------------------------
(* The handlers.  A call that the storage refuses has no effect.           *)

\* The call begins in the storage: what was said of the server may be changed.
BeginCall(s, op) ==
    /\ at = "serving" /\ call = None
    /\ call' = [server |-> s, op |-> op, step |-> "save"]
    /\ told' = [told EXCEPT ![s] = Unknown]
    /\ UNCHANGED <<process, served, unbound, unstopped, errors>>

HandleCreate(s, graceful) == BeginCall(s, "create") /\ CallCreate(s, graceful)
HandleUpdate(s, graceful) == BeginCall(s, "update") /\ CallUpdate(s, graceful)
HandleSetEnabled(s, on) ==
    BeginCall(s, IF on THEN "enable" ELSE "disable") /\ CallSetEnabled(s, on)
HandleDelete(s) == BeginCall(s, "delete") /\ CallDelete(s)
HandleUpstream(s, up) ==
    BeginCall(s, "change") /\ (CallAddUpstream(s, up) \/ CallDeleteUpstream(s, up))
HandleRoute(s, route) ==
    BeginCall(s, "change") /\ (CallAddRoute(s, route) \/ CallDeleteRoute(s, route))

\* reload only reads the storage, and its answer says nothing of the server.
HandleReload(s) ==
    /\ at = "serving" /\ call = None
    /\ phase = "idle" /\ s \in Present(memory)
    /\ call' = [server |-> s, op |-> "reload", step |-> "apply"]
    /\ UNCHANGED <<vars, process, served, told, unbound, unstopped, errors>>

In(step) == call # None /\ call.step = step
Continue(step) == call' = [call EXCEPT !.step = step]

\* Faulty variant: the handler does not wait for the end of the save.
SaveStepUnawaited ==
    /\ In("save")
    /\ Validate \/ WriteTmp \/ CheckTmp \/ Backup
    /\ Continue("apply")
    /\ UNCHANGED <<process, served, told, unbound, unstopped, errors>>

\* A step of the save; the handler returns with the error if it is the last.
SaveStep ==
    /\ In("save")
    /\ Validate \/ WriteTmp \/ CheckTmp \/ Backup
    /\ call' = IF phase' = "idle" THEN None ELSE call
    /\ UNCHANGED <<process, served, told, unbound, unstopped, errors>>

Saved ==
    /\ In("save")
    /\ Rename
    /\ Continue("apply")
    /\ errors' = 0
    /\ UNCHANGED <<process, served, told, unbound, unstopped>>

\* Faulty variant: the handler goes on after an I/O error.
SaveErrorIgnored ==
    /\ In("save")
    /\ SaveFails
    /\ Continue("apply")
    /\ errors < MaxErrors /\ errors' = errors + 1
    /\ UNCHANGED <<process, served, told, unbound, unstopped>>

\* After an I/O error the runtime is not touched.
SaveError ==
    /\ In("save")
    /\ SaveFails
    /\ call' = None
    /\ unstopped' = IF call.op = "disable" /\ served[call.server] # None
                    THEN unstopped \cup {call.server} ELSE unstopped
    /\ errors < MaxErrors /\ errors' = errors + 1
    /\ UNCHANGED <<process, served, told, unbound>>

\* Only an enabled server is applied.  It is bound if it is not served yet, or
\* if an update has moved it.
Applies == In("apply") /\ Enabled(memory[call.server])
Binds == served[call.server] = None \/ call.op = "update"
Stopped == [served EXCEPT ![call.server] = None]

Apply ==
    /\ Applies
    /\ served' = [served EXCEPT ![call.server] = memory[call.server]]
    /\ unbound' = unbound \ {call.server}
    /\ unstopped' = unstopped \ {call.server}
    /\ Continue("answer")
    /\ UNCHANGED <<vars, process, told, errors>>

\* The bind fails behind the stop of the old listener.
ApplyFails ==
    /\ Applies /\ Binds
    /\ served' = Stopped
    /\ call' = None
    /\ UNCHANGED <<vars, process, told, unbound, unstopped, errors>>

\* The client has left: the handler is dropped where it waits, for the bind with
\* the old listener stopped, or else for the lock of the old configuration.
Abandon ==
    /\ Applies
    /\ (served' = Stopped /\ Binds) \/ UNCHANGED served
    /\ call' = None
    /\ UNCHANGED <<vars, process, told, unbound, unstopped, errors>>

\* A call that disables or deletes stops the server.
Stop ==
    /\ In("apply") /\ call.op \in {"disable", "delete"}
    /\ served' = Stopped
    /\ unstopped' = unstopped \ {call.server}
    /\ Continue("answer")
    /\ UNCHANGED <<vars, process, told, unbound, errors>>

\* Any other leaves a server alone that is not enabled.
Skip ==
    /\ In("apply") /\ ~Enabled(memory[call.server])
    /\ call.op \notin {"disable", "delete"}
    /\ Continue("answer")
    /\ UNCHANGED <<vars, process, served, told, unbound, unstopped, errors>>

\* The line in admin.log, whose errors are ignored, and the answer.
Answer ==
    /\ In("answer")
    /\ told' = IF call.op = "reload" THEN told ELSE [told EXCEPT ![call.server] = memory[call.server]]
    /\ call' = None
    /\ UNCHANGED <<vars, process, served, unbound, unstopped, errors>>

----------------------------------------------------------------------------
(* The end.                                                                *)

\* Ctrl-C: no new calls.
Interrupt ==
    /\ at = "serving"
    /\ Goto("closing")
    /\ UNCHANGED <<vars, system, todo, handler>>

\* What the process held is gone, whatever it was doing.
Gone ==
    /\ IF phase = "down" THEN UNCHANGED vars ELSE Crash
    /\ Goto("down") /\ todo' = {}
    /\ served' = [s \in Servers |-> None]
    /\ call' = None /\ unbound' = {} /\ unstopped' = {} /\ errors' = 0
    /\ UNCHANGED <<system, told>>

\* An error of the start ends it: a file that cannot be read or is refused, a
\* directory that cannot be created, an address that is none or is taken.
StartFails ==
    /\ at \in Starting
    /\ at = "apply" => todo = {} /\ system = "unaddressable"
    /\ Gone

\* The handler in progress is waited for, then the process ends by itself.
Close == at = "closing" /\ call = None /\ Gone

Kill == at # "down" /\ Gone

----------------------------------------------------------------------------
Startup ==
    \/ Start \/ CreateSystem \/ FillSystem \/ ReadSystem \/ LoadRules \/ OpenLogs
    \/ \E s \in Servers : ApplyEnabled(s)
    \/ ParseAddress \/ Serve

Request == \E s \in Servers :
    \/ \E flag \in BOOLEAN :
         HandleCreate(s, flag) \/ HandleUpdate(s, flag) \/ HandleSetEnabled(s, flag)
    \/ HandleDelete(s) \/ HandleReload(s)
    \/ \E up \in Upstream : HandleUpstream(s, up)
    \/ \E route \in Route : HandleRoute(s, route)

Handler == SaveStep \/ Saved \/ SaveError \/ Apply \/ ApplyFails \/ Abandon \/ Stop \/ Skip \/ Answer

ProcessNext ==
    \/ \E content \in SystemFiles \ {"torn"} : EditSystem(content)
    \/ Startup \/ Request \/ Handler
    \/ Interrupt \/ StartFails \/ Close \/ Kill

ProcessSpec == ProcessInit /\ [][ProcessNext]_processVars

----------------------------------------------------------------------------
ProcessTypeOK ==
    /\ TypeOK
    /\ at \in Places /\ system \in SystemFiles
    /\ todo \subseteq Servers /\ (todo # {} => at \in {"logs", "apply"})
    /\ served \in Configs
    /\ call = None \/ call \in Calls
    /\ told \in [Servers -> Server \cup {None, Unknown}]
    /\ unbound \subseteq Servers /\ unstopped \subseteq Servers /\ errors \in 0..MaxErrors
    /\ (phase = "down") = (at \in {"down", "system", "fill", "load"})
    /\ (phase \in Saving) = In("save")

\* What a successful answer has said of a server stays true until the next call
\* on it, whatever calls on other servers, crashes and restarts come in between:
\* it is what is on disk, and once the admin API is served, what is served.
\* Exceptions: a server that the start could not bind, and one that a disabling
\* call, which told its client of an I/O error, has left running.
AnswersHold ==
    \A s \in Servers : told[s] # Unknown =>
      /\ OnDisk[s] = told[s]
      /\ at \in {"serving", "closing"} =>
           IF Enabled(told[s]) THEN s \in unbound \/ served[s] = told[s]
           ELSE s \in unstopped \/ served[s] = None
=============================================================================
