--------------------------- MODULE Process_proofs ---------------------------
(***************************************************************************)
(* Proofs about ConfigStorage and about Process, which runs it, for any    *)
(* servers, ids, groups, names and match rules and any number of errors.   *)
(*                                                                         *)
(* The rules file always loads, the configurations stay sound, and the     *)
(* storage implements ConfigStore under errors, crashes and restarts: one  *)
(* lemma per operation says that it keeps good configurations good; the    *)
(* invariant adds that the file is absent or good and that what is about   *)
(* to be renamed over it is the memory.                                    *)
(*                                                                         *)
(* Seen from the storage the process only makes steps of ConfigStorage,    *)
(* whose theorems carry over, and what a successful answer said of a       *)
(* server stays true.  The invariant of that follows a configuration that  *)
(* was acknowledged from memory to disk, through a crash back to memory,   *)
(* and to the runtime.                                                     *)
(***************************************************************************)
EXTENDS Process, TLAPS

----------------------------------------------------------------------------
(* The storage.                                                             *)

GoodServer(x) == x \in Server /\ ValidServer(x) /\ UniqueTargets(x.upstreams)
Good(d) == d \in Configs /\ \A s \in Servers : d[s] = None \/ GoodServer(d[s])

LEMMA EmptyGood == Good(Empty)
  BY DEF Good, Empty, Configs

LEMMA GoodMeans ==
    ASSUME NEW d, Good(d)
    PROVE  /\ d \in Configs
           /\ Valid(d)
           /\ \A s \in Present(d) : GoodServer(d[s])
           /\ \A s \in Present(d) : UniqueTargets(d[s].upstreams)
  BY DEF Good, GoodServer, Valid, Present

\* Putting a good server, or none, under an id keeps the configurations good.
LEMMA ReplaceGood ==
    ASSUME NEW d, Good(d), NEW s \in Servers, NEW x, x = None \/ GoodServer(x)
    PROVE  Good([d EXCEPT ![s] = x])
<1>1. [d EXCEPT ![s] = x] \in Configs
  BY DEF Good, GoodServer, Configs
<1> QED
  BY <1>1 DEF Good, Configs

----------------------------------------------------------------------------
(* The operations keep the configurations good.                            *)

LEMMA CreateGood ==
    ASSUME NEW d, Good(d), NEW new, NEW s \in Servers, NEW g \in BOOLEAN, Create(d, new, s, g)
    PROVE  Good(new)
<1>1. GoodServer(NewServer(g))
  BY DEF GoodServer, NewServer, Server, ValidServer, UniqueIds, UniqueMatches, UniqueTargets
<1> QED
  BY <1>1, ReplaceGood DEF Create

LEMMA UpdateGood ==
    ASSUME NEW d, Good(d), NEW new, NEW s \in Servers, NEW g \in BOOLEAN, Update(d, new, s, g)
    PROVE  Good(new)
<1> DEFINE x == [d[s] EXCEPT !.graceful = g]
<1>1. GoodServer(d[s]) /\ new = [d EXCEPT ![s] = x]
  BY GoodMeans DEF Update
<1>2. x \in Server /\ x.upstreams = d[s].upstreams /\ x.routes = d[s].routes
  BY <1>1 DEF GoodServer, Server
<1>3. GoodServer(x)
  BY <1>1, <1>2 DEF GoodServer, ValidServer
<1> HIDE DEF x
<1> QED
  BY <1>1, <1>3, ReplaceGood

LEMMA SetEnabledGood ==
    ASSUME NEW d, Good(d), NEW new, NEW s \in Servers, NEW on \in BOOLEAN,
           SetEnabled(d, new, s, on)
    PROVE  Good(new)
<1> DEFINE x == [d[s] EXCEPT !.enabled = on]
<1>1. GoodServer(d[s]) /\ new = [d EXCEPT ![s] = x]
  BY GoodMeans DEF SetEnabled
<1>2. x \in Server /\ x.upstreams = d[s].upstreams /\ x.routes = d[s].routes
  BY <1>1 DEF GoodServer, Server
<1>3. GoodServer(x)
  BY <1>1, <1>2 DEF GoodServer, ValidServer
<1> HIDE DEF x
<1> QED
  BY <1>1, <1>3, ReplaceGood

LEMMA DeleteGood ==
    ASSUME NEW d, Good(d), NEW new, NEW s \in Servers, Delete(d, new, s)
    PROVE  Good(new)
  BY ReplaceGood DEF Delete

\* The upstream that goes has the target of the one that comes, and the id of
\* the one that comes is new.
LEMMA AddUpstreamGood ==
    ASSUME NEW d, Good(d), NEW new, NEW s \in Servers, NEW up \in Upstream,
           AddUpstream(d, new, s, up)
    PROVE  Good(new)
<1> DEFINE kept == {y \in d[s].upstreams : ~SameTarget(y, up)}
           x == [d[s] EXCEPT !.upstreams = kept \cup {up}]
<1>1. GoodServer(d[s]) /\ s \in Present(d) /\ new = [d EXCEPT ![s] = x]
  BY GoodMeans DEF AddUpstream
<1>2. x \in Server /\ x.upstreams = kept \cup {up} /\ x.routes = d[s].routes
  BY <1>1 DEF GoodServer, Server
<1>3. UniqueIds(kept \cup {up})
  BY <1>1 DEF AddUpstream, FreshUpstream, GoodServer, ValidServer, UniqueIds
<1>4. UniqueTargets(kept \cup {up})
  BY <1>1 DEF GoodServer, UniqueTargets, SameTarget
<1>5. GoodServer(x)
  BY <1>1, <1>2, <1>3, <1>4 DEF GoodServer, ValidServer
<1> HIDE DEF x
<1> QED
  BY <1>1, <1>5, ReplaceGood

LEMMA DeleteUpstreamGood ==
    ASSUME NEW d, Good(d), NEW new, NEW s \in Servers, NEW up \in Upstream,
           DeleteUpstream(d, new, s, up)
    PROVE  Good(new)
<1> DEFINE x == [d[s] EXCEPT !.upstreams = @ \ {up}]
<1>1. GoodServer(d[s]) /\ new = [d EXCEPT ![s] = x]
  BY GoodMeans DEF DeleteUpstream
<1>2. x \in Server /\ x.upstreams = d[s].upstreams \ {up} /\ x.routes = d[s].routes
  BY <1>1 DEF GoodServer, Server
<1>3. GoodServer(x)
  BY <1>1, <1>2 DEF GoodServer, ValidServer, UniqueIds, UniqueTargets
<1> HIDE DEF x
<1> QED
  BY <1>1, <1>3, ReplaceGood

LEMMA AddRouteGood ==
    ASSUME NEW d, Good(d), NEW new, NEW s \in Servers, NEW route \in Route,
           AddRoute(d, new, s, route)
    PROVE  Good(new)
<1> DEFINE x == [d[s] EXCEPT !.routes = @ \cup {route}]
<1>1. GoodServer(d[s]) /\ s \in Present(d) /\ new = [d EXCEPT ![s] = x]
  BY GoodMeans DEF AddRoute
<1>2. x \in Server /\ x.routes = d[s].routes \cup {route} /\ x.upstreams = d[s].upstreams
  BY <1>1 DEF GoodServer, Server
<1>3. UniqueIds(d[s].routes \cup {route})
  BY <1>1 DEF AddRoute, FreshRoute, GoodServer, ValidServer, UniqueIds
<1>4. UniqueMatches(d[s].routes \cup {route})
  BY <1>1 DEF AddRoute, GoodServer, ValidServer, UniqueMatches
<1>5. GoodServer(x)
  BY <1>1, <1>2, <1>3, <1>4 DEF GoodServer, ValidServer
<1> HIDE DEF x
<1> QED
  BY <1>1, <1>5, ReplaceGood

LEMMA DeleteRouteGood ==
    ASSUME NEW d, Good(d), NEW new, NEW s \in Servers, NEW route \in Route,
           DeleteRoute(d, new, s, route)
    PROVE  Good(new)
<1> DEFINE x == [d[s] EXCEPT !.routes = @ \ {route}]
<1>1. GoodServer(d[s]) /\ new = [d EXCEPT ![s] = x]
  BY GoodMeans DEF DeleteRoute
<1>2. x \in Server /\ x.routes = d[s].routes \ {route} /\ x.upstreams = d[s].upstreams
  BY <1>1 DEF GoodServer, Server
<1>3. GoodServer(x)
  BY <1>1, <1>2 DEF GoodServer, ValidServer, UniqueIds, UniqueMatches
<1> HIDE DEF x
<1> QED
  BY <1>1, <1>3, ReplaceGood

----------------------------------------------------------------------------
IInv ==
    /\ Good(memory)
    /\ main = None \/ Good(main)
    /\ tmp = None \/ tmp = Torn \/ tmp \in Configs
    /\ phase \in Phases \ {"refused"}
    /\ phase \in {"check_tmp", "backup", "rename"} => tmp = memory
    /\ phase = "down" => memory = Empty

LEMMA InitIInv == Init => IInv
  BY EmptyGood DEF Init, IInv, Phases

LEMMA CallKeeps ==
    ASSUME IInv, Call
    PROVE  IInv' /\ phase = "idle" /\ phase' = "save" /\ UNCHANGED files
<1>1. Good(memory)
  BY DEF IInv
<1>2. /\ phase = "idle" /\ phase' = "save" /\ UNCHANGED files
      /\ Good(memory')
  <2>1. PICK s \in Servers :
           \/ \E flag \in BOOLEAN :
                CallCreate(s, flag) \/ CallUpdate(s, flag) \/ CallSetEnabled(s, flag)
           \/ CallDelete(s)
           \/ \E up \in Upstream : CallAddUpstream(s, up) \/ CallDeleteUpstream(s, up)
           \/ \E route \in Route : CallAddRoute(s, route) \/ CallDeleteRoute(s, route)
    BY DEF Call
  <2>2. ASSUME NEW flag \in BOOLEAN,
               CallCreate(s, flag) \/ CallUpdate(s, flag) \/ CallSetEnabled(s, flag)
        PROVE  phase = "idle" /\ phase' = "save" /\ UNCHANGED files /\ Good(memory')
    BY <1>1, <2>2, CreateGood, UpdateGood, SetEnabledGood
       DEF CallCreate, CallUpdate, CallSetEnabled, Begin
  <2>3. CASE CallDelete(s)
    BY <1>1, <2>3, DeleteGood DEF CallDelete, Begin
  <2>4. ASSUME NEW up \in Upstream, CallAddUpstream(s, up) \/ CallDeleteUpstream(s, up)
        PROVE  phase = "idle" /\ phase' = "save" /\ UNCHANGED files /\ Good(memory')
    BY <1>1, <2>4, AddUpstreamGood, DeleteUpstreamGood
       DEF CallAddUpstream, CallDeleteUpstream, Begin
  <2>5. ASSUME NEW route \in Route, CallAddRoute(s, route) \/ CallDeleteRoute(s, route)
        PROVE  phase = "idle" /\ phase' = "save" /\ UNCHANGED files /\ Good(memory')
    BY <1>1, <2>5, AddRouteGood, DeleteRouteGood DEF CallAddRoute, CallDeleteRoute, Begin
  <2> QED
    BY <2>1, <2>2, <2>3, <2>4, <2>5
<1> QED
  BY <1>2 DEF IInv, files, Phases, Saving

LEMMA StepKeeps ==
    ASSUME IInv, [Next]_vars
    PROVE  IInv'
<1>1. CASE Call
  BY <1>1, CallKeeps
<1> USE DEF IInv, files, Phases, Saving
<1>2. CASE SaveFails
  BY <1>2 DEF SaveFails
<1>3. CASE Validate
  BY <1>3 DEF Validate
<1>4. CASE WriteTmp
  BY <1>4, GoodMeans DEF WriteTmp
<1>5. CASE CheckTmp
  BY <1>5 DEF CheckTmp
<1>6. CASE Backup
  BY <1>6 DEF Backup
<1>7. CASE Rename
  BY <1>7 DEF Rename
<1>8. CASE Crash
  BY <1>8, EmptyGood DEF Crash
<1>9. CASE Restart
  BY <1>9, GoodMeans, TornAssumption DEF Restart
<1>10. CASE UNCHANGED vars
  BY <1>10 DEF vars
<1> QED
  BY <1>1, <1>2, <1>3, <1>4, <1>5, <1>6, <1>7, <1>8, <1>9, <1>10 DEF Next, Save

LEMMA Invariant == Spec => []IInv
<1>1. IInv /\ [Next]_vars => IInv'
  BY StepKeeps
<1> QED
  BY InitIInv, <1>1, PTL DEF Spec

\* The types; a start is never refused, so "refused" is never reached.
THEOREM StorageTypes == Spec => []TypeOK
<1>1. IInv => TypeOK
  BY DEF IInv, Good, TypeOK
<1> QED
  BY <1>1, Invariant, PTL

\* At every step of every save, and so at every crash, the rules file is absent
\* or complete and valid (save_transaction): no start ever refuses it.
THEOREM FileAlwaysLoads == Spec => []MainAlwaysLoads
<1>1. IInv => MainAlwaysLoads
  BY GoodMeans, TornAssumption DEF IInv, MainAlwaysLoads
<1> QED
  BY <1>1, Invariant, PTL

\* Every configuration that accepted calls can reach passes the validation that
\* each save begins with (validate_loaded_file), and no server ever has two
\* upstreams of one group and name (add_upstream).
THEOREM ConfigsAreSound == Spec => []ConfigsSound
<1>1. IInv => ConfigsSound
  BY GoodMeans DEF IInv, ConfigsSound
<1> QED
  BY <1>1, Invariant, PTL

----------------------------------------------------------------------------
\* A call changes the current value by its operation.
LEMMA CallImplements ==
    ASSUME IInv, Call
    PROVE  Store!Change
<1>1. phase = "idle" /\ phase' = "save" /\ UNCHANGED files
  BY CallKeeps
<1>2. UNCHANGED OnDisk
  BY <1>1 DEF OnDisk, files
<1>3. PICK s \in Servers :
         \/ \E flag \in BOOLEAN :
              CallCreate(s, flag) \/ CallUpdate(s, flag) \/ CallSetEnabled(s, flag)
         \/ CallDelete(s)
         \/ \E up \in Upstream : CallAddUpstream(s, up) \/ CallDeleteUpstream(s, up)
         \/ \E route \in Route : CallAddRoute(s, route) \/ CallDeleteRoute(s, route)
  BY DEF Call
<1> USE DEF Begin, Present, Store!Present
<1>4. ASSUME NEW flag \in BOOLEAN,
             CallCreate(s, flag) \/ CallUpdate(s, flag) \/ CallSetEnabled(s, flag)
      PROVE  Store!Change
  BY <1>1, <1>2, <1>4
     DEF CallCreate, CallUpdate, CallSetEnabled, Create, Update, SetEnabled, NewServer,
         Store!Change, Store!Create, Store!Update, Store!SetEnabled, Store!NewServer
<1>5. CASE CallDelete(s)
  BY <1>1, <1>2, <1>5 DEF CallDelete, Delete, Store!Change, Store!Delete
<1>6. ASSUME NEW up \in Upstream, CallAddUpstream(s, up) \/ CallDeleteUpstream(s, up)
      PROVE  Store!Change
  BY <1>1, <1>2, <1>6
     DEF CallAddUpstream, CallDeleteUpstream, AddUpstream, DeleteUpstream, FreshUpstream,
         SameTarget, Upstream, Store!Change, Store!AddUpstream, Store!DeleteUpstream,
         Store!FreshUpstream, Store!SameTarget, Store!Upstream
<1>7. ASSUME NEW route \in Route, CallAddRoute(s, route) \/ CallDeleteRoute(s, route)
      PROVE  Store!Change
  BY <1>1, <1>2, <1>7
     DEF CallAddRoute, CallDeleteRoute, AddRoute, DeleteRoute, FreshRoute, Route,
         Store!Change, Store!AddRoute, Store!DeleteRoute, Store!FreshRoute, Store!Route
<1> QED
  BY <1>3, <1>4, <1>5, <1>6, <1>7

\* The storage implements the write-back store: the rename persists the whole
\* current value, a crash loses what was not persisted, nothing else shows.
THEOREM StorageImplementsStore == Spec => ImplementsConfigStore
<1>1. Init => Store!Init
  BY DEF Init, Store!Init, OnDisk, Store!Empty, Empty
<1>2. IInv /\ [Next]_vars => [Store!Change \/ Store!Persist \/ Store!Lose]_Store!vars
  <2> SUFFICES ASSUME IInv, [Next]_vars
               PROVE  [Store!Change \/ Store!Persist \/ Store!Lose]_Store!vars
    OBVIOUS
  <2>1. CASE Call
    BY <2>1, CallImplements
  <2> USE DEF IInv, files, Phases, Saving, OnDisk, Store!vars, Store!Persist, Store!Lose
  <2>2. CASE SaveFails
    BY <2>2 DEF SaveFails
  <2>3. CASE Validate
    BY <2>3 DEF Validate
  <2>4. CASE WriteTmp
    BY <2>4 DEF WriteTmp
  <2>5. CASE CheckTmp
    BY <2>5 DEF CheckTmp
  <2>6. CASE Backup
    BY <2>6 DEF Backup
  <2>7. CASE Rename
    BY <2>7, AbsentAssumption, GoodMeans DEF Rename
  <2>8. CASE Crash
    BY <2>8 DEF Crash
  <2>9. CASE Restart
    BY <2>9, GoodMeans, TornAssumption DEF Restart
  <2>10. CASE UNCHANGED vars
    BY <2>10 DEF vars
  <2> QED
    BY <2>1, <2>2, <2>3, <2>4, <2>5, <2>6, <2>7, <2>8, <2>9, <2>10 DEF Next, Save
<1> QED
  BY <1>1, <1>2, Invariant, PTL DEF Spec, ImplementsConfigStore, Store!Spec

----------------------------------------------------------------------------
(* The process and the storage.                                            *)

LEMMA SaveStepImplements == SaveStep \/ Saved \/ SaveError => Next
  BY DEF SaveStep, Saved, SaveError, Next, Save

LEMMA RequestImplements == Request => [Next]_vars
<1> SUFFICES ASSUME NEW s \in Servers,
                    \/ \E flag \in BOOLEAN :
                         HandleCreate(s, flag) \/ HandleUpdate(s, flag) \/ HandleSetEnabled(s, flag)
                    \/ HandleDelete(s) \/ HandleReload(s)
                    \/ \E up \in Upstream : HandleUpstream(s, up)
                    \/ \E route \in Route : HandleRoute(s, route)
             PROVE  Call \/ UNCHANGED vars
  BY DEF Request, Next
<1> QED
  BY DEF HandleCreate, HandleUpdate, HandleSetEnabled, HandleDelete, HandleReload, HandleUpstream,
         HandleRoute, Call

LEMMA StepImplements ==
    ASSUME [ProcessNext]_processVars
    PROVE  [Next]_vars
<1>1. CASE \E content \in SystemFiles \ {"torn"} : EditSystem(content)
  BY <1>1 DEF EditSystem
<1>2. CASE Startup
  BY <1>2 DEF Startup, Start, CreateSystem, FillSystem, ReadSystem, LoadRules, OpenLogs,
              ApplyEnabled, ParseAddress, Serve, Next
<1>3. CASE Request
  BY <1>3, RequestImplements
<1>4. CASE Handler
  BY <1>4, SaveStepImplements DEF Handler, Apply, ApplyFails, Abandon, Stop, Skip, Answer
<1>5. CASE Interrupt \/ StartFails \/ Close \/ Kill
  BY <1>5 DEF Interrupt, StartFails, Close, Kill, Gone, Next
<1>6. CASE UNCHANGED processVars
  BY <1>6 DEF processVars
<1> QED
  BY <1>1, <1>2, <1>3, <1>4, <1>5, <1>6 DEF ProcessNext

\* Whatever main and the handlers do, the storage sees a behaviour of its own
\* module: at most one operation at a time, ended before the handler goes on.
THEOREM ProcessUsesStorage == ProcessSpec => Spec
<1>1. ProcessInit => Init
  BY DEF ProcessInit
<1>2. [ProcessNext]_processVars => [Next]_vars
  BY StepImplements
<1> QED
  BY <1>1, <1>2, PTL DEF ProcessSpec, Spec

\* No start of the process ever refuses the rules file.
THEOREM RulesAlwaysLoad == ProcessSpec => []MainAlwaysLoads
  BY ProcessUsesStorage, FileAlwaysLoads, PTL

\* The process, with its start, handlers and crashes, implements ConfigStore.
THEOREM ProcessImplementsStore == ProcessSpec => ImplementsConfigStore
  BY ProcessUsesStorage, StorageImplementsStore, PTL

----------------------------------------------------------------------------
(* The invariant.                                                          *)

CallInv ==
    /\ call = None \/ call \in Calls
    /\ (phase \in Saving) = In("save")
    /\ call # None => at \in {"serving", "closing"}
    /\ call # None /\ call.op # "reload" => told[call.server] = Unknown
    /\ call # None /\ call.op # "reload" /\ call.step # "save" => OnDisk = memory
    /\ call # None /\ call.op \in {"disable", "delete"} => ~Enabled(memory[call.server])

PlaceInv ==
    /\ at \in Places
    /\ (phase = "down") = (at \in {"down", "system", "fill", "load"})
    /\ todo \subseteq Servers
    /\ at \notin {"logs", "apply"} => todo = {}
    /\ at = "logs" => todo = {s \in Servers : Enabled(memory[s])}
    /\ \A s \in todo : Enabled(memory[s])

\* What was told is on disk and, in a running process, in memory.
ToldInv ==
    /\ told \in [Servers -> Server \cup {None, Unknown}]
    /\ \A s \in Servers : told[s] # Unknown =>
         OnDisk[s] = told[s] /\ (phase # "down" => memory[s] = told[s])

\* A server that is not enabled is not served, except by the call that is
\* about to stop it, or after the error of one.
Disabling(s) == call # None /\ call.server = s /\ call.op = "disable" /\ call.step # "answer"
StoppedInv ==
    phase # "down" => \A s \in Servers :
      ~Enabled(memory[s]) => served[s] = None \/ s \in unstopped \/ Disabling(s)

\* An enabled server that a client was told of is served as it was told.
ServedInv ==
    /\ served \in [Servers -> Server \cup {None}]
    /\ at \in {"logs", "apply", "listen", "serving", "closing"} =>
         \A s \in Servers : told[s] # Unknown /\ Enabled(memory[s]) =>
           s \in todo \/ s \in unbound \/ served[s] = memory[s]
    /\ In("answer") /\ Enabled(memory[call.server]) => served[call.server] = memory[call.server]

\* Nothing is served before the rules are loaded.
DownInv == phase = "down" => call = None /\ \A s \in Servers : served[s] = None

PInv == IInv /\ CallInv /\ PlaceInv /\ ToldInv /\ StoppedInv /\ ServedInv /\ DownInv

LEMMA InitPInv == ProcessInit => PInv
<1> SUFFICES ASSUME ProcessInit PROVE PInv
  OBVIOUS
<1>1. IInv
  BY InitIInv DEF ProcessInit
<1> QED
  BY <1>1 DEF ProcessInit, Init, PInv, CallInv, PlaceInv, ToldInv, StoppedInv, ServedInv, DownInv, Places,
              Starting, Saving, In

LEMMA PInvAnswers == PInv => AnswersHold
  BY DEF PInv, CallInv, PlaceInv, ToldInv, StoppedInv, ServedInv, AnswersHold, Disabling, In

----------------------------------------------------------------------------
(* A call that begins.                                                     *)

\* It changes one server, and one that it leaves not enabled was not enabled
\* before, unless the call is the one that disables it.
ChangesOne(s, op) ==
    /\ phase = "idle" /\ phase' = "save" /\ UNCHANGED files
    /\ \A t \in Servers \ {s} : memory'[t] = memory[t]
    /\ op \in {"disable", "delete"} => ~Enabled(memory'[s])
    /\ op # "disable" /\ ~Enabled(memory'[s]) => ~Enabled(memory[s])

BeginsOne(s) ==
    \E op \in Operations : op # "reload" /\ BeginCall(s, op) /\ ChangesOne(s, op)

LEMMA RequestFrame ==
    ASSUME IInv, Request
    PROVE  \E s \in Servers : BeginsOne(s) \/ HandleReload(s)
<1>1. memory \in Configs
  BY DEF IInv, Good
<1>2. PICK s \in Servers :
         \/ \E flag \in BOOLEAN :
              HandleCreate(s, flag) \/ HandleUpdate(s, flag) \/ HandleSetEnabled(s, flag)
         \/ HandleDelete(s) \/ HandleReload(s)
         \/ \E up \in Upstream : HandleUpstream(s, up)
         \/ \E route \in Route : HandleRoute(s, route)
  BY DEF Request
<1> USE DEF ChangesOne, Begin, Enabled, Present, Configs, Operations
<1>3. ASSUME NEW flag \in BOOLEAN, HandleCreate(s, flag)
      PROVE  BeginsOne(s)
  <2>1. BeginCall(s, "create") /\ ChangesOne(s, "create")
    BY <1>1, <1>3, AbsentAssumption DEF HandleCreate, CallCreate, Create, NewServer
  <2> QED
    BY <2>1 DEF BeginsOne
<1>4. ASSUME NEW flag \in BOOLEAN, HandleUpdate(s, flag)
      PROVE  BeginsOne(s)
  <2>1. BeginCall(s, "update") /\ ChangesOne(s, "update")
    BY <1>1, <1>4, AbsentAssumption DEF HandleUpdate, CallUpdate, Update, Server
  <2> QED
    BY <2>1 DEF BeginsOne
<1>5. ASSUME NEW flag \in BOOLEAN, HandleSetEnabled(s, flag)
      PROVE  BeginsOne(s)
  <2> DEFINE op == IF flag THEN "enable" ELSE "disable"
  <2>1. BeginCall(s, op) /\ ChangesOne(s, op)
    BY <1>1, <1>5, AbsentAssumption DEF HandleSetEnabled, CallSetEnabled, SetEnabled, Server
  <2> QED
    BY <2>1 DEF BeginsOne
<1>6. ASSUME HandleDelete(s)
      PROVE  BeginsOne(s)
  <2>1. BeginCall(s, "delete") /\ ChangesOne(s, "delete")
    BY <1>1, <1>6 DEF HandleDelete, CallDelete, Delete
  <2> QED
    BY <2>1 DEF BeginsOne
<1>7. ASSUME NEW up \in Upstream, HandleUpstream(s, up)
      PROVE  BeginsOne(s)
  <2>1. BeginCall(s, "change") /\ ChangesOne(s, "change")
    BY <1>1, <1>7, AbsentAssumption
       DEF HandleUpstream, CallAddUpstream, CallDeleteUpstream, AddUpstream, DeleteUpstream, Server
  <2> QED
    BY <2>1 DEF BeginsOne
<1>8. ASSUME NEW route \in Route, HandleRoute(s, route)
      PROVE  BeginsOne(s)
  <2>1. BeginCall(s, "change") /\ ChangesOne(s, "change")
    BY <1>1, <1>8, AbsentAssumption
       DEF HandleRoute, CallAddRoute, CallDeleteRoute, AddRoute, DeleteRoute, Server
  <2> QED
    BY <2>1 DEF BeginsOne
<1> HIDE DEF ChangesOne, Begin, Enabled, Present, Configs, Operations
<1>9. CASE \E flag \in BOOLEAN :
              HandleCreate(s, flag) \/ HandleUpdate(s, flag) \/ HandleSetEnabled(s, flag)
  BY <1>9, <1>3, <1>4, <1>5
<1> QED
  BY <1>2, <1>6, <1>7, <1>8, <1>9

Rest == CallInv /\ PlaceInv /\ ToldInv /\ StoppedInv /\ ServedInv /\ DownInv

LEMMA BeginKeeps ==
    ASSUME PInv, IInv', NEW s \in Servers, NEW op \in Operations, op # "reload",
           BeginCall(s, op), ChangesOne(s, op)
    PROVE  Rest'
<1> USE DEF PInv, BeginCall, ChangesOne, process
<1>1. call' = [server |-> s, op |-> op, step |-> "save"] /\ call' \in Calls /\ call' # None
  BY CallAssumption DEF Calls, Steps
<1>2. CallInv'
  BY <1>1 DEF CallInv, ToldInv, In, Saving
<1>3. PlaceInv'
  BY DEF PlaceInv
<1>4. ToldInv'
  BY DEF ToldInv, OnDisk, files
<1>5. StoppedInv'
  BY <1>1 DEF StoppedInv, Disabling, PlaceInv
<1>6. ServedInv'
  BY <1>1 DEF ServedInv, ToldInv, In, PlaceInv
<1>9. DownInv'
  BY <1>1 DEF DownInv, CallInv, PlaceInv, In
<1> QED
  BY <1>2, <1>3, <1>4, <1>5, <1>6, <1>9 DEF Rest

LEMMA ReloadKeeps ==
    ASSUME PInv, NEW s \in Servers, HandleReload(s)
    PROVE  Rest'
<1> USE DEF PInv, HandleReload, process, vars, files
<1>1. call' = [server |-> s, op |-> "reload", step |-> "apply"] /\ call' \in Calls /\ call' # None
  BY CallAssumption DEF Calls, Steps, Operations
<1>2. CallInv'
  BY <1>1 DEF CallInv, In, Saving
<1>3. PlaceInv' /\ ToldInv'
  BY DEF PlaceInv, ToldInv, OnDisk
<1>4. StoppedInv'
  BY <1>1 DEF StoppedInv, Disabling
<1>5. ServedInv'
  BY <1>1 DEF ServedInv, In
<1>9. DownInv'
  BY <1>1 DEF DownInv, CallInv, PlaceInv, In
<1> QED
  BY <1>2, <1>3, <1>4, <1>5, <1>9 DEF Rest

LEMMA RequestKeeps ==
    ASSUME PInv, IInv', Request
    PROVE  Rest'
  BY RequestFrame, BeginKeeps, ReloadKeeps DEF PInv, BeginsOne

----------------------------------------------------------------------------
(* The steps of a handler.                                                 *)

\* Neither the validation nor the check of the temporary file fails, so that the
\* handler only leaves the save by its end or by an I/O error.
LEMMA SaveStepKeeps ==
    ASSUME PInv, SaveStep
    PROVE  Rest'
<1> USE DEF PInv, SaveStep, process
<1>1. memory' = memory /\ main' = main /\ OnDisk' = OnDisk /\ phase' \in Saving /\ phase \in Saving
  BY GoodMeans, TornAssumption
     DEF IInv, Validate, WriteTmp, CheckTmp, Backup, Saving, OnDisk, files, Good
<1>2. call' = call /\ phase # "down" /\ phase' # "down"
  BY <1>1 DEF Saving
<1>3. CallInv'
  BY <1>1, <1>2 DEF CallInv, In
<1>4. PlaceInv' /\ ToldInv'
  BY <1>1, <1>2 DEF PlaceInv, ToldInv
<1>5. StoppedInv' /\ ServedInv'
  BY <1>1, <1>2 DEF StoppedInv, ServedInv, Disabling, In
<1>9. DownInv'
  BY <1>2 DEF DownInv
<1> QED
  BY <1>3, <1>4, <1>5, <1>9 DEF Rest

\* A handler goes on to another step with the same call.
Goes(step) ==
    /\ call # None /\ call \in Calls
    /\ call' \in Calls /\ call' # None
    /\ call'.server = call.server /\ call'.op = call.op /\ call'.step = step

LEMMA ContinueGoes ==
    ASSUME CallInv, call # None, NEW step \in Steps, Continue(step)
    PROVE  Goes(step)
<1>1. call \in Calls
  BY DEF CallInv
<1>2. call' \in Calls /\ call'.server = call.server /\ call'.op = call.op /\ call'.step = step
  BY <1>1 DEF Continue, Calls
<1> QED
  BY <1>1, <1>2, CallAssumption DEF Goes

LEMMA SavedKeeps ==
    ASSUME PInv, Saved
    PROVE  Rest'
<1> USE DEF PInv, Saved, process
<1>1. /\ memory' = memory /\ main' = memory /\ phase = "rename" /\ phase' = "idle"
      /\ OnDisk' = memory
  BY AbsentAssumption DEF IInv, Rename, OnDisk, Good
<1>2. call.step = "save" /\ Goes("apply")
  BY ContinueGoes DEF In, Steps
<1>3. CallInv'
  BY <1>1, <1>2 DEF CallInv, Goes, In, Saving
<1>4. PlaceInv' /\ ToldInv'
  BY <1>1 DEF PlaceInv, ToldInv
<1>5. StoppedInv' /\ ServedInv'
  BY <1>1, <1>2 DEF StoppedInv, ServedInv, Disabling, Goes, In
<1>9. DownInv'
  BY <1>1 DEF DownInv, CallInv, PlaceInv, In
<1> QED
  BY <1>3, <1>4, <1>5, <1>9 DEF Rest

LEMMA SaveErrorKeeps ==
    ASSUME PInv, SaveError
    PROVE  Rest'
<1> USE DEF PInv, SaveError, SaveFails, process, files
<1>1. phase \in Saving /\ phase' = "idle" /\ OnDisk' = OnDisk
  BY DEF OnDisk
<1>2. CallInv'
  BY <1>1 DEF CallInv, In, Saving
<1>3. PlaceInv' /\ ToldInv'
  BY <1>1 DEF PlaceInv, ToldInv, Saving
<1>4. StoppedInv'
  BY <1>1 DEF StoppedInv, Disabling, Saving
<1>5. ServedInv'
  BY <1>1 DEF ServedInv, In
<1>9. DownInv'
  BY <1>1 DEF DownInv, CallInv, PlaceInv, In
<1> QED
  BY <1>2, <1>3, <1>4, <1>5, <1>9 DEF Rest

\* The runtime is changed for the server of the call only.
LEMMA ApplyKeeps ==
    ASSUME PInv, Apply
    PROVE  Rest'
<1> DEFINE c == call.server
<1> USE DEF PInv, Apply, Applies, process, vars, files
<1>1. call.step = "apply" /\ Goes("answer") /\ c \in Servers /\ Enabled(memory[c])
  BY ContinueGoes DEF CallInv, In, Steps, Calls
<1>2. memory[c] \in Server \cup {None}
  BY <1>1 DEF IInv, Good, Configs
<1>3. CallInv'
  BY <1>1 DEF CallInv, Goes, In, Saving, OnDisk
<1>4. PlaceInv' /\ ToldInv'
  BY DEF PlaceInv, ToldInv, OnDisk
<1>5. StoppedInv'
  BY <1>1 DEF StoppedInv, ServedInv, Disabling
<1>6. ServedInv'
  BY <1>1, <1>2 DEF ServedInv, Goes, In
<1>9. DownInv'
  BY <1>1 DEF DownInv, CallInv, PlaceInv, In
<1> QED
  BY <1>3, <1>4, <1>5, <1>6, <1>9 DEF Rest

\* The server of the call may be stopped, but only if nothing is said of it
\* or it was not served.
LEMMA EndKeeps ==
    ASSUME PInv, ApplyFails \/ Abandon
    PROVE  Rest'
<1> DEFINE c == call.server
<1> USE DEF PInv, ApplyFails, Abandon, Applies, process, vars, files
<1>1. /\ call.step = "apply" /\ c \in Servers /\ Enabled(memory[c]) /\ call' = None
      /\ Binds => served[c] = None \/ told[c] = Unknown
  BY DEF CallInv, In, Calls, Binds
<1>2. CallInv'
  BY <1>1 DEF CallInv, In, Saving
<1>3. PlaceInv' /\ ToldInv'
  BY DEF PlaceInv, ToldInv, OnDisk
<1>4. StoppedInv'
  BY <1>1 DEF StoppedInv, ServedInv, Disabling, Stopped
<1>5. ServedInv'
  BY <1>1 DEF ServedInv, In, Stopped, Enabled
<1>9. DownInv'
  BY <1>1 DEF DownInv, CallInv, PlaceInv, In
<1> QED
  BY <1>2, <1>3, <1>4, <1>5, <1>9 DEF Rest

LEMMA StopKeeps ==
    ASSUME PInv, Stop
    PROVE  Rest'
<1> DEFINE c == call.server
<1> USE DEF PInv, Stop, process, vars, files
<1>1. call.step = "apply" /\ Goes("answer") /\ c \in Servers /\ ~Enabled(memory[c])
  BY ContinueGoes DEF CallInv, In, Steps, Calls
<1>2. CallInv'
  BY <1>1 DEF CallInv, Goes, In, Saving, OnDisk
<1>3. PlaceInv' /\ ToldInv'
  BY DEF PlaceInv, ToldInv, OnDisk
<1>4. StoppedInv'
  BY <1>1 DEF StoppedInv, ServedInv, Disabling, Stopped
<1>5. ServedInv'
  BY <1>1 DEF ServedInv, Goes, In, Stopped
<1>9. DownInv'
  BY <1>1 DEF DownInv, CallInv, PlaceInv, In
<1> QED
  BY <1>2, <1>3, <1>4, <1>5, <1>9 DEF Rest

LEMMA SkipKeeps ==
    ASSUME PInv, Skip
    PROVE  Rest'
<1> DEFINE c == call.server
<1> USE DEF PInv, Skip, process, vars, files
<1>1. call.step = "apply" /\ call.op # "disable" /\ Goes("answer") /\ ~Enabled(memory[c])
  BY ContinueGoes DEF CallInv, In, Steps
<1>2. CallInv'
  BY <1>1 DEF CallInv, Goes, In, Saving, OnDisk
<1>3. PlaceInv' /\ ToldInv'
  BY DEF PlaceInv, ToldInv, OnDisk
<1>4. StoppedInv'
  BY <1>1 DEF StoppedInv, Disabling
<1>5. ServedInv'
  BY <1>1 DEF ServedInv, Goes, In
<1>9. DownInv'
  BY <1>1 DEF DownInv, CallInv, PlaceInv, In
<1> QED
  BY <1>2, <1>3, <1>4, <1>5, <1>9 DEF Rest

\* What is told now is what the call has saved and applied.
LEMMA AnswerKeeps ==
    ASSUME PInv, Answer
    PROVE  Rest'
<1> DEFINE c == call.server
<1> USE DEF PInv, Answer, process, vars, files
<1>1. /\ call.step = "answer" /\ c \in Servers
      /\ call.op # "reload" => OnDisk = memory
  BY DEF CallInv, In, Calls
<1>2. memory \in [Servers -> Server \cup {None}] /\ phase \notin Saving
  BY DEF IInv, Good, Configs, CallInv, In
<1>3. CallInv'
  BY <1>2 DEF CallInv, In
<1>4. PlaceInv'
  BY DEF PlaceInv
<1>5. ToldInv'
  BY <1>1, <1>2 DEF ToldInv, OnDisk, CallInv, In, Calls
<1>6. StoppedInv'
  BY DEF StoppedInv, Disabling, In
<1>7. ServedInv'
  BY <1>1 DEF ServedInv, In, CallInv, Calls, ToldInv
<1>9. DownInv'
  BY <1>1 DEF DownInv, CallInv, PlaceInv, In
<1> QED
  BY <1>3, <1>4, <1>5, <1>6, <1>7, <1>9 DEF Rest

LEMMA HandlerKeeps ==
    ASSUME PInv, Handler
    PROVE  Rest'
  BY SaveStepKeeps, SavedKeeps, SaveErrorKeeps, ApplyKeeps, EndKeeps, StopKeeps, SkipKeeps,
     AnswerKeeps DEF Handler

----------------------------------------------------------------------------
(* The start and the end.                                                  *)

LEMMA LoadKeeps ==
    ASSUME PInv, LoadRules
    PROVE  Rest'
<1> USE DEF PInv, LoadRules, Restart, handler, files, Goto
<1>1. memory' = OnDisk /\ OnDisk' = OnDisk /\ phase' = "idle" /\ phase = "down"
  BY GoodMeans, TornAssumption DEF IInv, OnDisk
<1>2. call = None /\ \A s \in Servers : served[s] = None
  BY <1>1 DEF DownInv
<1>3. CallInv' /\ DownInv'
  BY <1>1, <1>2 DEF CallInv, DownInv, In, Saving
<1>4. PlaceInv'
  BY <1>1 DEF PlaceInv, Places, Starting
<1>5. ToldInv'
  BY <1>1 DEF ToldInv
<1>6. StoppedInv'
  BY <1>2 DEF StoppedInv
<1>7. ServedInv'
  BY <1>2 DEF ServedInv, In
<1> QED
  BY <1>3, <1>4, <1>5, <1>6, <1>7 DEF Rest

LEMMA ApplyEnabledKeeps ==
    ASSUME PInv, NEW s \in Servers, ApplyEnabled(s)
    PROVE  Rest'
<1> USE DEF PInv, ApplyEnabled, vars, files
<1>1. call = None /\ phase # "down" /\ Enabled(memory[s])
  BY DEF CallInv, PlaceInv
<1>2. memory[s] \in Server \cup {None}
  BY DEF IInv, Good, Configs
<1>3. CallInv' /\ PlaceInv' /\ ToldInv' /\ DownInv'
  BY <1>1 DEF CallInv, PlaceInv, ToldInv, DownInv, In, OnDisk
<1>4. StoppedInv'
  BY <1>1 DEF StoppedInv, ServedInv, Disabling
<1>5. ServedInv'
  BY <1>1, <1>2 DEF ServedInv, In
<1> QED
  BY <1>3, <1>4, <1>5 DEF Rest

\* The other steps of the start only move on.
LEMMA StartKeeps ==
    ASSUME PInv,
           \/ \E content \in SystemFiles \ {"torn"} : EditSystem(content)
           \/ Start \/ CreateSystem \/ FillSystem \/ ReadSystem \/ OpenLogs \/ ParseAddress \/ Serve
           \/ Interrupt
    PROVE  Rest'
<1> USE DEF PInv, EditSystem, Start, CreateSystem, FillSystem, ReadSystem, OpenLogs, ParseAddress,
            Serve, Interrupt, handler, vars, files, Goto
<1>1. CallInv' /\ DownInv'
  BY DEF CallInv, DownInv, In, OnDisk
<1>2. PlaceInv'
  BY DEF PlaceInv, Places, Starting
<1>3. ToldInv' /\ StoppedInv'
  BY DEF ToldInv, OnDisk, StoppedInv, Disabling
<1>4. ServedInv'
  BY DEF ServedInv, PlaceInv, In
<1> QED
  BY <1>1, <1>2, <1>3, <1>4 DEF Rest

\* The end of the process loses what is not on disk.
LEMMA GoneKeeps ==
    ASSUME PInv, Gone
    PROVE  Rest'
<1> USE DEF PInv, Gone, Crash, vars, files, Goto
<1>1. phase' = "down" /\ call' = None /\ OnDisk' = OnDisk /\ at' = "down" /\ todo' = {}
  BY DEF OnDisk
<1>2. CallInv' /\ DownInv' /\ PlaceInv'
  BY <1>1 DEF CallInv, DownInv, PlaceInv, In, Saving, Places
<1>3. ToldInv' /\ StoppedInv' /\ ServedInv'
  BY <1>1 DEF ToldInv, StoppedInv, ServedInv, In
<1> QED
  BY <1>2, <1>3 DEF Rest

LEMMA ProcessStepKeeps ==
    ASSUME PInv, [ProcessNext]_processVars
    PROVE  PInv'
<1>1. IInv'
  BY StepKeeps, StepImplements DEF PInv
<1>2. ASSUME Startup \/ Interrupt \/ \E content \in SystemFiles \ {"torn"} : EditSystem(content)
      PROVE  Rest'
  BY <1>2, StartKeeps, LoadKeeps, ApplyEnabledKeeps DEF Startup
<1>3. ASSUME Request \/ Handler
      PROVE  Rest'
  BY <1>1, <1>3, RequestKeeps, HandlerKeeps
<1>4. ASSUME StartFails \/ Close \/ Kill
      PROVE  Rest'
  BY <1>4, GoneKeeps DEF StartFails, Close, Kill
<1>5. ASSUME UNCHANGED processVars
      PROVE  Rest'
  BY <1>5 DEF processVars, process, handler, vars, files, PInv, Rest, CallInv, PlaceInv, ToldInv,
              StoppedInv, ServedInv, DownInv, Disabling, In, OnDisk
<1>6. Rest'
  BY <1>2, <1>3, <1>4, <1>5 DEF ProcessNext
<1> QED
  BY <1>1, <1>6 DEF PInv, Rest

\* What a successful answer of the admin API said of a server is on disk until the
\* next call on the server, over calls on other servers that fail to save, crashes
\* and restarts, and is served once a start is complete (admin.rs, main.rs).
THEOREM AnswersAlwaysHold == ProcessSpec => []AnswersHold
<1>1. PInv /\ [ProcessNext]_processVars => PInv'
  BY ProcessStepKeeps
<1> QED
  BY InitPInv, PInvAnswers, <1>1, PTL DEF ProcessSpec

----------------------------------------------------------------------------
(* The types, of which the invariant leaves out only the bookkeeping.      *)

SideInv ==
    /\ system \in SystemFiles
    /\ unbound \subseteq Servers /\ unstopped \subseteq Servers
    /\ errors \in 0..MaxErrors

LEMMA SideStepKeeps ==
    ASSUME PInv, SideInv, [ProcessNext]_processVars
    PROVE  SideInv'
<1> USE DEF SideInv, SystemFiles, process, handler
<1>1. ASSUME NEW content \in SystemFiles \ {"torn"}, EditSystem(content)
      PROVE  SideInv'
  BY <1>1 DEF EditSystem
<1>2. CASE Startup
  BY <1>2 DEF Startup, Start, CreateSystem, FillSystem, ReadSystem, LoadRules, OpenLogs,
              ApplyEnabled, ParseAddress, Serve
<1>3. CASE Request
  BY <1>3, RequestFrame DEF PInv, BeginsOne, BeginCall, HandleReload
<1>4. ASSUME Handler
      PROVE  SideInv'
  <2>1. call \in Calls => call.server \in Servers
    BY DEF Calls
  <2>2. Handler => call \in Calls
    BY DEF PInv, CallInv, Handler, SaveStep, Saved, SaveError, Apply, ApplyFails, Abandon, Stop,
           Skip, Answer, Applies, In
  <2>3. SaveError => SideInv'
    BY <2>1, <2>2, BoundAssumption DEF SaveError, Handler
  <2>4. Saved => SideInv'
    BY BoundAssumption DEF Saved
  <2> QED
    BY <1>4, <2>3, <2>4 DEF Handler, SaveStep, Apply, ApplyFails, Abandon, Stop, Skip, Answer
<1>5. CASE Interrupt \/ StartFails \/ Close \/ Kill
  BY <1>5, BoundAssumption DEF Interrupt, StartFails, Close, Kill, Gone
<1>6. CASE UNCHANGED processVars
  BY <1>6 DEF processVars
<1> QED
  BY <1>1, <1>2, <1>3, <1>4, <1>5, <1>6 DEF ProcessNext

\* The types, and with them how main and the handler keep step with the storage:
\* it is down exactly before the rules are loaded, and it saves exactly while the
\* handler waits for the save (main.rs, admin.rs).
THEOREM ProcessTypes == ProcessSpec => []ProcessTypeOK
<1>1. ProcessInit => SideInv
  BY BoundAssumption DEF ProcessInit, SideInv, SystemFiles
<1>2. PInv /\ SideInv /\ [ProcessNext]_processVars => PInv' /\ SideInv'
  BY ProcessStepKeeps, SideStepKeeps
<1>3. PInv /\ SideInv => ProcessTypeOK
  <2> SUFFICES ASSUME PInv, SideInv PROVE ProcessTypeOK
    OBVIOUS
  <2>1. TypeOK
    BY DEF PInv, IInv, Good, TypeOK
  <2> QED
    BY <2>1 DEF PInv, SideInv, CallInv, PlaceInv, ToldInv, ServedInv, ProcessTypeOK, Configs
<1> QED
  BY InitPInv, <1>1, <1>2, <1>3, PTL DEF ProcessSpec
=============================================================================
