--------------------------- MODULE ConfigStorage ---------------------------
(***************************************************************************)
(* HttpServerStorage (src/src/storage.rs): the configurations in memory    *)
(* under a mutex, and save_transaction, which writes them to the rules     *)
(* file through a temporary file and a backup.                             *)
(*                                                                         *)
(* An operation changes the memory and then saves, all under the mutex, so *)
(* at most one is in progress.  Each step of a save may return an I/O      *)
(* error, and the process may be killed between any two of them and        *)
(* started again.  Writes that have returned are taken to survive (the     *)
(* code does not sync them).  The backup is left out: nothing reads it.    *)
(***************************************************************************)
EXTENDS ServerConfigs

CONSTANT Torn    \* content of a file whose writing has begun and not ended

Configs == [Servers -> Server \cup {None}]

ASSUME TornAssumption == Torn \notin {None} \cup Configs
ASSUME AbsentAssumption == None \notin Server \cup Configs

VARIABLES
    memory,      \* HttpServerStorage.data
    main,        \* http-server.json: None (absent), Torn, or configurations
    tmp,         \* http-server.json.tmp
    phase        \* where the operation in progress is

files == <<main, tmp>>
vars == <<memory, files, phase>>

Saving == {"save", "write_tmp", "check_tmp", "backup", "rename"}
Phases == Saving \cup {"idle", "down", "refused"}

\* Before the first start: no file yet.
Init ==
    /\ memory = Empty
    /\ main = None /\ tmp = None
    /\ phase = "down"

----------------------------------------------------------------------------
(* The operation changes the memory first, whatever the save will do.      *)

Begin(op) == phase = "idle" /\ op /\ phase' = "save" /\ UNCHANGED files

CallCreate(s, graceful) == Begin(Create(memory, memory', s, graceful))
CallUpdate(s, graceful) == Begin(Update(memory, memory', s, graceful))
CallSetEnabled(s, on) == Begin(SetEnabled(memory, memory', s, on))
CallDelete(s) == Begin(Delete(memory, memory', s))
CallAddUpstream(s, up) == Begin(AddUpstream(memory, memory', s, up))
CallDeleteUpstream(s, up) == Begin(DeleteUpstream(memory, memory', s, up))
CallAddRoute(s, route) == Begin(AddRoute(memory, memory', s, route))
CallDeleteRoute(s, route) == Begin(DeleteRoute(memory, memory', s, route))

----------------------------------------------------------------------------
(* save_transaction.  An error returns to the caller; the memory stays as  *)
(* the operation left it.                                                  *)

SaveFails ==
    /\ phase \in Saving
    /\ phase' = "idle"
    /\ UNCHANGED <<memory, files>>

\* Faulty variant: the rules file itself is truncated and rewritten.
ValidateInPlace ==
    /\ phase = "save"
    /\ IF Valid(memory) THEN phase' = "write_tmp" /\ main' = Torn
                        ELSE phase' = "idle" /\ UNCHANGED main
    /\ UNCHANGED <<memory, tmp>>

\* validate_loaded_file, then fs::write truncates the temporary file ...
Validate ==
    /\ phase = "save"
    /\ IF Valid(memory) THEN phase' = "write_tmp" /\ tmp' = Torn
                        ELSE phase' = "idle" /\ UNCHANGED tmp
    /\ UNCHANGED <<memory, main>>

\* ... and fills it.
WriteTmp ==
    /\ phase = "write_tmp"
    /\ tmp' = memory
    /\ phase' = "check_tmp"
    /\ UNCHANGED <<memory, main>>

\* The temporary file is read back and parsed (but not validated).
CheckTmp ==
    /\ phase = "check_tmp"
    /\ phase' = IF tmp = Torn THEN "idle" ELSE IF main = None THEN "rename" ELSE "backup"
    /\ UNCHANGED <<memory, files>>

\* fs::copy of the rules file over the backup.
Backup ==
    /\ phase = "backup"
    /\ phase' = "rename"
    /\ UNCHANGED <<memory, files>>

Rename ==
    /\ phase = "rename"
    /\ main' = tmp
    /\ tmp' = None
    /\ phase' = "idle"
    /\ UNCHANGED memory

----------------------------------------------------------------------------
Crash ==
    /\ phase \notin {"down", "refused"}
    /\ phase' = "down"
    /\ memory' = Empty
    /\ UNCHANGED files

\* Faulty variant: a temporary file that is there is taken for the newer one.
RestartFromTmp ==
    /\ phase = "down"
    /\ phase' = "idle"
    /\ memory' = IF tmp \notin {None, Torn} THEN tmp ELSE IF main = None THEN Empty ELSE main
    /\ UNCHANGED files

\* load_or_empty: a file that cannot be parsed or is not valid stops the start.
Restart ==
    /\ phase = "down"
    /\ IF main = None THEN phase' = "idle" /\ UNCHANGED memory
       ELSE IF main # Torn /\ Valid(main) THEN phase' = "idle" /\ memory' = main
       ELSE phase' = "refused" /\ UNCHANGED memory
    /\ UNCHANGED files

----------------------------------------------------------------------------
Save == Validate \/ WriteTmp \/ CheckTmp \/ Backup \/ Rename

Call == \E s \in Servers :
    \/ \E flag \in BOOLEAN :
         CallCreate(s, flag) \/ CallUpdate(s, flag) \/ CallSetEnabled(s, flag)
    \/ CallDelete(s)
    \/ \E up \in Upstream : CallAddUpstream(s, up) \/ CallDeleteUpstream(s, up)
    \/ \E route \in Route : CallAddRoute(s, route) \/ CallDeleteRoute(s, route)

Next == Call \/ Save \/ SaveFails \/ Crash \/ Restart

Spec == Init /\ [][Next]_vars

----------------------------------------------------------------------------
TypeOK ==
    /\ memory \in Configs
    /\ \A file \in {main, tmp} : file = None \/ file = Torn \/ file \in Configs
    /\ phase \in Phases

\* Whenever the process is killed, the rules file is absent or complete and
\* valid, so the next start never refuses it: the file is only ever replaced
\* by a whole temporary one.
MainAlwaysLoads == main = None \/ (main # Torn /\ Valid(main))

\* No history of accepted calls makes the configurations invalid, which would
\* make every later save fail, nor gives a server two upstreams of one group and
\* name, which validation does not look for: a replacement takes out what it
\* replaces, whether graceful was switched on or off in between.
UniqueTargets(upstreams) == \A x, y \in upstreams : SameTarget(x, y) => x = y
ConfigsSound == Valid(memory) /\ \A s \in Present(memory) : UniqueTargets(memory[s].upstreams)

\* What load_or_empty would find on disk.
OnDisk == IF main = None THEN Empty ELSE main

\* Between operations the memory is what is on disk: what the management API
\* shows and applies is what a restart would load.
MemoryIsPersisted == phase = "idle" => memory = OnDisk

\* Whatever is on disk is at any time the whole configuration as some accepted
\* call left it, with nothing of a later call and nothing of a call before it
\* undone; a crash goes back to it and to nothing else.
Store == INSTANCE ConfigStore
    WITH current <- IF phase = "down" THEN OnDisk ELSE memory, persisted <- OnDisk
ImplementsConfigStore == Store!Spec
=============================================================================
