---------------------------- MODULE ConfigStore ----------------------------
(***************************************************************************)
(* FileConfigStore (src/config.rs): one configuration file, replaced by      *)
(* writing a private temporary file, syncing it, renaming it over the old    *)
(* one and syncing the directory.  Two tasks of the service save: the        *)
(* service itself, and the engine when the portal grants a new restore       *)
(* token.  Control says when; this module is what a save and a load do, step *)
(* by step, and what a crash or a loss of power leaves.                      *)
(*                                                                          *)
(* A file is absent, whole (it parses and validates), torn (what an unsynced *)
(* or half-written file of ours may hold), or foreign (an invalid file that  *)
(* was there first).  Temporary files carry the process id, so those of a    *)
(* dead process are never met again: a crash drops them.                     *)
(***************************************************************************)
EXTENDS Naturals, FiniteSets

CONSTANTS
    Writers,         \* the tasks that save
    Attempts,        \* how many names create_temporary tries: 100
    FirstFiles,      \* bound: which of "absent", "foreign" and "whole" the file is at first
    MaxSetting,      \* bound: how often the settings change
    MaxToken         \* bound: how many restore tokens there are

ASSUME StoreAssumption == /\ Attempts \in Nat \ {0}
                          /\ MaxSetting \in Nat /\ MaxToken \in Nat

(* AppConfig, as far as it matters here: setting stands for everything a     *)
(* client may change, numbered in the order of the changes; token is the     *)
(* restore token, 0 for none.                                                *)
AppConfig == [setting : 0..MaxSetting, token : 0..MaxToken]
Default   == [setting |-> 0, token |-> 0]

File    == [is : {"absent", "foreign", "torn", "whole"}, config : AppConfig, synced : BOOLEAN]
Absent  == [is |-> "absent",  config |-> Default, synced |-> TRUE]
Foreign == [is |-> "foreign", config |-> Default, synced |-> TRUE]
Torn    == [is |-> "torn",    config |-> Default, synced |-> TRUE]
Saved(config) == [is |-> "whole", config |-> config, synced |-> TRUE]

(* A name in the directory, and the writer whose open file it names.         *)
Names   == 0..(Attempts - 1)
NoEntry == [owner |-> {}, file |-> Absent]
Idle  == [at |-> "idle", config |-> Default, name |-> 0]

VARIABLES
    file,         \* what config.toml names now
    entries,      \* the files a loss of power may leave under that name
    temporaries,  \* the temporary files by name, with the writer that has each open
    saves,        \* where each writer's save is
    collided      \* history: whether a failed save removed another's temporary file

storeVars == <<file, entries, temporaries, saves, collided>>

StoreTypeOK ==
    /\ file \in File /\ entries \subseteq File
    /\ temporaries \in [Names -> [owner : SUBSET Writers, file : File]]
    /\ saves \in [Writers -> [at : {"idle", "created", "written", "synced", "renamed"},
                              config : AppConfig, name : Names]]
    /\ collided \in BOOLEAN

StoreInit ==
    /\ file \in {f \in {Absent, Foreign, Saved(Default)} : f.is \in FirstFiles}
    /\ entries = {file}
    /\ temporaries = [n \in Names |-> NoEntry]
    /\ saves = [w \in Writers |-> Idle]
    /\ collided = FALSE

Saving(w) == saves[w].at # "idle"
At(w, step) == saves[w].at = step
Goto(w, step) == saves' = [saves EXCEPT ![w].at = step]
Temporary(w) == temporaries[saves[w].name]

(* What w does to its open file shows in the directory while the name is its. *)
Fill(w, f) ==
    temporaries' = IF Temporary(w).owner = {w}
                   THEN [temporaries EXCEPT ![saves[w].name].file = f]
                   ELSE temporaries
Unlink(w)  == temporaries' = [temporaries EXCEPT ![saves[w].name] = NoEntry]

-----------------------------------------------------------------------------
(* load.  legacy is what capture.toml, the file of the version before, says. *)
Loaded(legacy) == CASE file.is = "whole"  -> file.config
                    [] file.is = "absent" -> legacy
                    [] OTHER              -> Default

(* preserve_invalid renames an invalid file away; the rename is not synced.  *)
Load ==
    /\ IF file.is \in {"foreign", "torn"}
       THEN file' = Absent /\ entries' = entries \cup {Absent}
       ELSE UNCHANGED <<file, entries>>
    /\ UNCHANGED <<temporaries, saves, collided>>

-----------------------------------------------------------------------------
(* save.  create_new gives each save a file of its own.                      *)
Free(name) == temporaries[name] = NoEntry
FirstFree(name) == Free(name) /\ \A n \in Names : Free(n) => name <= n

CreateTemporary(w, config) ==
    /\ ~Saving(w)
    /\ \E name \in Names :
          /\ FirstFree(name)
          /\ temporaries' = [temporaries EXCEPT ![name] = [owner |-> {w}, file |-> Torn]]
          /\ saves' = [saves EXCEPT ![w] = [at |-> "created", config |-> config, name |-> name]]
    /\ UNCHANGED <<file, entries, collided>>

WriteTemporary(w) ==
    /\ At(w, "created") /\ Goto(w, "written")
    /\ Fill(w, [Saved(saves[w].config) EXCEPT !.synced = FALSE])
    /\ UNCHANGED <<file, entries, collided>>

(* mutant: no sync_all before the rename *)
SyncSkipped(w) ==
    /\ At(w, "written") /\ Goto(w, "synced")
    /\ UNCHANGED <<file, entries, temporaries, collided>>

SyncTemporary(w) ==
    /\ At(w, "written") /\ Goto(w, "synced")
    /\ Fill(w, Saved(saves[w].config))
    /\ UNCHANGED <<file, entries, collided>>

Replace(w) ==
    /\ At(w, "synced") /\ Temporary(w) # NoEntry
    /\ Goto(w, "renamed")
    /\ file' = Temporary(w).file /\ entries' = entries \cup {Temporary(w).file}
    /\ Unlink(w)
    /\ UNCHANGED collided

SyncDirectory(w) ==
    /\ At(w, "renamed")
    /\ saves' = [saves EXCEPT ![w] = Idle]
    /\ entries' = {file}
    /\ UNCHANGED <<file, temporaries, collided>>

(* A step fails, and what bears the temporary's name is removed.  After the   *)
(* rename that can only be another writer's file, which then has no name, or  *)
(* shares one with the next save: the two have collided.                      *)
SaveFails(w) ==
    /\ Saving(w)
    /\ Unlink(w)
    /\ saves' = [saves EXCEPT ![w] = Idle]
    /\ collided' = (collided \/ (At(w, "renamed") /\ Temporary(w) # NoEntry))
    /\ UNCHANGED <<file, entries>>

SaveStep(w) == WriteTemporary(w) \/ SyncTemporary(w)

-----------------------------------------------------------------------------
(* The process dies; with the power, what was not synced is undone or torn.  *)
Settled(f) == IF f.synced THEN f ELSE Torn

ProcessDies ==
    /\ temporaries' = [n \in Names |-> NoEntry]
    /\ saves' = [w \in Writers |-> Idle]
    /\ UNCHANGED collided

Crash == ProcessDies /\ UNCHANGED <<file, entries>>

PowerLoss ==
    /\ ProcessDies
    /\ \E f \in entries : file' = Settled(f) /\ entries' = {Settled(f)}
=============================================================================
