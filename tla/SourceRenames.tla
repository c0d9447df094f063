---------------------------- MODULE SourceRenames ----------------------------
(***************************************************************************)
(* A config entry and the ids of its sources (__init__.py): setup, the     *)
(* subscription that follows renames, the handler of a rename, the reload, *)
(* and the forms that change the entry (config_flow.py).                   *)
(*                                                                         *)
(* The entry's data and its options name the sources configured: the       *)
(* mains, the circuits and what the pairs name.  The store names those it  *)
(* knows: a device that was assigned a circuit need not be configured.     *)
(* Setup needs the states of Required, which is all but the pairs.         *)
(*                                                                         *)
(* Setup waits for others after it read the entry and after it read the    *)
(* file; an unload waits for its save.  The handler of a rename waits for  *)
(* the store to be written, if the store knew the id, and goes on whatever *)
(* becomes of the entry.  A store object writes in turn, so a handler that *)
(* waited before the unload saved is done before it ends (`handlers`); one *)
(* that waits behind it is not (`late`), and the next setup loads another  *)
(* object.                                                                 *)
(*                                                                         *)
(* Assumed of Home Assistant: an id is not given to another source while   *)
(* its own rename is being followed, and by the time an entry is loaded    *)
(* the writes of its last instance are done.  A crash is left out.         *)
(*                                                                         *)
(* `missed` and `raced` are history: the sources renamed while nothing was *)
(* subscribed to their id, or named by another id in a form; those whose   *)
(* handler waited behind the save of an unload.                            *)
(***************************************************************************)
EXTENDS Integers, Sequences, Functions

CONSTANTS
  Sources,
  Configured,  \* those the entry names
  Required,    \* of these, the ones setup needs: mains and circuits
  Known,       \* those the store knows something of
  Assigned,    \* of these, the devices with an assignment
  Ids,
  FirstIds,    \* the id of each source at the start
  LastRename, LastForm, \* bounds
  NoOptions

ASSUME SourceRenamesAssumption ==
  /\ Configured \subseteq Sources /\ Required \subseteq Configured
  /\ Known \subseteq Sources /\ Assigned \subseteq Known
  /\ FirstIds \in Injection(Sources, Ids)
  /\ LastRename \in Nat /\ LastForm \in Nat
  /\ NoOptions \notin [Configured -> Ids]

VARIABLES
  ids,         \* the entity registry: the id of each source
  data,        \* entry.data, by what each id in it was meant for
  options,     \* entry.options
  config,      \* what the running setup or instance was set up with
  stage,       \* down, retry, loading, setup, loaded or unloading
  tracked,     \* the ids subscribed to
  handlers,    \* renames whose handler waits for the store, in turn
  late,        \* those that wait behind the save of the unload
  reloading,   \* a reload has been asked for
  shelved,     \* the ids the last store object knows sources by
  file,        \* those in the file, as the next setup will find it
  renamed, forms,
  missed, raced

entry == <<ids, data, options, config, stage, tracked, handlers, late, reloading, shelved,
           file, renamed, forms, missed, raced>>

\* {**entry.data, **entry.options}
Effective(d, o) == IF o = NoOptions THEN d ELSE o

Rewritten(f, old, new) == [s \in DOMAIN f |-> IF f[s] = old THEN new ELSE f[s]]

\* Is the entry's update listener registered, and its subscription?
Listening == stage \in {"loaded", "unloading"}

SourcesInit ==
  /\ ids = FirstIds
  /\ data = [s \in Configured |-> FirstIds[s]]
  /\ options \in {NoOptions, data}
  /\ config = data
  /\ stage = "down"
  /\ tracked = {}
  /\ handlers = <<>> /\ late = <<>>
  /\ reloading = FALSE
  /\ shelved = [s \in Known |-> FirstIds[s]]
  /\ file = shelved
  /\ renamed = 0 /\ forms = 0
  /\ missed = {} /\ raced = {}

-----------------------------------------------------------------------------
(* Setup.                                                                  *)

\* The setup of a reload that is asked for while the entry is tried again is the next
\* attempt; one asked for during another reload comes after it.
SetupStarts == reloading' = (reloading /\ stage = "down")

\* A source has no state: ConfigEntryNotReady, to be tried again.
SetupNotReady ==
  /\ stage \in {"down", "retry"}
  /\ \E s \in Required : Effective(data, options)[s] \notin Range(ids)
  /\ stage' = "retry" /\ SetupStarts
  /\ UNCHANGED <<ids, data, options, config, tracked, handlers, late, shelved, file,
                 renamed, forms, missed, raced>>

SetupBegins ==
  /\ stage \in {"down", "retry"}
  /\ \A s \in Required : Effective(data, options)[s] \in Range(ids)
  /\ stage' = "loading" /\ SetupStarts
  /\ config' = Effective(data, options)
  /\ UNCHANGED <<ids, data, options, tracked, handlers, late, shelved, file, renamed,
                 forms, missed, raced>>

\* A store object of its own, loaded from the file.
StoreLoads ==
  /\ stage = "loading"
  /\ stage' = "setup"
  /\ shelved' = file
  /\ UNCHANGED <<ids, data, options, config, tracked, handlers, late, reloading, file,
                 renamed, forms, missed, raced>>

\* Mutant: the switches of the pairs are not tracked.
SetupEndsPairless ==
  /\ stage = "setup" /\ late = <<>>
  /\ stage' = "loaded"
  /\ tracked' = {config[s] : s \in Required} \cup {shelved[s] : s \in Assigned}
  /\ UNCHANGED <<ids, data, options, config, handlers, late, reloading, shelved, file,
                 renamed, forms, missed, raced>>

\* The reload listener and the subscription.
SetupEnds ==
  /\ stage = "setup" /\ late = <<>>
  /\ stage' = "loaded"
  /\ tracked' = Range(config) \cup {shelved[s] : s \in Assigned}
  /\ UNCHANGED <<ids, data, options, config, handlers, late, reloading, shelved, file,
                 renamed, forms, missed, raced>>

\* _async_reload: the entry is unloaded, to be set up again.  Its save comes after
\* those of the handlers.
UnloadBegins ==
  /\ stage = "loaded" /\ reloading
  /\ stage' = "unloading"
  /\ reloading' = FALSE
  /\ file' = shelved
  /\ UNCHANGED <<ids, data, options, config, tracked, handlers, late, shelved, renamed,
                 forms, missed, raced>>

\* The save is done - of a later state of the object, if it still had to wait - and
\* what was registered for the unload is undone.
UnloadEnds ==
  /\ stage = "unloading" /\ handlers = <<>>
  /\ stage' = "down"
  /\ tracked' = {}
  /\ file' \in {file, shelved}
  /\ UNCHANGED <<ids, data, options, config, handlers, late, reloading, shelved, renamed,
                 forms, missed, raced>>

-----------------------------------------------------------------------------
(* Renames.                                                                *)

\* async_update_entry, which calls the listener if there is a change.
EntryUpdated(d) ==
  /\ data' = d
  /\ reloading' = (reloading \/ (d # data /\ Listening))

\* A handler that waits for the store to be written.
HandlerWaits(s, h) ==
  /\ IF stage = "loaded"
     THEN handlers' = Append(handlers, h) /\ UNCHANGED <<late, raced>>
     ELSE late' = Append(late, h) /\ raced' = raced \cup {s} /\ UNCHANGED handlers
  /\ UNCHANGED <<data, reloading>>

\* A person renames a source; _renamed runs to the end or to the store's write.
Rename(s, new) ==
  /\ renamed < LastRename /\ new \notin Range(ids)
  /\ \A i \in DOMAIN handlers : new # handlers[i].old
  /\ \A i \in DOMAIN late : new # late[i].old
  /\ renamed' = renamed + 1
  /\ ids' = [ids EXCEPT ![s] = new]
  /\ IF ids[s] \notin tracked
     THEN /\ missed' = missed \cup {s}
          /\ UNCHANGED <<data, reloading, shelved, handlers, late, raced>>
     ELSE /\ missed' = missed
          /\ shelved' = Rewritten(shelved, ids[s], new)
          /\ IF shelved' = shelved
             THEN /\ EntryUpdated(Rewritten(data, ids[s], new))
                  /\ UNCHANGED <<handlers, late, raced>>
             ELSE HandlerWaits(s, [old |-> ids[s], new |-> new, content |-> shelved'])
  /\ UNCHANGED <<options, config, stage, tracked, file, forms>>

\* The store is written; the entry's data, as it now is, gets the new id.
RenameEnds ==
  /\ handlers # <<>>
  /\ handlers' = Tail(handlers)
  /\ EntryUpdated(Rewritten(data, Head(handlers).old, Head(handlers).new))
  /\ UNCHANGED <<ids, options, config, stage, tracked, late, shelved, file, renamed, forms,
                 missed, raced>>

\* The same of the last instance's handlers, which wrote its store object.
LateRenameEnds ==
  /\ late # <<>> /\ stage # "unloading"
  /\ late' = Tail(late)
  /\ file' = Head(late).content
  /\ EntryUpdated(Rewritten(data, Head(late).old, Head(late).new))
  /\ UNCHANGED <<ids, options, config, stage, tracked, handlers, shelved, renamed, forms,
                 missed, raced>>

-----------------------------------------------------------------------------
(* The forms.                                                              *)

\* _validate: a form is taken if the mains and the circuits have states, so these are
\* named by their ids; the pairs are as typed.
Accepted(f) ==
  /\ \A s \in Required : f[s] = ids[s]
  /\ \A s \in Configured : \A t \in Sources : f[s] = ids[t] => s = t

SaveOptions(f) ==
  /\ forms < LastForm /\ Accepted(f)
  /\ forms' = forms + 1
  /\ options' = f
  /\ reloading' = (reloading \/ (options # f /\ Listening))
  /\ UNCHANGED <<ids, data, config, stage, tracked, handlers, late, shelved, file,
                 renamed, missed, raced>>

\* The options are cleared: they would override the new data.
Reconfigure(f) ==
  /\ forms < LastForm /\ Accepted(f)
  /\ forms' = forms + 1
  /\ data' = f
  /\ options' = NoOptions
  /\ reloading' = TRUE
  /\ missed' = missed \cup {s \in Configured : f[s] # ids[s]}
  /\ UNCHANGED <<ids, config, stage, tracked, handlers, late, shelved, file, renamed, raced>>

SetupStep ==
  \/ SetupNotReady \/ SetupBegins \/ StoreLoads \/ SetupEnds
  \/ UnloadBegins \/ UnloadEnds

SourcesNext ==
  \/ SetupStep
  \/ \E s \in Sources, new \in Ids : Rename(s, new)
  \/ RenameEnds \/ LateRenameEnds
  \/ \E f \in [Configured -> Ids] : SaveOptions(f) \/ Reconfigure(f)

SourcesSpec == SourcesInit /\ [][SourcesNext]_entry

-----------------------------------------------------------------------------
SourcesTypeOK ==
  /\ ids \in Injection(Sources, Ids)
  /\ data \in [Configured -> Ids]
  /\ options \in [Configured -> Ids] \cup {NoOptions}
  /\ config \in [Configured -> Ids]
  /\ stage \in {"down", "retry", "loading", "setup", "loaded", "unloading"}
  /\ tracked \subseteq Ids
  /\ reloading \in BOOLEAN
  /\ shelved \in [Known -> Ids] /\ file \in [Known -> Ids]
  /\ missed \subseteq Sources /\ raced \subseteq Sources

(* "Follow the configured sources through entity_id renames"               *)
(* (__init__.py:131): the mains, the circuits and what the pairs name,     *)
(* each for as long as its renames came while its id was subscribed to and *)
(* not while an unload was saving, and no options have been saved, which   *)
(* take precedence over the data a rename is written to.  The store knows  *)
(* each source it knew by its id and, once the handlers are done, so does  *)
(* the entry; a loaded entry that is not about to reload runs on the       *)
(* sources and would hear of their next rename.                            *)
RenamesAreFollowed ==
  /\ \A s \in Known \ (missed \cup raced) : shelved[s] = ids[s]
  /\ handlers = <<>> /\ options = NoOptions =>
       \A s \in Configured \ (missed \cup raced) :
         /\ data[s] = ids[s]
         /\ stage = "loaded" /\ ~reloading => config[s] = ids[s] /\ ids[s] \in tracked
=============================================================================
