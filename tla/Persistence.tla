---------------------------- MODULE Persistence ----------------------------
(***************************************************************************)
(* How the state reaches the state file (app.go save, load, persistState;  *)
(* management.go).  App.mu guards the state in memory, App.saveMu the way  *)
(* to the file.  Three kinds of handler meet there:                        *)
(*   - most routes change memory first and save it afterwards;             *)
(*   - updateAuthPriorities writes the file first and memory afterwards,   *)
(*     all of it under saveMu;                                             *)
(*   - register and reconfigure name a state file and replace memory with  *)
(*     it, after a legacy file was copied there if it is missing.          *)
(*                                                                         *)
(* Of the state's contents only their age matters here: each field holds   *)
(* the number of the update it shows, 0 for the empty state.  A file that  *)
(* memory was not loaded from may still be saved to: from the moment       *)
(* configure names it until load has read it, and at Shutdown after a      *)
(* failed register.  Such a save takes the file over (takenOver).          *)
(***************************************************************************)
EXTENDS Naturals, FiniteSets

CONSTANTS
  Writers,          \* requests of the routes that change memory first
  Plain,            \* the fields those requests write
  Editors,          \* updateAuthPriorities requests
  Priorities,       \* the fields those write: types, priorities, overrides
  Field,            \* the field that each request updates
  Loader,           \* register and reconfigure
  Nobody,
  Paths, Default, NoPath,     \* state files; the one used without state_file
  Legacy,           \* what the legacy file that each path looks for holds, or NoFile
  Beside,           \* the state file that has the legacy name in the directory of
                    \* each other path, or NoPath: plugins/ has the Default one
  NoFile, Torn,     \* a missing file, and a copy of the legacy file cut short
  MaxConfigures, MaxCrashes

Requests == Writers \cup Editors
Fields   == Plain \cup Priorities
Handlers == Requests \cup {Loader}
Contents == [Fields -> Nat]
Empty    == [f \in Fields |-> 0]

Files    == Contents \cup {NoFile, Torn}

\* What a state file shows: a missing one stands for the empty state.
Read(state) == IF state \in {NoFile, Torn} THEN Empty ELSE state

ASSUME PersistenceAssumption ==
  /\ Writers \cap Editors = {} /\ Loader \notin Requests /\ Nobody \notin Handlers
  /\ Plain \cap Priorities = {} /\ {NoFile, Torn} \cap Contents = {}
  /\ NoFile # Torn /\ Default \in Paths /\ NoPath \notin Paths
  /\ Legacy \in [Paths -> Contents \cup {NoFile}]
  /\ Field \in [Requests -> Fields]
  /\ \A w \in Writers : Field[w] \in Plain
  /\ \A e \in Editors : Field[e] \in Priorities
  /\ MaxConfigures \in Nat /\ MaxCrashes \in Nat

\* A path with a file beside it looks for the legacy file where that one does, in
\* the working directory.
ASSUME BesideAssumption ==
  /\ Beside \in [Paths -> Paths \cup {NoPath}]
  /\ \A p \in Paths : Beside[p] # NoPath =>
       Beside[Beside[p]] = NoPath /\ Legacy[Beside[p]] = Legacy[p]

VARIABLES
  memory,           \* App.state
  files,            \* what each path holds
  stateFile,        \* App.stateFile
  saving,           \* who holds saveMu
  pc,               \* of each handler
  copy,             \* the cloned or loaded state each handler works on
  target,           \* the path each request read together with its clone
  version,          \* history: the update each request made of its field
  replaced,         \* history: requests whose update a reload took from memory
  base,             \* history: the file memory was loaded from
  takenOver,        \* history: files saved from a memory not loaded from them
  inherited,        \* history: what there was to migrate when each path was missing
  up,               \* registered: the host sends requests
  configures, crashes

histories == <<version, replaced, base, takenOver, inherited>>
vars == <<memory, files, stateFile, saving, pc, copy, target, histories,
          up, configures, crashes>>

\* save      memory changed, not yet saved      persist    cloned, not yet written
\* apply     written, not yet in memory         published  path named, not loaded
\* migrating legacy file being copied           loaded     read, not yet in memory
Answers == {"acked", "failed"}
PCs     == {"idle", "save", "persist", "apply", "published", "migrating", "loaded",
            "dead"} \cup Answers

\* Memory, the files and every copy are whole states but for a torn migration,
\* and saveMu has one holder.
TypeOK ==
  /\ memory \in Contents /\ files \in [Paths -> Files]
  /\ stateFile \in Paths
  /\ saving \in Handlers \cup {Nobody}
  /\ pc \in [Handlers -> PCs]
  /\ copy \in [Handlers -> Contents]
  /\ target \in [Requests -> Paths]
  /\ version \in [Requests -> Nat]
  /\ replaced \subseteq Requests
  /\ base \in Paths \cup {NoPath} /\ takenOver \subseteq Paths
  /\ inherited \in [Paths -> Contents \cup {NoFile}]
  /\ up \in BOOLEAN
  /\ configures \in 0..MaxConfigures /\ crashes \in 0..MaxCrashes

\* The legacy file is older than any state file.
Init ==
  /\ memory = Empty /\ files = [p \in Paths |-> NoFile]
  /\ stateFile = Default
  /\ saving = Nobody
  /\ pc = [h \in Handlers |-> "idle"]
  /\ copy = [h \in Handlers |-> Empty]
  /\ target = [r \in Requests |-> Default]
  /\ version = [r \in Requests |-> 0]
  /\ replaced = {}
  /\ base = NoPath /\ takenOver = {}
  /\ inherited = [p \in Paths |-> NoFile]
  /\ up = FALSE
  /\ configures = 0 /\ crashes = 0

-----------------------------------------------------------------------------
(* Requests.                                                               *)

\* A handler that changes memory first does so under App.mu alone.
UpdateMemory(w) ==
  /\ up /\ pc[w] = "idle"
  /\ memory' = [memory EXCEPT ![Field[w]] = @ + 1]
  /\ version' = [version EXCEPT ![w] = memory[Field[w]] + 1]
  /\ pc' = [pc EXCEPT ![w] = "save"]
  /\ UNCHANGED <<files, stateFile, saving, copy, target, replaced, base, takenOver,
                 inherited, up, configures, crashes>>

\* The runtime saves of pick and usage save memory as it is, and so does
\* Shutdown, which asks neither for a registration nor for a successful load.
SaveRuntimeState(w) ==
  /\ pc[w] = "idle"
  /\ pc' = [pc EXCEPT ![w] = "save"]
  /\ UNCHANGED <<memory, files, stateFile, saving, copy, target, histories,
                 up, configures, crashes>>

\* Fault: the state is cloned before saveMu is taken.
SaveUnlocked(w) ==
  /\ pc[w] = "save"
  /\ copy' = [copy EXCEPT ![w] = memory]
  /\ target' = [target EXCEPT ![w] = stateFile]
  /\ pc' = [pc EXCEPT ![w] = "persist"]
  /\ UNCHANGED <<memory, files, stateFile, saving, histories, up, configures, crashes>>

\* save takes saveMu and clones whatever memory and path are by then.
Save(w) ==
  /\ pc[w] = "save" /\ saving = Nobody
  /\ saving' = w
  /\ copy' = [copy EXCEPT ![w] = memory]
  /\ target' = [target EXCEPT ![w] = stateFile]
  /\ pc' = [pc EXCEPT ![w] = "persist"]
  /\ UNCHANGED <<memory, files, stateFile, histories, up, configures, crashes>>

\* Fault: memory gets the new priorities before the file does.
EditMemoryToo(e) ==
  LET edited == [memory EXCEPT ![Field[e]] = @ + 1] IN
  /\ up /\ pc[e] = "idle" /\ saving = Nobody
  /\ saving' = e
  /\ memory' = edited
  /\ copy' = [copy EXCEPT ![e] = edited]
  /\ target' = [target EXCEPT ![e] = stateFile]
  /\ version' = [version EXCEPT ![e] = edited[Field[e]]]
  /\ pc' = [pc EXCEPT ![e] = "persist"]
  /\ UNCHANGED <<files, stateFile, replaced, base, takenOver, inherited,
                 up, configures, crashes>>

\* updateAuthPriorities takes saveMu and edits a clone.
EditClone(e) ==
  LET edited == [memory EXCEPT ![Field[e]] = @ + 1] IN
  /\ up /\ pc[e] = "idle" /\ saving = Nobody
  /\ saving' = e
  /\ copy' = [copy EXCEPT ![e] = edited]
  /\ target' = [target EXCEPT ![e] = stateFile]
  /\ version' = [version EXCEPT ![e] = edited[Field[e]]]
  /\ pc' = [pc EXCEPT ![e] = "persist"]
  /\ UNCHANGED <<memory, files, stateFile, replaced, base, takenOver, inherited,
                 up, configures, crashes>>

\* The clone goes with the call that made it.
Dropped(h) == [copy EXCEPT ![h] = Empty]

\* persistState writes a temporary file and renames it over the state file; a
\* writer is then done, an editor still has memory to change.
PersistOK(r) ==
  /\ pc[r] = "persist"
  /\ files' = [files EXCEPT ![target[r]] = copy[r]]
  /\ takenOver' = IF target[r] = base THEN takenOver ELSE takenOver \cup {target[r]}
  /\ saving' = IF r \in Editors THEN saving ELSE Nobody
  /\ pc' = [pc EXCEPT ![r] = IF r \in Editors THEN "apply" ELSE "acked"]
  /\ copy' = IF r \in Editors THEN copy ELSE Dropped(r)
  /\ UNCHANGED <<memory, stateFile, target, version, replaced, base, inherited,
                 up, configures, crashes>>

\* What ends a save without a file.
Unwritten(r, answer) ==
  /\ pc[r] = "persist"
  /\ pc' = [pc EXCEPT ![r] = answer]
  /\ copy' = Dropped(r)
  /\ UNCHANGED <<memory, files, stateFile, target, histories,
                 up, configures, crashes>>

\* Fault: an error keeps the lock.
PersistFailsLocked(r) == Unwritten(r, "failed") /\ UNCHANGED saving

\* Fault: the error of persistState is dropped.
PersistErrorIgnored(r) == Unwritten(r, "acked") /\ saving' = Nobody

\* Any of its steps may fail before the rename.  Memory keeps what a writer put there.
PersistFails(r) == Unwritten(r, "failed") /\ saving' = Nobody

\* Fault: the whole clone replaces memory.
ApplyEverything(e) ==
  /\ pc[e] = "apply"
  /\ memory' = copy[e]
  /\ saving' = Nobody
  /\ base' = IF target[e] = base THEN base ELSE NoPath
  /\ pc' = [pc EXCEPT ![e] = "acked"]
  /\ copy' = Dropped(e)
  /\ UNCHANGED <<files, stateFile, target, version, replaced, takenOver, inherited,
                 up, configures, crashes>>

\* All three priority fields are copied, those the request did not name too.
\* Memory is no longer that of its file if they went to another one.
Apply(e) ==
  /\ pc[e] = "apply"
  /\ memory' = [f \in Fields |-> IF f \in Priorities THEN copy[e][f] ELSE memory[f]]
  /\ saving' = Nobody
  /\ base' = IF target[e] = base THEN base ELSE NoPath
  /\ pc' = [pc EXCEPT ![e] = "acked"]
  /\ copy' = Dropped(e)
  /\ UNCHANGED <<files, stateFile, target, version, replaced, takenOver, inherited,
                 up, configures, crashes>>

-----------------------------------------------------------------------------
(* register and reconfigure, and the end of the process.                   *)

\* configure names the file under App.mu alone, before load asks for saveMu.
Configure(p) ==
  /\ pc[Loader] = "idle" /\ configures < MaxConfigures
  /\ configures' = configures + 1
  /\ stateFile' = p
  /\ pc' = [pc EXCEPT ![Loader] = "published"]
  /\ UNCHANGED <<memory, files, saving, copy, target, histories, up, crashes>>

\* load has saveMu and goes on with the state it read.
Loaded(state) ==
  /\ copy' = [copy EXCEPT ![Loader] = state]
  /\ saving' = Loader
  /\ pc' = [pc EXCEPT ![Loader] = "loaded"]
  /\ UNCHANGED <<memory, stateFile, target, version, replaced, base, takenOver,
                 up, configures, crashes>>

\* What migrateLegacyStateFile copies, or NoFile: the first candidate there is.
Candidate(p) ==
  IF Legacy[p] = NoFile /\ Beside[p] # NoPath THEN files[Beside[p]] ELSE Legacy[p]

\* Migration is due when the state file is missing and there is a candidate.
MigrationDue == files[stateFile] = NoFile /\ Candidate(stateFile) # NoFile

\* Fault: a missing file is not told from an empty one.
LoadMissing ==
  /\ pc[Loader] = "published" /\ saving = Nobody
  /\ ~MigrationDue
  /\ Loaded(files[stateFile]) /\ UNCHANGED <<files, inherited>>

\* Fault: whatever cannot be read stands for the empty state.
LoadAnything ==
  /\ pc[Loader] = "published" /\ saving = Nobody
  /\ ~MigrationDue
  /\ Loaded(Read(files[stateFile])) /\ UNCHANGED <<files, inherited>>

\* A torn file does not parse.
Load ==
  /\ pc[Loader] = "published" /\ saving = Nobody
  /\ ~MigrationDue /\ files[stateFile] # Torn
  /\ Loaded(Read(files[stateFile])) /\ UNCHANGED <<files, inherited>>

\* migrateLegacyStateFile writes in place: the file is torn until it is whole.
\* Memory that was loaded while there was none is not that of the new file.
Migrate ==
  /\ pc[Loader] = "published" /\ saving = Nobody
  /\ MigrationDue
  /\ files' = [files EXCEPT ![stateFile] = Torn]
  /\ saving' = Loader
  /\ pc' = [pc EXCEPT ![Loader] = "migrating"]
  /\ inherited' = [inherited EXCEPT ![stateFile] = Candidate(stateFile)]
  /\ base' = IF base = stateFile THEN NoPath ELSE base
  /\ UNCHANGED <<memory, stateFile, copy, target, version, replaced, takenOver,
                 up, configures, crashes>>

\* saveMu keeps the candidate as it was read.
Migrated ==
  /\ pc[Loader] = "migrating"
  /\ files' = [files EXCEPT ![stateFile] = Candidate(stateFile)]
  /\ Loaded(Candidate(stateFile)) /\ UNCHANGED inherited

\* Memory becomes what the file held when it was read.
Replace ==
  /\ pc[Loader] = "loaded"
  /\ memory' = copy[Loader]
  /\ replaced' = replaced \cup {w \in Writers : pc[w] = "save"}
  /\ base' = stateFile
  /\ saving' = Nobody
  /\ up' = TRUE
  /\ pc' = [pc EXCEPT ![Loader] = "idle"]
  /\ copy' = Dropped(Loader)
  /\ UNCHANGED <<files, stateFile, target, version, takenOver, inherited,
                 configures, crashes>>

\* The file cannot be read, migrated or validated: memory stays as it is, and
\* so does the path, which later saves go to.
LoadFails ==
  /\ \/ pc[Loader] = "published" /\ saving = Nobody
     \/ pc[Loader] \in {"migrating", "loaded"}
  /\ saving' = Nobody
  /\ pc' = [pc EXCEPT ![Loader] = "idle"]
  /\ copy' = Dropped(Loader)
  /\ UNCHANGED <<memory, files, stateFile, target, histories,
                 up, configures, crashes>>

\* The process ends between any two steps; the next one starts empty.
Crash ==
  /\ crashes < MaxCrashes
  /\ crashes' = crashes + 1
  /\ memory' = Empty /\ stateFile' = Default /\ base' = NoPath
  /\ saving' = Nobody
  /\ up' = FALSE
  /\ pc' = [h \in Handlers |->
              IF h = Loader THEN "idle"
              ELSE IF pc[h] \in {"idle"} \cup Answers THEN pc[h] ELSE "dead"]
  /\ copy' = [h \in Handlers |-> Empty]
  /\ UNCHANGED <<files, target, version, replaced, takenOver, inherited, configures>>

-----------------------------------------------------------------------------
Handle(r) ==
  \/ r \in Writers /\ Save(r)
  \/ PersistOK(r) \/ PersistFails(r)
  \/ r \in Editors /\ Apply(r)

Reload == Load \/ Migrate \/ Migrated \/ Replace \/ LoadFails

Next ==
  \/ \E w \in Writers : UpdateMemory(w) \/ SaveRuntimeState(w)
  \/ \E e \in Editors : EditClone(e)
  \/ \E r \in Requests : Handle(r)
  \/ \E p \in Paths : Configure(p)
  \/ Reload \/ Crash

Spec == Init /\ [][Next]_vars

\* A handler that was called runs on.  No request waits for saveMu for ever,
\* since there are finitely many others and each gives it back.
FairSpec ==
  /\ Spec
  /\ \A r \in Requests : WF_vars(Handle(r))
  /\ WF_vars(Reload)
-----------------------------------------------------------------------------
(* Properties                                                              *)

\* A file never shows an older update of a field than it did, unless it was
\* saved from a memory that was not loaded from it: a slow save does not
\* overwrite a later one with what it cloned earlier, a migration overwrites
\* nothing, and neither a reload in between nor a crash brings an old value
\* back (save, saveMu, migrateLegacyStateFile).
FileNeverGoesBack ==
  [][\A p \in Paths \ takenOver', f \in Fields :
       Read(files[p])[f] <= Read(files'[p])[f]]_vars

\* An update that was acknowledged is in the file it was saved to, or a later
\* one of its field, through every crash, unless a reload took it out of memory
\* before the save (the window between App.mu and saveMu in the memory-first
\* handlers) or the file was taken over.
AckedIsDurable ==
  \A r \in Requests :
    pc[r] = "acked" /\ r \notin replaced /\ target[r] \notin takenOver
      => version[r] <= Read(files[target[r]])[Field[r]]

\* Priorities are never used before they are in the file that memory came
\* from, so that no crash takes back a priority that picks have gone by
\* (updateAuthPriorities).
PrioritiesFileFirst ==
  base # NoPath => \A f \in Priorities : memory[f] <= Read(files[base])[f]

\* While the plugin is up, no acknowledged update of the file it works with is
\* missing from memory: the editors give each other and the writers nothing
\* back that was overwritten.
AckedIsInMemory ==
  up => \A r \in Requests :
          pc[r] = "acked" /\ r \notin replaced /\ target[r] = base
                          /\ target[r] \notin takenOver
            => version[r] <= memory[Field[r]]

\* A plugin that came up where there was something to migrate has all of it,
\* a legacy file or another state file as it was then, however often the migration
\* was cut short, unless its file was taken over: a torn copy is refused and not
\* taken for an empty state, and one that is there is not copied again (load).
LegacyIsKept ==
  base # NoPath /\ base \notin takenOver
    => \A f \in Fields : /\ Read(Legacy[base])[f] <= memory[f]
                         /\ Read(inherited[base])[f] <= memory[f]

\* Every request that has begun is answered, or dies with the process: saveMu
\* is always given back, on every error path.
Answered ==
  \A r \in Requests :
    pc[r] \in {"save", "persist", "apply"} ~> pc[r] \in Answers \cup {"dead"}
=============================================================================
