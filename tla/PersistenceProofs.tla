------------------------- MODULE PersistenceProofs -------------------------
(***************************************************************************)
(* What the path from memory to the state files keeps, for any number of   *)
(* requests, fields, files, configure calls and crashes.                   *)
(*                                                                         *)
(* Everything rests on saveMu: its holder alone writes a file, changes a   *)
(* priority in memory or replaces memory (Locking).  So what it cloned is  *)
(* still no older than the file when it writes (Fresh), and memory is no   *)
(* older than the file it came from (Following).                           *)
(***************************************************************************)
EXTENDS Persistence, TLAPS

Locked == {"persist", "apply", "migrating", "loaded"}

\* a is nowhere newer than b, on the fields F.
Older(F, a, b) == \A f \in F : a[f] <= b[f]

\* saveMu has one holder, and each kind of handler its own steps.
Locking ==
  /\ \A h \in Handlers : pc[h] \in Locked <=> saving = h
  /\ pc[Loader] \in {"idle", "published", "migrating", "loaded"}
  /\ \A r \in Requests : pc[r] \notin {"published", "migrating", "loaded"}
  /\ \A r \in Requests : pc[r] = "apply" => r \in Editors
  /\ \A r \in Requests : pc[r] = "save" => r \in Writers

\* A file is torn only where it was missing, and never the one in use.
Whole ==
  /\ pc[Loader] = "migrating" =>
       /\ files[stateFile] = Torn /\ base # stateFile
       /\ Candidate(stateFile) # NoFile /\ inherited[stateFile] = Candidate(stateFile)
  /\ pc[Loader] = "loaded" =>
       files[stateFile] # Torn /\ ~MigrationDue /\ copy[Loader] = Read(files[stateFile])
  /\ base # NoPath =>
       files[base] # Torn /\ (files[base] = NoFile => Legacy[base] = NoFile)

\* A file that others are migrated from was only torn where there was a legacy
\* file, and a missing file was not migrated.
Sourced ==
  \A p \in Paths :
    /\ files[p] = Torn /\ Beside[p] = NoPath => Legacy[p] # NoFile
    /\ files[p] = NoFile => inherited[p] = NoFile

\* What a request is about to write, or has written and not yet put in memory.
Fresh ==
  \A r \in Requests :
    /\ pc[r] = "persist" /\ target[r] = base => Older(Fields, Read(files[base]), copy[r])
    /\ pc[r] = "apply" /\ target[r] = base => files[base] = copy[r]
    /\ pc[r] \in {"persist", "apply"} => Older(Priorities, memory, copy[r])
    /\ pc[r] = "persist" => Older(Plain, copy[r], memory)
    /\ pc[r] = "persist" /\ r \in Writers => Older(Priorities, copy[r], memory)

\* Memory follows the file it came from, but for the priorities an editor has
\* just written there.
Following ==
  base # NoPath =>
    /\ Older(Plain, Read(files[base]), memory)
    /\ (\A e \in Editors : pc[e] # "apply") => Older(Priorities, Read(files[base]), memory)

\* An update that was not taken out of memory is on its way.
Underway ==
  \A r \in Requests \ replaced :
    /\ pc[r] = "idle" => version[r] = 0
    /\ r \in Writers /\ pc[r] \in {"save", "persist"} => version[r] <= memory[Field[r]]
    /\ pc[r] \in {"persist", "apply"} => version[r] <= copy[r][Field[r]]

\* A written update, in the file before it is acknowledged.
Durable ==
  \A r \in Requests \ replaced :
    pc[r] \in {"apply", "acked"} /\ target[r] \notin takenOver
      => version[r] <= Read(files[target[r]])[Field[r]]

\* The same for memory, once the update was acknowledged.
InMemory ==
  \A r \in Requests \ replaced :
    pc[r] = "acked" /\ target[r] = base /\ target[r] \notin takenOver
      => version[r] <= memory[Field[r]]

\* What there is to migrate: a missing file stands for the empty state.
Sources == Contents \cup {NoFile}

\* A state that is nowhere older than the legacy file, nor than what was migrated.
Inherits(state, legacy, source) ==
  Older(Fields, Read(legacy), state) /\ Older(Fields, Read(source), state)

\* What was migrated is in every file that replaced it, and in memory.
Migrates ==
  /\ \A p \in Paths \ takenOver :
       files[p] \in Contents => Inherits(Read(files[p]), Legacy[p], inherited[p])
  /\ base # NoPath /\ base \notin takenOver
       => Inherits(memory, Legacy[base], inherited[base])

\* No file that was not taken over shows less than it did.
Forward ==
  \A p \in Paths \ takenOver' : Older(Fields, Read(files[p]), Read(files'[p]))

\* The inductive invariant.
IInv ==
  /\ TypeOK /\ Locking /\ Whole /\ Sourced /\ Fresh /\ Following /\ PrioritiesFileFirst
  /\ Underway /\ Durable /\ InMemory /\ Migrates
-----------------------------------------------------------------------------
(* Lemmas                                                                  *)

\* The empty state is a state.
LEMMA EmptyType == Empty \in Contents
    BY DEF Empty, Contents

\* What a file shows is a state.
LEMMA ReadType == \A s \in Files : Read(s) \in Contents
    BY EmptyType DEF Files, Read

\* A whole file shows what it holds.
LEMMA ReadWhole == \A s \in Contents : Read(s) = s
    BY PersistenceAssumption DEF Read

\* What a legacy file shows is a state.
LEMMA LegacyType ==
  \A p \in Paths : /\ Read(Legacy[p]) \in Contents
                   /\ Legacy[p] # NoFile => Legacy[p] \in Contents
                   /\ Legacy[p] # NoFile => Read(Legacy[p]) = Legacy[p]
    BY EmptyType, ReadWhole, PersistenceAssumption DEF Read

\* What is migrated is whole, and it is the legacy file if there is one.
LEMMA CandidateType ==
  TypeOK /\ Sourced
    => \A p \in Paths :
         /\ Candidate(p) \in Contents \cup {NoFile}
         /\ Candidate(p) # NoFile => Read(Candidate(p)) = Candidate(p)
         /\ Legacy[p] # NoFile => Candidate(p) = Legacy[p]
<1> SUFFICES ASSUME TypeOK, Sourced, NEW p \in Paths
             PROVE  /\ Candidate(p) \in Contents \cup {NoFile}
                    /\ Candidate(p) # NoFile => Read(Candidate(p)) = Candidate(p)
                    /\ Legacy[p] # NoFile => Candidate(p) = Legacy[p]
    OBVIOUS
<1>1. CASE Legacy[p] # NoFile \/ Beside[p] = NoPath
    BY <1>1, LegacyType, PersistenceAssumption DEF Candidate
<1>2. CASE Legacy[p] = NoFile /\ Beside[p] # NoPath
  <2>1. /\ Beside[p] \in Paths /\ Beside[Beside[p]] = NoPath
        /\ Legacy[Beside[p]] = NoFile /\ Candidate(p) = files[Beside[p]]
      BY <1>2, BesideAssumption DEF Candidate
  <2>2. files[Beside[p]] \in Contents \cup {NoFile}
      BY <2>1 DEF Sourced, TypeOK, Files
  <2>3. QED
      BY <1>2, <2>1, <2>2, ReadWhole
<1>3. QED
    BY <1>1, <1>2

\* Each kind of request has its fields, and requests are not the loader.
LEMMA FieldType ==
  /\ \A r \in Requests : Field[r] \in Fields
  /\ \A w \in Writers : w \in Requests /\ Field[w] \in Plain /\ Field[w] \notin Priorities
  /\ \A e \in Editors : e \in Requests /\ Field[e] \in Priorities /\ Field[e] \notin Plain
  /\ \A r \in Requests : r \in Handlers /\ r # Loader /\ r # Nobody
  /\ Loader \in Handlers /\ Loader # Nobody
    BY PersistenceAssumption DEF Requests, Handlers, Fields

\* Whole states stay whole states.
LEMMA TypeStep == TypeOK /\ Locking /\ Whole /\ Sourced /\ [Next]_vars => TypeOK'
<1> SUFFICES ASSUME TypeOK /\ Locking /\ Whole /\ Sourced, [Next]_vars PROVE TypeOK'
    OBVIOUS
<1> USE EmptyType, ReadType, FieldType, PersistenceAssumption DEF TypeOK, PCs,
        Answers, Files, Contents, Handlers, Requests, Dropped
<1>1. ASSUME NEW w \in Writers, UpdateMemory(w) PROVE TypeOK'
    BY <1>1 DEF UpdateMemory, histories
<1>2. ASSUME NEW w \in Writers, SaveRuntimeState(w) PROVE TypeOK'
    BY <1>2 DEF SaveRuntimeState, histories
<1>3. ASSUME NEW e \in Editors, EditClone(e) PROVE TypeOK'
    BY <1>3 DEF EditClone, histories
<1>4. ASSUME NEW w \in Writers, Save(w) PROVE TypeOK'
    BY <1>4 DEF Save, histories
<1>5. ASSUME NEW r \in Requests, PersistOK(r) PROVE TypeOK'
    BY <1>5 DEF PersistOK, histories
<1>6. ASSUME NEW r \in Requests, PersistFails(r) PROVE TypeOK'
    BY <1>6 DEF PersistFails, Unwritten, histories
<1>7. ASSUME NEW e \in Editors, Apply(e) PROVE TypeOK'
    BY <1>7 DEF Apply, histories
<1>8. ASSUME NEW p \in Paths, Configure(p) PROVE TypeOK'
    BY <1>8 DEF Configure, histories
<1>9. ASSUME Load PROVE TypeOK'
    BY <1>9 DEF Load, Loaded, histories
<1>10. ASSUME Migrate PROVE TypeOK'
    BY <1>10, CandidateType DEF Migrate, MigrationDue
<1>11. ASSUME Migrated PROVE TypeOK'
  <2>1. Candidate(stateFile) \in Contents
    BY <1>11, CandidateType DEF Migrated, Whole
  <2>2. QED
    BY <1>11, <2>1 DEF Migrated, Loaded, histories
<1>12. ASSUME Replace PROVE TypeOK'
    BY <1>12 DEF Replace, histories
<1>13. ASSUME LoadFails PROVE TypeOK'
    BY <1>13 DEF LoadFails, histories
<1>14. ASSUME Crash PROVE TypeOK'
  <2>1. pc' \in [Handlers -> PCs]
    BY <1>14 DEF Crash
  <2>2. copy' \in [Handlers -> Contents] /\ memory' \in Contents
    BY <1>14 DEF Crash
  <2>3. crashes' \in 0..MaxCrashes
    BY <1>14 DEF Crash
  <2>4. QED
    BY <1>14, <2>1, <2>2, <2>3 DEF Crash, histories
<1>15. ASSUME UNCHANGED vars PROVE TypeOK'
    BY <1>15 DEF vars, histories
<1>16. QED
    BY <1>1, <1>2, <1>3, <1>4, <1>5, <1>6, <1>7, <1>8, <1>9, <1>10, <1>11, <1>12,
       <1>13, <1>14, <1>15 DEF Next, Handle, Reload

\* saveMu keeps its one holder.
LEMMA LockingStep == TypeOK /\ Locking /\ [Next]_vars => Locking'
<1> SUFFICES ASSUME TypeOK /\ Locking, [Next]_vars PROVE Locking'
    OBVIOUS
<1> USE FieldType, PersistenceAssumption DEF TypeOK, Locking, Locked, Handlers,
        Requests, Answers
<1>1. ASSUME NEW w \in Writers, UpdateMemory(w) PROVE Locking'
    BY <1>1 DEF UpdateMemory, histories
<1>2. ASSUME NEW w \in Writers, SaveRuntimeState(w) PROVE Locking'
    BY <1>2 DEF SaveRuntimeState, histories
<1>3. ASSUME NEW e \in Editors, EditClone(e) PROVE Locking'
    BY <1>3 DEF EditClone, histories
<1>4. ASSUME NEW w \in Writers, Save(w) PROVE Locking'
    BY <1>4 DEF Save, histories
<1>5. ASSUME NEW r \in Requests, PersistOK(r) PROVE Locking'
    BY <1>5 DEF PersistOK, histories
<1>6. ASSUME NEW r \in Requests, PersistFails(r) PROVE Locking'
    BY <1>6 DEF PersistFails, Unwritten, histories
<1>7. ASSUME NEW e \in Editors, Apply(e) PROVE Locking'
    BY <1>7 DEF Apply, histories
<1>8. ASSUME NEW p \in Paths, Configure(p) PROVE Locking'
    BY <1>8 DEF Configure, histories
<1>9. ASSUME Load PROVE Locking'
    BY <1>9 DEF Load, Loaded, histories
<1>10. ASSUME Migrate PROVE Locking'
    BY <1>10 DEF Migrate, histories
<1>11. ASSUME Migrated PROVE Locking'
    BY <1>11 DEF Migrated, Loaded, histories
<1>12. ASSUME Replace PROVE Locking'
    BY <1>12 DEF Replace, histories
<1>13. ASSUME LoadFails PROVE Locking'
    BY <1>13 DEF LoadFails, histories
<1>14. ASSUME Crash PROVE Locking'
    BY <1>14 DEF Crash, histories
<1>15. ASSUME UNCHANGED vars PROVE Locking'
    BY <1>15 DEF vars, histories
<1>16. QED
    BY <1>1, <1>2, <1>3, <1>4, <1>5, <1>6, <1>7, <1>8, <1>9, <1>10, <1>11, <1>12,
       <1>13, <1>14, <1>15 DEF Next, Handle, Reload

\* What is migrated stays whole.
LEMMA SourcedStep == TypeOK /\ Locking /\ Whole /\ Sourced /\ [Next]_vars => Sourced'
<1> SUFFICES ASSUME TypeOK, Locking, Whole, Sourced, [Next]_vars PROVE Sourced'
    OBVIOUS
<1>1. CASE files' = files /\ inherited' = inherited
    BY <1>1 DEF Sourced
<1>2. ASSUME NEW r \in Requests, PersistOK(r) PROVE Sourced'
  <2>1. /\ files' = [files EXCEPT ![target[r]] = copy[r]] /\ inherited' = inherited
        /\ copy[r] \in Contents /\ target[r] \in Paths
      BY <1>2, FieldType DEF PersistOK, TypeOK
  <2>2. copy[r] # Torn /\ copy[r] # NoFile
      BY <2>1, PersistenceAssumption
  <2>3. QED
      BY <2>1, <2>2 DEF Sourced, TypeOK
<1>3. ASSUME Migrate PROVE Sourced'
  <2>1. /\ files' = [files EXCEPT ![stateFile] = Torn]
        /\ inherited' = [inherited EXCEPT ![stateFile] = Candidate(stateFile)]
        /\ Beside[stateFile] = NoPath => Legacy[stateFile] # NoFile
      BY <1>3 DEF Migrate, MigrationDue, Candidate
  <2>2. NoFile # Torn
      BY PersistenceAssumption
  <2>3. QED
      BY <2>1, <2>2 DEF Sourced, TypeOK
<1>4. ASSUME Migrated PROVE Sourced'
  <2>1. /\ files' = [files EXCEPT ![stateFile] = Candidate(stateFile)]
        /\ inherited' = inherited /\ Candidate(stateFile) # NoFile
      BY <1>4 DEF Migrated, Loaded, Whole
  <2>2. Candidate(stateFile) # Torn
      BY <2>1, CandidateType, PersistenceAssumption DEF TypeOK
  <2>3. QED
      BY <2>1, <2>2 DEF Sourced, TypeOK
<1>5. QED
    BY <1>1, <1>2, <1>3, <1>4 DEF Next, Handle, Reload, UpdateMemory, SaveRuntimeState,
       EditClone, Save, PersistFails, Unwritten, Apply, Configure, Load, Loaded, Replace,
       LoadFails, Crash, vars, histories

\* The file in use stays whole.
LEMMA WholeStep == TypeOK /\ Locking /\ Whole /\ Sourced /\ [Next]_vars => Whole'
<1> SUFFICES ASSUME TypeOK /\ Locking /\ Whole /\ Sourced, [Next]_vars PROVE Whole'
    OBVIOUS
<1> USE EmptyType, ReadType, ReadWhole, FieldType, PersistenceAssumption DEF TypeOK,
        Locking, Locked, Contents, Files, Handlers, Fields, Requests, Older, Whole,
        MigrationDue, Candidate, Dropped
<1>1. ASSUME NEW w \in Writers, UpdateMemory(w) PROVE Whole'
    BY <1>1 DEF UpdateMemory, histories
<1>2. ASSUME NEW w \in Writers, SaveRuntimeState(w) PROVE Whole'
    BY <1>2 DEF SaveRuntimeState, histories
<1>3. ASSUME NEW e \in Editors, EditClone(e) PROVE Whole'
    BY <1>3 DEF EditClone, histories
<1>4. ASSUME NEW w \in Writers, Save(w) PROVE Whole'
    BY <1>4 DEF Save, histories
<1>5. ASSUME NEW r \in Requests, PersistOK(r) PROVE Whole'
    BY <1>5 DEF PersistOK, histories
<1>6. ASSUME NEW r \in Requests, PersistFails(r) PROVE Whole'
    BY <1>6 DEF PersistFails, Unwritten, histories
<1>7. ASSUME NEW e \in Editors, Apply(e) PROVE Whole'
    BY <1>7 DEF Apply, histories
<1>8. ASSUME NEW p \in Paths, Configure(p) PROVE Whole'
    BY <1>8 DEF Configure, histories
<1>9. ASSUME Load PROVE Whole'
    BY <1>9 DEF Load, Loaded, histories
<1>10. ASSUME Migrate PROVE Whole'
    BY <1>10 DEF Migrate, histories
<1>11. ASSUME Migrated PROVE Whole'
  <2>1. /\ Candidate(stateFile) \in Contents /\ base # stateFile
        /\ Read(Candidate(stateFile)) = Candidate(stateFile)
      BY <1>11, CandidateType DEF Migrated
  <2>2. /\ files' = [files EXCEPT ![stateFile] = Candidate(stateFile)]
        /\ stateFile' = stateFile /\ base' = base /\ inherited' = inherited
        /\ pc'[Loader] = "loaded" /\ copy'[Loader] = Candidate(stateFile)
      BY <1>11, <2>1 DEF Migrated, Loaded
  <2>3. files'[stateFile] \in Contents /\ \A p \in Paths \ {stateFile} : files'[p] = files[p]
      BY <2>1, <2>2
  <2>4. QED
      BY <2>1, <2>2, <2>3
<1>12. ASSUME Replace PROVE Whole'
    BY <1>12 DEF Replace, histories
<1>13. ASSUME LoadFails PROVE Whole'
    BY <1>13 DEF LoadFails, histories
<1>14. ASSUME Crash PROVE Whole'
    BY <1>14 DEF Crash, histories
<1>15. ASSUME UNCHANGED vars PROVE Whole'
    BY <1>15 DEF vars, histories
<1>16. QED
    BY <1>1, <1>2, <1>3, <1>4, <1>5, <1>6, <1>7, <1>8, <1>9, <1>10, <1>11, <1>12,
       <1>13, <1>14, <1>15 DEF Next, Handle, Reload

\* A clone stays no older than the file it goes to.
LEMMA FreshStep ==
  TypeOK /\ Locking /\ Whole /\ Fresh /\ Following /\ [Next]_vars
    => Fresh'
<1> SUFFICES ASSUME TypeOK /\ Locking /\ Whole /\ Fresh /\ Following,
                    [Next]_vars
             PROVE  Fresh'
    OBVIOUS
<1> USE EmptyType, ReadType, ReadWhole, FieldType, PersistenceAssumption DEF TypeOK,
        Locking, Locked, Contents, Files, Handlers, Fields, Requests, Older, Fresh,
        Following, Whole, Dropped
<1>1. ASSUME NEW w \in Writers, UpdateMemory(w) PROVE Fresh'
    BY <1>1 DEF UpdateMemory, histories
<1>2. ASSUME NEW w \in Writers, SaveRuntimeState(w) PROVE Fresh'
    BY <1>2 DEF SaveRuntimeState, histories
<1>3. ASSUME NEW e \in Editors, EditClone(e) PROVE Fresh'
  <2>1. /\ memory' = memory /\ files' = files /\ base' = base /\ saving = Nobody
        /\ \A r \in Requests \ {e} : /\ pc'[r] = pc[r] /\ target'[r] = target[r]
                                     /\ copy'[r] = copy[r]
      BY <1>3 DEF EditClone
  <2>2. /\ pc'[e] = "persist" /\ e \notin Writers
        /\ \A f \in Fields : memory[f] <= copy'[e][f]
        /\ \A f \in Plain : copy'[e][f] = memory[f]
      BY <1>3 DEF EditClone
  <2>3. ASSUME base # NoPath, NEW f \in Fields PROVE Read(files[base])[f] <= memory[f]
      BY <2>1, <2>3
  <2>4. ASSUME base # NoPath, NEW f \in Fields PROVE Read(files[base])[f] <= copy'[e][f]
    <3>1. base \in Paths /\ Read(files[base]) \in Contents
        BY <2>4
    <3>2. Read(files[base])[f] \in Nat /\ memory[f] \in Nat
        BY <2>4, <3>1
    <3>3. copy'[e] = [memory EXCEPT ![Field[e]] = memory[Field[e]] + 1]
        BY <1>3 DEF EditClone
    <3>4. copy'[e][f] \in Nat
        BY <2>4, <3>2, <3>3
    <3>5. QED
        BY <2>2, <2>3, <2>4, <3>2, <3>4
  <2>5. \A f \in Fields : memory[f] \in Nat
      OBVIOUS
  <2>6. ASSUME NEW r \in Requests \ {e} PROVE pc'[r] \notin {"persist", "apply"}
      BY <2>1
  <2>7. target'[e] = base => base # NoPath
      BY <1>3 DEF EditClone
  <2>8. QED
      BY <2>1, <2>2, <2>4, <2>5, <2>6, <2>7
<1>4. ASSUME NEW w \in Writers, Save(w) PROVE Fresh'
    BY <1>4 DEF Save, histories
<1>5. ASSUME NEW r \in Requests, PersistOK(r) PROVE Fresh'
    BY <1>5 DEF PersistOK, histories
<1>6. ASSUME NEW r \in Requests, PersistFails(r) PROVE Fresh'
    BY <1>6 DEF PersistFails, Unwritten, histories
<1>7. ASSUME NEW e \in Editors, Apply(e) PROVE Fresh'
    BY <1>7 DEF Apply, histories
<1>8. ASSUME NEW p \in Paths, Configure(p) PROVE Fresh'
    BY <1>8 DEF Configure, histories
<1>9. ASSUME Load PROVE Fresh'
    BY <1>9 DEF Load, Loaded, histories
<1>10. ASSUME Migrate PROVE Fresh'
    BY <1>10 DEF Migrate, histories
<1>11. ASSUME Migrated PROVE Fresh'
    BY <1>11 DEF Migrated, Loaded, histories
<1>12. ASSUME Replace PROVE Fresh'
    BY <1>12 DEF Replace, histories
<1>13. ASSUME LoadFails PROVE Fresh'
    BY <1>13 DEF LoadFails, histories
<1>14. ASSUME Crash PROVE Fresh'
    BY <1>14 DEF Crash, histories
<1>15. ASSUME UNCHANGED vars PROVE Fresh'
    BY <1>15 DEF vars, histories
<1>16. QED
    BY <1>1, <1>2, <1>3, <1>4, <1>5, <1>6, <1>7, <1>8, <1>9, <1>10, <1>11, <1>12,
       <1>13, <1>14, <1>15 DEF Next, Handle, Reload

\* No step takes a file back that is not taken over.
LEMMA GoesBackStep ==
  TypeOK /\ Locking /\ Whole /\ Sourced /\ Fresh /\ [Next]_vars => Forward
<1> SUFFICES ASSUME TypeOK, Locking, Whole, Sourced, Fresh, [Next]_vars PROVE Forward
    OBVIOUS
<1>a. \A p \in Paths : Read(files[p]) \in Contents
    BY ReadType DEF TypeOK
<1>b. \A s \in Contents : Older(Fields, s, s) /\ Older(Fields, Empty, s)
    BY DEF Older, Empty, Contents
<1>1. CASE files' = files
    BY <1>1, <1>a, <1>b DEF Forward
<1>2. ASSUME NEW r \in Requests, PersistOK(r) PROVE Forward
  <2>1. /\ files' = [files EXCEPT ![target[r]] = copy[r]]
        /\ copy[r] \in Contents /\ target[r] \in Paths
        /\ (target[r] = base \/ target[r] \in takenOver') /\ pc[r] = "persist"
      BY <1>2, FieldType DEF PersistOK, TypeOK
  <2>2. ASSUME NEW p \in Paths \ takenOver' PROVE Older(Fields, Read(files[p]), Read(files'[p]))
    <3>1. CASE p = target[r]
      <4>1. Older(Fields, Read(files[p]), copy[r])
          BY <1>2, <2>1, <2>2, <3>1 DEF Fresh, PersistOK
      <4>2. Read(files'[p]) = copy[r]
          BY <2>1, <3>1, ReadWhole DEF TypeOK
      <4>3. QED
          BY <4>1, <4>2
    <3>2. CASE p # target[r]
        BY <1>a, <1>b, <2>1, <3>2 DEF TypeOK
    <3>3. QED
        BY <3>1, <3>2
  <2>3. QED
      BY <2>2 DEF Forward
<1>3. ASSUME Migrate PROVE Forward
  <2>1. files' = [files EXCEPT ![stateFile] = Torn] /\ files[stateFile] = NoFile
      BY <1>3 DEF Migrate, MigrationDue
  <2>2. \A p \in Paths : Read(files'[p]) = Read(files[p])
      BY <2>1 DEF Read, TypeOK
  <2>3. QED
      BY <1>a, <1>b, <2>2 DEF Forward
<1>4. ASSUME Migrated PROVE Forward
  <2>1. /\ files' = [files EXCEPT ![stateFile] = Candidate(stateFile)]
        /\ files[stateFile] = Torn /\ Candidate(stateFile) # NoFile
      BY <1>4 DEF Migrated, Whole
  <2>2. Candidate(stateFile) \in Contents /\ Read(Candidate(stateFile)) = Candidate(stateFile)
      BY <2>1, CandidateType DEF TypeOK
  <2>3. Read(files[stateFile]) = Empty /\ Read(files'[stateFile]) = Candidate(stateFile)
      BY <2>1, <2>2 DEF Read, TypeOK
  <2>4. \A p \in Paths \ {stateFile} : files'[p] = files[p]
      BY <2>1 DEF TypeOK
  <2>5. QED
      BY <1>a, <1>b, <2>2, <2>3, <2>4 DEF Forward
<1>5. QED
    BY <1>1, <1>2, <1>3, <1>4 DEF Next, Handle, Reload, UpdateMemory, SaveRuntimeState,
       EditClone, Save, PersistFails, Unwritten, Apply, Configure, Load, Replace,
       LoadFails, Crash, vars

\* Memory stays no older than its file.
LEMMA FollowingStep ==
  TypeOK /\ Locking /\ Whole /\ Fresh /\ Following /\ [Next]_vars
    => Following'
<1> SUFFICES ASSUME TypeOK /\ Locking /\ Whole /\ Fresh /\ Following,
                    [Next]_vars
             PROVE  Following'
    OBVIOUS
<1> USE EmptyType, ReadType, ReadWhole, FieldType, PersistenceAssumption DEF TypeOK,
        Locking, Locked, Contents, Files, Handlers, Fields, Requests, Older, Fresh,
        Following, Whole, MigrationDue
<1>1. ASSUME NEW w \in Writers, UpdateMemory(w) PROVE Following'
  <2>1. /\ base' = base /\ files' = files /\ \A e \in Editors : pc'[e] = pc[e]
        /\ \A f \in Fields : memory[f] <= memory'[f] /\ memory'[f] \in Nat
      BY <1>1 DEF UpdateMemory
  <2>2. ASSUME base # NoPath, NEW f \in Fields, Read(files[base])[f] <= memory[f]
        PROVE  Read(files[base])[f] <= memory'[f]
    <3>1. base \in Paths /\ Read(files[base]) \in Contents
        BY <2>2
    <3>2. Read(files[base])[f] \in Nat /\ memory[f] \in Nat
        BY <2>2, <3>1
    <3>3. QED
        BY <2>1, <2>2, <3>2
  <2>3. QED
      BY <2>1, <2>2
<1>2. ASSUME NEW w \in Writers, SaveRuntimeState(w) PROVE Following'
    BY <1>2 DEF SaveRuntimeState, histories
<1>3. ASSUME NEW e \in Editors, EditClone(e) PROVE Following'
    BY <1>3 DEF EditClone, histories
<1>4. ASSUME NEW w \in Writers, Save(w) PROVE Following'
    BY <1>4 DEF Save, histories
<1>5. ASSUME NEW r \in Requests, PersistOK(r) PROVE Following'
  <2>1. /\ memory' = memory /\ base' = base /\ pc[r] = "persist"
        /\ \A e \in Editors \ {r} : pc'[e] = pc[e]
        /\ r \in Editors => pc'[r] = "apply"
        /\ r \notin Editors => pc'[r] = "acked"
      BY <1>5 DEF PersistOK
  <2>2. CASE base = NoPath
      BY <2>1, <2>2 DEF Following
  <2>3. CASE base # NoPath /\ target[r] # base
    <3>1. files'[base] = files[base]
        BY <1>5, <2>3 DEF PersistOK
    <3>2. QED
        BY <2>1, <2>3, <3>1 DEF Following
  <2>4. CASE base # NoPath /\ target[r] = base
    <3>1. files'[base] = copy[r] /\ copy[r] \in Contents
        BY <1>5, <2>4 DEF PersistOK
    <3>2. Read(files'[base]) = copy[r]
        BY <3>1
    <3>3. QED
        BY <2>1, <2>4, <3>1, <3>2 DEF Fresh, Following
  <2>5. QED
      BY <2>2, <2>3, <2>4
<1>6. ASSUME NEW r \in Requests, PersistFails(r) PROVE Following'
    BY <1>6 DEF PersistFails, Unwritten, histories
<1>7. ASSUME NEW e \in Editors, Apply(e) PROVE Following'
  <2>1. pc[e] = "apply" /\ e \in Requests /\ files' = files
      BY <1>7 DEF Apply
  <2>2. base' # NoPath => base' = base /\ target[e] = base /\ base \in Paths
      BY <1>7 DEF Apply
  <2>3. base' # NoPath => files[base] = copy[e] /\ Read(files[base]) = copy[e]
    <3>1. base' # NoPath => files[base] = copy[e] /\ copy[e] \in Contents
        BY <2>1, <2>2 DEF Fresh
    <3>2. QED
        BY <3>1
  <2>4. /\ \A f \in Priorities : memory'[f] = copy[e][f]
        /\ \A f \in Plain : memory'[f] = memory[f]
      BY <1>7 DEF Apply
  <2>5. \A f \in Fields : copy[e][f] \in Nat /\ memory[f] \in Nat
      BY <2>1

  <2>6. QED
      BY <2>1, <2>2, <2>3, <2>4, <2>5 DEF Following
<1>8. ASSUME NEW p \in Paths, Configure(p) PROVE Following'
    BY <1>8 DEF Configure, histories
<1>9. ASSUME Load PROVE Following'
    BY <1>9 DEF Load, Loaded, histories
<1>10. ASSUME Migrate PROVE Following'
    BY <1>10 DEF Migrate, histories
<1>11. ASSUME Migrated PROVE Following'
    BY <1>11 DEF Migrated, Loaded, histories
<1>12. ASSUME Replace PROVE Following'
    BY <1>12 DEF Replace, histories
<1>13. ASSUME LoadFails PROVE Following'
    BY <1>13 DEF LoadFails, histories
<1>14. ASSUME Crash PROVE Following'
    BY <1>14 DEF Crash, histories
<1>15. ASSUME UNCHANGED vars PROVE Following'
    BY <1>15 DEF vars, histories
<1>16. QED
    BY <1>1, <1>2, <1>3, <1>4, <1>5, <1>6, <1>7, <1>8, <1>9, <1>10, <1>11, <1>12,
       <1>13, <1>14, <1>15 DEF Next, Handle, Reload

\* Priorities stay no newer than their file.
LEMMA PrioritiesStep ==
  TypeOK /\ Locking /\ Whole /\ Fresh /\ PrioritiesFileFirst /\ [Next]_vars
    => PrioritiesFileFirst'
<1> SUFFICES ASSUME TypeOK /\ Locking /\ Whole /\ Fresh /\ PrioritiesFileFirst,
                    [Next]_vars
             PROVE  PrioritiesFileFirst'
    OBVIOUS
<1> USE EmptyType, ReadType, ReadWhole, FieldType, PersistenceAssumption DEF TypeOK,
        Locking, Locked, Contents, Files, Handlers, Fields, Requests, Older, Fresh,
        PrioritiesFileFirst, Whole, MigrationDue
<1>1. ASSUME NEW w \in Writers, UpdateMemory(w) PROVE PrioritiesFileFirst'
    BY <1>1 DEF UpdateMemory, histories
<1>2. ASSUME NEW w \in Writers, SaveRuntimeState(w) PROVE PrioritiesFileFirst'
    BY <1>2 DEF SaveRuntimeState, histories
<1>3. ASSUME NEW e \in Editors, EditClone(e) PROVE PrioritiesFileFirst'
    BY <1>3 DEF EditClone, histories
<1>4. ASSUME NEW w \in Writers, Save(w) PROVE PrioritiesFileFirst'
    BY <1>4 DEF Save, histories
<1>5. ASSUME NEW r \in Requests, PersistOK(r) PROVE PrioritiesFileFirst'
  <2>1. /\ memory' = memory /\ base' = base /\ pc[r] = "persist"
        /\ \A e \in Editors \ {r} : pc'[e] = pc[e]
        /\ r \in Editors => pc'[r] = "apply"
        /\ r \notin Editors => pc'[r] = "acked"
      BY <1>5 DEF PersistOK
  <2>2. CASE base = NoPath
      BY <2>1, <2>2 DEF PrioritiesFileFirst
  <2>3. CASE base # NoPath /\ target[r] # base
    <3>1. files'[base] = files[base]
        BY <1>5, <2>3 DEF PersistOK
    <3>2. QED
        BY <2>1, <2>3, <3>1 DEF PrioritiesFileFirst
  <2>4. CASE base # NoPath /\ target[r] = base
    <3>1. files'[base] = copy[r] /\ copy[r] \in Contents
        BY <1>5, <2>4 DEF PersistOK
    <3>2. Read(files'[base]) = copy[r]
        BY <3>1
    <3>3. QED
        BY <2>1, <2>4, <3>1, <3>2 DEF Fresh, PrioritiesFileFirst
  <2>5. QED
      BY <2>2, <2>3, <2>4
<1>6. ASSUME NEW r \in Requests, PersistFails(r) PROVE PrioritiesFileFirst'
    BY <1>6 DEF PersistFails, Unwritten, histories
<1>7. ASSUME NEW e \in Editors, Apply(e) PROVE PrioritiesFileFirst'
  <2>1. pc[e] = "apply" /\ e \in Requests /\ files' = files
      BY <1>7 DEF Apply
  <2>2. base' # NoPath => base' = base /\ target[e] = base /\ base \in Paths
      BY <1>7 DEF Apply
  <2>3. base' # NoPath => files[base] = copy[e] /\ Read(files[base]) = copy[e]
    <3>1. base' # NoPath => files[base] = copy[e] /\ copy[e] \in Contents
        BY <2>1, <2>2 DEF Fresh
    <3>2. QED
        BY <3>1
  <2>4. /\ \A f \in Priorities : memory'[f] = copy[e][f]
        /\ \A f \in Plain : memory'[f] = memory[f]
      BY <1>7 DEF Apply
  <2>5. \A f \in Fields : copy[e][f] \in Nat /\ memory[f] \in Nat
      BY <2>1

  <2>6. QED
      BY <2>1, <2>2, <2>3, <2>4, <2>5 DEF PrioritiesFileFirst
<1>8. ASSUME NEW p \in Paths, Configure(p) PROVE PrioritiesFileFirst'
    BY <1>8 DEF Configure, histories
<1>9. ASSUME Load PROVE PrioritiesFileFirst'
    BY <1>9 DEF Load, Loaded, histories
<1>10. ASSUME Migrate PROVE PrioritiesFileFirst'
    BY <1>10 DEF Migrate, histories
<1>11. ASSUME Migrated PROVE PrioritiesFileFirst'
    BY <1>11 DEF Migrated, Loaded, histories
<1>12. ASSUME Replace PROVE PrioritiesFileFirst'
    BY <1>12 DEF Replace, histories
<1>13. ASSUME LoadFails PROVE PrioritiesFileFirst'
    BY <1>13 DEF LoadFails, histories
<1>14. ASSUME Crash PROVE PrioritiesFileFirst'
    BY <1>14 DEF Crash, histories
<1>15. ASSUME UNCHANGED vars PROVE PrioritiesFileFirst'
    BY <1>15 DEF vars, histories
<1>16. QED
    BY <1>1, <1>2, <1>3, <1>4, <1>5, <1>6, <1>7, <1>8, <1>9, <1>10, <1>11, <1>12,
       <1>13, <1>14, <1>15 DEF Next, Handle, Reload

\* An update stays underway until it is written.
LEMMA UnderwayStep == TypeOK /\ Locking /\ Fresh /\ Underway /\ [Next]_vars => Underway'
<1> SUFFICES ASSUME TypeOK /\ Locking /\ Fresh /\ Underway, [Next]_vars PROVE Underway'
    OBVIOUS
<1> USE EmptyType, ReadType, ReadWhole, FieldType, PersistenceAssumption DEF TypeOK,
        Locking, Locked, Contents, Files, Handlers, Fields, Requests, Older, Fresh,
        Underway, Dropped, Answers
<1>1. ASSUME NEW w \in Writers, UpdateMemory(w) PROVE Underway'
    BY <1>1 DEF UpdateMemory, histories
<1>2. ASSUME NEW w \in Writers, SaveRuntimeState(w) PROVE Underway'
    BY <1>2 DEF SaveRuntimeState, histories
<1>3. ASSUME NEW e \in Editors, EditClone(e) PROVE Underway'
    BY <1>3 DEF EditClone, histories
<1>4. ASSUME NEW w \in Writers, Save(w) PROVE Underway'
    BY <1>4 DEF Save, histories
<1>5. ASSUME NEW r \in Requests, PersistOK(r) PROVE Underway'
    BY <1>5 DEF PersistOK, histories
<1>6. ASSUME NEW r \in Requests, PersistFails(r) PROVE Underway'
    BY <1>6 DEF PersistFails, Unwritten, histories
<1>7. ASSUME NEW e \in Editors, Apply(e) PROVE Underway'
    BY <1>7 DEF Apply, histories
<1>8. ASSUME NEW p \in Paths, Configure(p) PROVE Underway'
    BY <1>8 DEF Configure, histories
<1>9. ASSUME Load PROVE Underway'
    BY <1>9 DEF Load, Loaded, histories
<1>10. ASSUME Migrate PROVE Underway'
    BY <1>10 DEF Migrate, histories
<1>11. ASSUME Migrated PROVE Underway'
    BY <1>11 DEF Migrated, Loaded, histories
<1>12. ASSUME Replace PROVE Underway'
    BY <1>12 DEF Replace, histories
<1>13. ASSUME LoadFails PROVE Underway'
    BY <1>13 DEF LoadFails, histories
<1>14. ASSUME Crash PROVE Underway'
    BY <1>14 DEF Crash, histories
<1>15. ASSUME UNCHANGED vars PROVE Underway'
    BY <1>15 DEF vars, histories
<1>16. QED
    BY <1>1, <1>2, <1>3, <1>4, <1>5, <1>6, <1>7, <1>8, <1>9, <1>10, <1>11, <1>12,
       <1>13, <1>14, <1>15 DEF Next, Handle, Reload

\* A written update stays in its file.
LEMMA DurableStep ==
  TypeOK /\ Locking /\ Whole /\ Sourced /\ Fresh /\ Underway /\ Durable /\ Forward
         /\ [Next]_vars
    => Durable'
<1> SUFFICES ASSUME TypeOK /\ Locking /\ Whole /\ Sourced /\ Fresh,
                    Underway /\ Durable /\ Forward, [Next]_vars
             PROVE  Durable'
    OBVIOUS
<1> USE EmptyType, ReadType, ReadWhole, FieldType, PersistenceAssumption DEF TypeOK,
        Locking, Locked, Contents, Files, Handlers, Fields, Requests, Older, Fresh,
        Underway, Durable, Dropped, Answers, Forward
<1>1. ASSUME NEW w \in Writers, UpdateMemory(w) PROVE Durable'
    BY <1>1 DEF UpdateMemory, histories
<1>2. ASSUME NEW w \in Writers, SaveRuntimeState(w) PROVE Durable'
    BY <1>2 DEF SaveRuntimeState, histories
<1>3. ASSUME NEW e \in Editors, EditClone(e) PROVE Durable'
    BY <1>3 DEF EditClone, histories
<1>4. ASSUME NEW w \in Writers, Save(w) PROVE Durable'
    BY <1>4 DEF Save, histories
<1>5. ASSUME NEW r \in Requests, PersistOK(r) PROVE Durable'
  <2> SUFFICES ASSUME NEW q \in Requests \ replaced, pc'[q] \in {"apply", "acked"},
                      target[q] \notin takenOver'
               PROVE  version[q] <= Read(files'[target[q]])[Field[q]]
      BY <1>5 DEF PersistOK, Durable
  <2>1. CASE q = r
    <3>1. files'[target[r]] = copy[r] /\ copy[r] \in Contents
        BY <1>5 DEF PersistOK
    <3>2. Read(files'[target[r]]) = copy[r]
        BY <3>1
    <3>3. QED
        BY <1>5, <2>1, <3>2 DEF PersistOK, Underway
  <2>2. CASE q # r
    <3>1. pc[q] = pc'[q] /\ target[q] \notin takenOver
        BY <1>5, <2>2 DEF PersistOK
    <3>2. version[q] <= Read(files[target[q]])[Field[q]]
        BY <3>1 DEF Durable
    <3>3. Read(files[target[q]])[Field[q]] <= Read(files'[target[q]])[Field[q]]
        BY DEF Forward
    <3>4. /\ Read(files[target[q]]) \in Contents /\ files'[target[q]] \in Files
          /\ Read(files'[target[q]]) \in Contents
        BY <1>5 DEF PersistOK
    <3>5. /\ Field[q] \in Fields /\ version[q] \in Nat
          /\ Read(files[target[q]])[Field[q]] \in Nat
          /\ Read(files'[target[q]])[Field[q]] \in Nat
        BY <3>4
    <3>6. QED
        BY <3>2, <3>3, <3>5
  <2>3. QED
      BY <2>1, <2>2
<1>6. ASSUME NEW r \in Requests, PersistFails(r) PROVE Durable'
    BY <1>6 DEF PersistFails, Unwritten, histories
<1>7. ASSUME NEW e \in Editors, Apply(e) PROVE Durable'
    BY <1>7 DEF Apply, histories
<1>8. ASSUME NEW p \in Paths, Configure(p) PROVE Durable'
    BY <1>8 DEF Configure, histories
<1>9. ASSUME Load PROVE Durable'
    BY <1>9 DEF Load, Loaded, histories
<1>10. ASSUME Migrate PROVE Durable'
    BY <1>10 DEF Migrate, histories
<1>11. ASSUME Migrated PROVE Durable'
  <2>1. /\ takenOver' = takenOver /\ replaced' = replaced /\ version' = version
        /\ target' = target /\ \A r \in Requests : pc'[r] = pc[r]
      BY <1>11 DEF Migrated, Loaded
  <2>2. ASSUME NEW r \in Requests \ replaced, pc[r] \in {"apply", "acked"},
               target[r] \notin takenOver
        PROVE  version[r] <= Read(files'[target[r]])[Field[r]]
    <3>1. version[r] <= Read(files[target[r]])[Field[r]]
        BY <2>2
    <3>2. Read(files[target[r]])[Field[r]] <= Read(files'[target[r]])[Field[r]]
        BY <2>1, <2>2
    <3>3. files'[target[r]] \in Files
      <4>1. Candidate(stateFile) \in Files
          BY CandidateType
      <4>2. QED
          BY <1>11, <4>1 DEF Migrated
    <3>4. /\ version[r] \in Nat /\ Read(files[target[r]])[Field[r]] \in Nat
          /\ Read(files'[target[r]])[Field[r]] \in Nat
      <4>1. Read(files[target[r]]) \in Contents /\ Read(files'[target[r]]) \in Contents
          BY <2>2, <3>3
      <4>2. Field[r] \in Fields /\ version[r] \in Nat
          BY <2>2
      <4>3. QED
          BY <4>1, <4>2
    <3>5. QED
        BY <3>1, <3>2, <3>4
  <2>3. QED
      BY <2>1, <2>2
<1>12. ASSUME Replace PROVE Durable'
    BY <1>12 DEF Replace, histories
<1>13. ASSUME LoadFails PROVE Durable'
    BY <1>13 DEF LoadFails, histories
<1>14. ASSUME Crash PROVE Durable'
    BY <1>14 DEF Crash, histories
<1>15. ASSUME UNCHANGED vars PROVE Durable'
    BY <1>15 DEF vars, histories
<1>16. QED
    BY <1>1, <1>2, <1>3, <1>4, <1>5, <1>6, <1>7, <1>8, <1>9, <1>10, <1>11, <1>12,
       <1>13, <1>14, <1>15 DEF Next, Handle, Reload

\* A written update stays in the memory of its file.
LEMMA InMemoryStep ==
  TypeOK /\ Locking /\ Whole /\ Fresh /\ Following /\ Underway /\ Durable /\ InMemory /\ [Next]_vars
    => InMemory'
<1> SUFFICES ASSUME TypeOK /\ Locking /\ Whole /\ Fresh /\ Following /\ Underway /\ Durable /\ InMemory,
                    [Next]_vars
             PROVE  InMemory'
    OBVIOUS
<1> USE EmptyType, ReadType, ReadWhole, FieldType, PersistenceAssumption DEF TypeOK,
        Locking, Locked, Contents, Files, Handlers, Fields, Requests, Older, Fresh,
        Underway, Durable, InMemory, Following, Whole, Dropped, Answers
<1>1. ASSUME NEW w \in Writers, UpdateMemory(w) PROVE InMemory'
    BY <1>1 DEF UpdateMemory, histories
<1>2. ASSUME NEW w \in Writers, SaveRuntimeState(w) PROVE InMemory'
    BY <1>2 DEF SaveRuntimeState, histories
<1>3. ASSUME NEW e \in Editors, EditClone(e) PROVE InMemory'
    BY <1>3 DEF EditClone, histories
<1>4. ASSUME NEW w \in Writers, Save(w) PROVE InMemory'
    BY <1>4 DEF Save, histories
<1>5. ASSUME NEW r \in Requests, PersistOK(r) PROVE InMemory'
    BY <1>5 DEF PersistOK, histories
<1>6. ASSUME NEW r \in Requests, PersistFails(r) PROVE InMemory'
    BY <1>6 DEF PersistFails, Unwritten, histories
<1>7. ASSUME NEW e \in Editors, Apply(e) PROVE InMemory'
    BY <1>7 DEF Apply, histories
<1>8. ASSUME NEW p \in Paths, Configure(p) PROVE InMemory'
    BY <1>8 DEF Configure, histories
<1>9. ASSUME Load PROVE InMemory'
    BY <1>9 DEF Load, Loaded, histories
<1>10. ASSUME Migrate PROVE InMemory'
    BY <1>10 DEF Migrate, histories
<1>11. ASSUME Migrated PROVE InMemory'
    BY <1>11 DEF Migrated, Loaded, histories
<1>12. ASSUME Replace PROVE InMemory'
    BY <1>12 DEF Replace, histories
<1>13. ASSUME LoadFails PROVE InMemory'
    BY <1>13 DEF LoadFails, histories
<1>14. ASSUME Crash PROVE InMemory'
    BY <1>14 DEF Crash, histories
<1>15. ASSUME UNCHANGED vars PROVE InMemory'
    BY <1>15 DEF vars, histories
<1>16. QED
    BY <1>1, <1>2, <1>3, <1>4, <1>5, <1>6, <1>7, <1>8, <1>9, <1>10, <1>11, <1>12,
       <1>13, <1>14, <1>15 DEF Next, Handle, Reload

\* A state that is nowhere older than one that has it all has it all.
LEMMA InheritsMore ==
  ASSUME NEW a \in Sources, NEW b \in Sources, NEW s \in Contents, NEW t \in Contents,
         Inherits(s, a, b), Older(Fields, s, t)
  PROVE  Inherits(t, a, b)
<1>1. Read(a) \in Contents /\ Read(b) \in Contents
    BY ReadType DEF Sources, Files
<1>2. QED
    BY <1>1 DEF Inherits, Older, Contents

\* Where there was nothing to migrate any state has it all.
LEMMA InheritsNothing == \A s \in Contents : Inherits(s, NoFile, NoFile)
    BY DEF Inherits, Older, Read, Empty, Contents

\* What was migrated stays in the file it was copied to, and in memory.
LEMMA MigratesStep ==
  TypeOK /\ Locking /\ Whole /\ Sourced /\ Fresh /\ Migrates /\ [Next]_vars => Migrates'
<1> SUFFICES ASSUME TypeOK, Locking, Whole, Sourced, Fresh, Migrates, [Next]_vars
             PROVE  Migrates'
    OBVIOUS
<1>a. /\ memory \in Contents /\ memory' \in Contents
      /\ \A p \in Paths : /\ Read(files[p]) \in Contents /\ Read(files'[p]) \in Contents
                          /\ Legacy[p] \in Sources /\ inherited[p] \in Sources
      /\ base \in Paths \cup {NoPath} /\ stateFile \in Paths
  <2>1. TypeOK'
      BY TypeStep
  <2>2. QED
      BY <2>1, ReadType, PersistenceAssumption DEF TypeOK, Sources
<1> USE FieldType, PersistenceAssumption DEF Migrates
<1>1. ASSUME NEW w \in Writers, UpdateMemory(w) PROVE Migrates'
  <2>1. /\ files' = files /\ takenOver' = takenOver /\ base' = base
        /\ inherited' = inherited
      BY <1>1 DEF UpdateMemory
  <2>2. Older(Fields, memory, memory')
      BY <1>1 DEF UpdateMemory, Older, Contents, TypeOK
  <2>3. QED
      BY <1>a, <2>1, <2>2, InheritsMore
<1>2. ASSUME NEW w \in Writers, SaveRuntimeState(w) PROVE Migrates'
    BY <1>2 DEF SaveRuntimeState, histories
<1>3. ASSUME NEW e \in Editors, EditClone(e) PROVE Migrates'
    BY <1>3 DEF EditClone, histories
<1>4. ASSUME NEW w \in Writers, Save(w) PROVE Migrates'
    BY <1>4 DEF Save, histories
<1>5. ASSUME NEW r \in Requests, PersistOK(r) PROVE Migrates'
  <2>1. /\ memory' = memory /\ base' = base /\ inherited' = inherited
        /\ takenOver \subseteq takenOver'
        /\ files' = [files EXCEPT ![target[r]] = copy[r]]
        /\ target[r] = base \/ target[r] \in takenOver'
      BY <1>5 DEF PersistOK
  <2>2. ASSUME NEW p \in Paths \ takenOver', files'[p] \in Contents
        PROVE  Inherits(Read(files'[p]), Legacy[p], inherited[p])
    <3>1. CASE p = target[r]
      <4>1. /\ p = base /\ Read(files'[p]) = copy[r] /\ copy[r] \in Contents
            /\ base # NoPath
          BY <2>1, <2>2, <3>1, ReadWhole DEF TypeOK, Requests, Handlers
      <4>2. Older(Fields, Read(files[p]), copy[r])
          BY <1>5, <3>1, <4>1 DEF Fresh, PersistOK
      <4>3. CASE files[p] \in Contents
          BY <1>a, <2>1, <2>2, <4>1, <4>2, <4>3, InheritsMore
      <4>4. CASE files[p] \notin Contents
        <5>1. Legacy[p] = NoFile /\ inherited[p] = NoFile
            BY <4>1, <4>4 DEF Whole, Sourced, TypeOK, Files
        <5>2. QED
            BY <4>1, <5>1, InheritsNothing
      <4>5. QED
          BY <4>3, <4>4
    <3>2. CASE p # target[r]
        BY <2>1, <2>2, <3>2 DEF TypeOK
    <3>3. QED
        BY <3>1, <3>2
  <2>3. QED
      BY <2>1, <2>2
<1>6. ASSUME NEW r \in Requests, PersistFails(r) PROVE Migrates'
    BY <1>6 DEF PersistFails, Unwritten, histories
<1>7. ASSUME NEW e \in Editors, Apply(e) PROVE Migrates'
  <2>1. /\ files' = files /\ takenOver' = takenOver /\ inherited' = inherited
        /\ base' # NoPath => base' = base /\ base \in Paths
      BY <1>7, <1>a DEF Apply
  <2>2. Older(Fields, memory, memory')
    <3>1. Older(Priorities, memory, copy[e])
        BY <1>7 DEF Apply, Fresh
    <3>2. QED
        BY <1>7, <1>a, <3>1 DEF Apply, Older, Contents
  <2>3. QED
      BY <1>a, <2>1, <2>2, InheritsMore
<1>8. ASSUME NEW p \in Paths, Configure(p) PROVE Migrates'
    BY <1>8 DEF Configure, histories
<1>9. ASSUME Load PROVE Migrates'
    BY <1>9 DEF Load, Loaded
<1>10. ASSUME Migrate PROVE Migrates'
  <2>1. /\ takenOver' = takenOver /\ memory' = memory
        /\ base' # NoPath => base' = base /\ base # stateFile
        /\ files' = [files EXCEPT ![stateFile] = Torn]
        /\ inherited' = [inherited EXCEPT ![stateFile] = Candidate(stateFile)]
      BY <1>10 DEF Migrate
  <2>2. files'[stateFile] \notin Contents
      BY <1>a, <2>1 DEF TypeOK
  <2>3. \A p \in Paths \ {stateFile} : files'[p] = files[p] /\ inherited'[p] = inherited[p]
      BY <2>1 DEF TypeOK
  <2>4. QED
      BY <1>a, <2>1, <2>2, <2>3
<1>11. ASSUME Migrated PROVE Migrates'
  <2>1. /\ takenOver' = takenOver /\ memory' = memory /\ base' = base
        /\ inherited' = inherited
        /\ files' = [files EXCEPT ![stateFile] = Candidate(stateFile)]
      BY <1>11 DEF Migrated, Loaded
  <2>2. /\ Candidate(stateFile) \in Contents
        /\ Read(Candidate(stateFile)) = Candidate(stateFile)
        /\ inherited[stateFile] = Candidate(stateFile)
        /\ Legacy[stateFile] # NoFile => Legacy[stateFile] = Candidate(stateFile)
      BY <1>11, <1>a, CandidateType DEF Migrated, Whole
  <2>3. Inherits(Candidate(stateFile), Legacy[stateFile], inherited[stateFile])
      BY <2>2 DEF Inherits, Older, Read, Empty, Contents
  <2>4. ASSUME NEW p \in Paths \ takenOver, files'[p] \in Contents
        PROVE  Inherits(Read(files'[p]), Legacy[p], inherited[p])
    <3>1. CASE p = stateFile
        BY <2>1, <2>2, <2>3, <3>1 DEF TypeOK
    <3>2. CASE p # stateFile
        BY <2>1, <2>4, <3>2 DEF TypeOK
    <3>3. QED
        BY <3>1, <3>2
  <2>5. QED
      BY <2>1, <2>4
<1>12. ASSUME Replace PROVE Migrates'
  <2>1. /\ files' = files /\ takenOver' = takenOver /\ base' = stateFile
        /\ inherited' = inherited /\ memory' = Read(files[stateFile])
        /\ files[stateFile] # Torn /\ ~MigrationDue
      BY <1>12 DEF Replace, Whole
  <2>2. ASSUME stateFile \notin takenOver
        PROVE  Inherits(memory', Legacy[stateFile], inherited[stateFile])
    <3>1. CASE files[stateFile] = NoFile
      <4>1. Legacy[stateFile] = NoFile /\ inherited[stateFile] = NoFile
          BY <1>a, <2>1, <3>1, CandidateType DEF MigrationDue, Sourced
      <4>2. QED
          BY <1>a, <4>1, InheritsNothing
    <3>2. CASE files[stateFile] # NoFile
      <4>1. files[stateFile] \in Contents
          BY <2>1, <3>2 DEF TypeOK, Files
      <4>2. QED
          BY <2>1, <2>2, <4>1 DEF TypeOK
    <3>3. QED
        BY <3>1, <3>2
  <2>3. QED
      BY <2>1, <2>2
<1>13. ASSUME LoadFails PROVE Migrates'
    BY <1>13 DEF LoadFails, histories
<1>14. ASSUME Crash PROVE Migrates'
    BY <1>14 DEF Crash, histories
<1>15. ASSUME UNCHANGED vars PROVE Migrates'
    BY <1>15 DEF vars, histories
<1>16. QED
    BY <1>1, <1>2, <1>3, <1>4, <1>5, <1>6, <1>7, <1>8, <1>9, <1>10, <1>11, <1>12,
       <1>13, <1>14, <1>15 DEF Next, Handle, Reload

-----------------------------------------------------------------------------
(* Theorems                                                                *)

\* The first state: nothing in memory, no state file.
LEMMA InitInv == Init => IInv
<1> SUFFICES ASSUME Init PROVE IInv
    OBVIOUS
<1> USE EmptyType, FieldType, PersistenceAssumption DEF Init, Locking, Locked
<1>1. TypeOK
  <2>1. files \in [Paths -> Files] /\ target \in [Requests -> Paths]
      BY DEF Files
  <2>2. pc \in [Handlers -> PCs] /\ version \in [Requests -> Nat]
      BY DEF PCs
  <2>3. configures \in 0..MaxConfigures /\ crashes \in 0..MaxCrashes
      OBVIOUS
  <2>4. QED
      BY <2>1, <2>2, <2>3 DEF TypeOK
<1>2. Locking /\ Whole /\ Sourced /\ Fresh /\ Following /\ PrioritiesFileFirst
    BY DEF Whole, Sourced, Fresh, Following, PrioritiesFileFirst, Handlers
<1>3. Underway /\ Durable /\ InMemory
    BY DEF Underway, Durable, InMemory, Requests, Handlers
<1>4. Migrates
    BY DEF Migrates, Contents
<1>5. QED
    BY <1>1, <1>2, <1>3, <1>4 DEF IInv

\* No step leaves the invariant, and none takes a file back.
LEMMA StepInv == IInv /\ [Next]_vars => IInv' /\ Forward
<1> SUFFICES ASSUME IInv, [Next]_vars PROVE IInv' /\ Forward
    OBVIOUS
<1> USE DEF IInv
<1>1. TypeOK' /\ Locking' /\ Whole' /\ Sourced' /\ Fresh'
    BY TypeStep, LockingStep, WholeStep, SourcedStep, FreshStep
<1>2. Forward /\ Following' /\ PrioritiesFileFirst'
    BY GoesBackStep, FollowingStep, PrioritiesStep
<1>3. Underway' /\ Durable' /\ InMemory' /\ Migrates'
    BY <1>2, UnderwayStep, DurableStep, InMemoryStep, MigratesStep
<1>4. QED
    BY <1>1, <1>2, <1>3

\* The invariant holds in every reachable state.
THEOREM Invariant == Spec => []IInv
    BY InitInv, StepInv, PTL DEF Spec

\* States, files and clones are whole, and saveMu has one holder.
THEOREM TypeCorrect == Spec => []TypeOK
<1>1. IInv => TypeOK
    BY DEF IInv
<1>2. QED
    BY <1>1, Invariant, PTL

\* A priority is in the file before a pick goes by it (updateAuthPriorities).
THEOREM PrioritiesFirst == Spec => []PrioritiesFileFirst
<1>1. IInv => PrioritiesFileFirst
    BY DEF IInv
<1>2. QED
    BY <1>1, Invariant, PTL

\* An acknowledged update outlives crashes (save, persistState).
THEOREM Acknowledged == Spec => []AckedIsDurable
<1>1. IInv => AckedIsDurable
    BY DEF IInv, Durable, AckedIsDurable
<1>2. QED
    BY <1>1, Invariant, PTL

\* An acknowledged update stays in memory (updateAuthPriorities, save).
THEOREM Remembered == Spec => []AckedIsInMemory
<1>1. IInv => AckedIsInMemory
    BY DEF IInv, InMemory, AckedIsInMemory
<1>2. QED
    BY <1>1, Invariant, PTL

\* A legacy state is migrated as a whole (migrateLegacyStateFile, load).
THEOREM LegacyMigrated == Spec => []LegacyIsKept
<1>1. IInv => LegacyIsKept
    BY DEF IInv, Migrates, Inherits, Older, LegacyIsKept
<1>2. QED
    BY <1>1, Invariant, PTL

\* No file goes back that was not taken over (save, load).
THEOREM FilesGoForward == Spec => FileNeverGoesBack
<1>1. IInv /\ [Next]_vars
        => [\A p \in Paths \ takenOver', f \in Fields :
              Read(files[p])[f] <= Read(files'[p])[f]]_vars
    BY StepInv DEF Forward, Older
<1>2. QED
    BY <1>1, Invariant, PTL DEF Spec, FileNeverGoesBack
=============================================================================
