-------------------------- MODULE HabitatDBProofs --------------------------
(***************************************************************************)
(* The file-backed database, for any number of clients, any requests and   *)
(* any documents.                                                          *)
(***************************************************************************)
EXTENDS HabitatDB, NodeTransitionsProofs

HoldsLock == {"check", "write", "commit"}

(***************************************************************************)
(* Who is where when the lock is held: exactly the proposal past Lock is   *)
(* the writer, exactly the reads past RLock are the readers, and never     *)
(* both.  Nobody is anywhere unless the node is up.                        *)
(***************************************************************************)
MutexInv ==
  /\ \A c \in Client : pc[c] \in HoldsLock <=> writer = c
  /\ \A c \in Client : pc[c] = "read" <=> c \in readers
  /\ writer # NoClient => readers = {}
  /\ node # "up" => \A c \in Client : pc[c] = "idle"

(***************************************************************************)
(* How the file and the memory relate, at every point of a proposal.       *)
(***************************************************************************)
HasRoot(s) == RootUser \in DOMAIN s.users

FileInv ==
  /\ fileIs = "whole" => SchemaValid(file) /\ HasRoot(file)
  /\ node = "up" => HasRoot(mem) /\ fileIs # "absent"
  /\ node = "booting" => /\ fileIs = "torn" /\ mem = EmptyState
                         /\ file \in InitialStates /\ SchemaValid(file)
  /\ fileIs = "absent" => mem = EmptyState
  /\ \A c \in Client :
       /\ pc[c] = "check" => fileIs = "torn" \/ (fileIs = "whole" /\ file = mem)
       /\ pc[c] \in {"write", "commit"} => Accepts(mem, arg[c])
       /\ pc[c] = "write" => fileIs = "torn"
       /\ pc[c] = "commit" => fileIs = "whole" /\ file = Patch(mem, arg[c])

Inv ==
  /\ TypeOK /\ MutexInv /\ FileInv
  /\ FileMatchesMemory /\ ReadersSeeCurrentState

-----------------------------------------------------------------------------
(* The transition that idle clients are given.                             *)
LEMMA AnyRequestIsOne == AnyRequest \in Requests
  BY RequestsAssumption DEF AnyRequest

(* The empty document is one.                                              *)
LEMMA EmptyStateOK == IsNodeState(EmptyState) /\ SchemaValid(EmptyState)
  BY DEF EmptyState, NoEntries, IsNodeState, IsMap, LatestVersion, SchemaValid

(* main.go proposes a document with the root user.                         *)
LEMMA InitialStatesOK ==
  ASSUME NEW s \in InitialStates
  PROVE  IsNodeState(s) /\ HasRoot(s) /\ Patch(EmptyState, Initialize(s)) = s
  BY InitialStatesAssumption DEF WellConfigured, HasRoot, Initialize, Patch

(***************************************************************************)
(* What an accepted proposal makes of the document in memory.              *)
(***************************************************************************)
LEMMA AcceptedOK ==
  ASSUME NEW s, IsNodeState(s), NEW t \in Requests, Accepts(s, t)
  PROVE  /\ IsNodeState(Patch(s, t)) /\ SchemaValid(Patch(s, t))
         /\ HasRoot(s) => HasRoot(Patch(s, t))
  <1>1. t \in Transition /\ Validate(s, t)
    BY RequestsAssumption DEF Accepts
  <1>. QED
    BY <1>1, PatchIsNodeState, PatchUsers DEF Accepts, HasRoot

(* Before the first boot there is no file.                                 *)
LEMMA InitInv == Init => Inv
  BY AnyRequestIsOne, EmptyStateOK, NoClientAssumption
     DEF Init, Inv, TypeOK, MutexInv, FileInv, FileMatchesMemory,
         ReadersSeeCurrentState, PcValues, HoldsLock

-----------------------------------------------------------------------------
(* The types, by the action taken.                                         *)
LEMMA TypeStep == Inv /\ [Next]_vars => TypeOK'
  <1>. SUFFICES ASSUME Inv, [Next]_vars PROVE TypeOK'
    OBVIOUS
  <1>. USE DEF TypeOK, Goto, PcValues
  <1>0. TypeOK
    BY DEF Inv
  <1>1. CASE BootFromFile
    BY <1>0, <1>1 DEF BootFromFile, disk, mutex, client
  <1>2. CASE BootWrite
    BY <1>0, <1>2 DEF BootWrite, mutex, client, Inv, FileInv
  <1>3. CASE BootWriteFails
    BY <1>0, <1>3 DEF BootWriteFails, disk, mutex, client
  <1>4. CASE Crash
    BY <1>0, <1>4, AnyRequestIsOne, EmptyStateOK DEF Crash, disk
  <1>5. CASE \E s \in InitialStates : BootCreate(s)
    BY <1>0, <1>5, InitialStatesOK DEF BootCreate, mutex, client
  <1>6. ASSUME NEW c \in Client, Read(c) PROVE TypeOK'
    BY <1>0, <1>6 DEF Read, disk, mutex
  <1>7. ASSUME NEW c \in Client, NEW t \in Requests, Propose(c, t) PROVE TypeOK'
    BY <1>0, <1>7 DEF Propose, disk, mutex
  <1>8. ASSUME NEW c \in Client, Lock(c) PROVE TypeOK'
    BY <1>0, <1>8 DEF Lock, disk
  <1>9. ASSUME NEW c \in Client, Reject(c) PROVE TypeOK'
    BY <1>0, <1>9, AnyRequestIsOne DEF Reject, ReturnFromProposal, disk
  <1>10. ASSUME NEW c \in Client, Truncate(c) PROVE TypeOK'
    BY <1>0, <1>10 DEF Truncate, mutex
  <1>11. ASSUME NEW c \in Client, Write(c) PROVE TypeOK'
    BY <1>0, <1>11, AcceptedOK DEF Write, mutex, Inv, FileInv
  <1>12. ASSUME NEW c \in Client, WriteFails(c) PROVE TypeOK'
    BY <1>0, <1>12, AnyRequestIsOne DEF WriteFails, ReturnFromProposal, disk
  <1>13. ASSUME NEW c \in Client, Commit(c) PROVE TypeOK'
    BY <1>0, <1>13, AnyRequestIsOne, AcceptedOK
       DEF Commit, ReturnFromProposal, disk, Inv, FileInv
  <1>14. ASSUME NEW c \in Client, RLock(c) PROVE TypeOK'
    BY <1>0, <1>14 DEF RLock, disk
  <1>15. ASSUME NEW c \in Client, RUnlock(c) PROVE TypeOK'
    BY <1>0, <1>15, EmptyStateOK DEF RUnlock, disk
  <1>16. CASE UNCHANGED vars
    BY <1>0, <1>16 DEF vars, disk, mutex, client
  <1>. QED
    BY <1>1, <1>2, <1>3, <1>4, <1>5, <1>6, <1>7, <1>8, <1>9, <1>10, <1>11,
       <1>12, <1>13, <1>14, <1>15, <1>16 DEF Next, ClientStep

(* The lock is handed from one to the other.                               *)
LEMMA MutexStep == Inv /\ [Next]_vars => MutexInv'
  <1>. SUFFICES ASSUME Inv, [Next]_vars PROVE MutexInv'
    OBVIOUS
  <1>. USE NoClientAssumption DEF TypeOK, MutexInv, HoldsLock, Goto, PcValues
  <1>0. TypeOK /\ MutexInv
    BY DEF Inv
  <1>1. CASE BootFromFile
    BY <1>0, <1>1 DEF BootFromFile, disk, mutex, client
  <1>2. CASE BootWrite
    BY <1>0, <1>2 DEF BootWrite, mutex, client
  <1>3. CASE BootWriteFails
    BY <1>0, <1>3 DEF BootWriteFails, disk, mutex, client
  <1>4. CASE Crash
    BY <1>0, <1>4 DEF Crash, disk
  <1>5. CASE \E s \in InitialStates : BootCreate(s)
    BY <1>0, <1>5 DEF BootCreate, mutex, client
  <1>6. ASSUME NEW c \in Client, Read(c) PROVE MutexInv'
    BY <1>0, <1>6 DEF Read, disk, mutex
  <1>7. ASSUME NEW c \in Client, NEW t \in Requests, Propose(c, t)
        PROVE  MutexInv'
    BY <1>0, <1>7 DEF Propose, disk, mutex
  <1>8. ASSUME NEW c \in Client, Lock(c) PROVE MutexInv'
    BY <1>0, <1>8 DEF Lock, disk
  <1>9. ASSUME NEW c \in Client, Reject(c) PROVE MutexInv'
    BY <1>0, <1>9 DEF Reject, ReturnFromProposal, disk
  <1>10. ASSUME NEW c \in Client, Truncate(c) PROVE MutexInv'
    BY <1>0, <1>10 DEF Truncate, mutex
  <1>11. ASSUME NEW c \in Client, Write(c) PROVE MutexInv'
    BY <1>0, <1>11 DEF Write, mutex
  <1>12. ASSUME NEW c \in Client, WriteFails(c) PROVE MutexInv'
    BY <1>0, <1>12 DEF WriteFails, ReturnFromProposal, disk
  <1>13. ASSUME NEW c \in Client, Commit(c) PROVE MutexInv'
    BY <1>0, <1>13 DEF Commit, ReturnFromProposal, disk
  <1>14. ASSUME NEW c \in Client, RLock(c) PROVE MutexInv'
    BY <1>0, <1>14 DEF RLock, disk
  <1>15. ASSUME NEW c \in Client, RUnlock(c) PROVE MutexInv'
    BY <1>0, <1>15 DEF RUnlock, disk
  <1>16. CASE UNCHANGED vars
    BY <1>0, <1>16 DEF vars, disk, mutex, client
  <1>. QED
    BY <1>1, <1>2, <1>3, <1>4, <1>5, <1>6, <1>7, <1>8, <1>9, <1>10, <1>11,
       <1>12, <1>13, <1>14, <1>15, <1>16 DEF Next, ClientStep

(* Nothing commits while somebody reads.                                   *)
LEMMA ReadersStep == Inv /\ [Next]_vars => ReadersSeeCurrentState'
  <1>. SUFFICES ASSUME Inv, [Next]_vars PROVE ReadersSeeCurrentState'
    OBVIOUS
  <1>. USE NoClientAssumption DEF TypeOK, MutexInv, ReadersSeeCurrentState,
           HoldsLock, Goto, PcValues
  <1>0. TypeOK /\ MutexInv /\ ReadersSeeCurrentState
    BY DEF Inv
  <1>1. CASE BootFromFile
    BY <1>0, <1>1 DEF BootFromFile, disk, mutex, client
  <1>2. CASE BootWrite
    BY <1>0, <1>2 DEF BootWrite, mutex, client
  <1>3. CASE BootWriteFails
    BY <1>0, <1>3 DEF BootWriteFails, disk, mutex, client
  <1>4. CASE Crash
    BY <1>0, <1>4 DEF Crash, disk
  <1>5. CASE \E s \in InitialStates : BootCreate(s)
    BY <1>0, <1>5 DEF BootCreate, mutex, client
  <1>6. ASSUME NEW c \in Client, Read(c) PROVE ReadersSeeCurrentState'
    BY <1>0, <1>6 DEF Read, disk, mutex
  <1>7. ASSUME NEW c \in Client, NEW t \in Requests, Propose(c, t)
        PROVE  ReadersSeeCurrentState'
    BY <1>0, <1>7 DEF Propose, disk, mutex
  <1>8. ASSUME NEW c \in Client, Lock(c) PROVE ReadersSeeCurrentState'
    BY <1>0, <1>8 DEF Lock, disk
  <1>9. ASSUME NEW c \in Client, Reject(c) PROVE ReadersSeeCurrentState'
    BY <1>0, <1>9 DEF Reject, ReturnFromProposal, disk
  <1>10. ASSUME NEW c \in Client, Truncate(c) PROVE ReadersSeeCurrentState'
    BY <1>0, <1>10 DEF Truncate, mutex
  <1>11. ASSUME NEW c \in Client, Write(c) PROVE ReadersSeeCurrentState'
    BY <1>0, <1>11 DEF Write, mutex
  <1>12. ASSUME NEW c \in Client, WriteFails(c) PROVE ReadersSeeCurrentState'
    BY <1>0, <1>12 DEF WriteFails, ReturnFromProposal, disk
  <1>13. ASSUME NEW c \in Client, Commit(c) PROVE ReadersSeeCurrentState'
    BY <1>0, <1>13 DEF Commit, ReturnFromProposal, disk
  <1>14. ASSUME NEW c \in Client, RLock(c) PROVE ReadersSeeCurrentState'
    BY <1>0, <1>14 DEF RLock, disk
  <1>15. ASSUME NEW c \in Client, RUnlock(c) PROVE ReadersSeeCurrentState'
    BY <1>0, <1>15 DEF RUnlock, disk
  <1>16. CASE UNCHANGED vars
    BY <1>0, <1>16 DEF vars, disk, mutex, client
  <1>. QED
    BY <1>1, <1>2, <1>3, <1>4, <1>5, <1>6, <1>7, <1>8, <1>9, <1>10, <1>11,
       <1>12, <1>13, <1>14, <1>15, <1>16 DEF Next, ClientStep

(* The file follows the memory through a proposal.                         *)
LEMMA FileStep == Inv /\ [Next]_vars => FileInv'
  <1>. SUFFICES ASSUME Inv, [Next]_vars PROVE FileInv'
    OBVIOUS
  <1>. USE NoClientAssumption DEF TypeOK, MutexInv, FileInv, FileMatchesMemory,
           HoldsLock, Goto, PcValues
  <1>0. TypeOK /\ MutexInv /\ FileInv /\ FileMatchesMemory
    BY DEF Inv
  <1>1. CASE BootFromFile
    BY <1>0, <1>1 DEF BootFromFile, disk, mutex, client
  <1>2. CASE BootWrite
    BY <1>0, <1>2, InitialStatesOK DEF BootWrite, mutex, client
  <1>3. CASE BootWriteFails
    BY <1>0, <1>3 DEF BootWriteFails, disk, mutex, client
  <1>4. CASE Crash
    BY <1>0, <1>4 DEF Crash, disk
  <1>5. CASE \E s \in InitialStates : BootCreate(s)
    <2>1. PICK s \in InitialStates : BootCreate(s)
      BY <1>5
    <2>2. file' = s /\ SchemaValid(file')
      BY <2>1, InitialStatesOK DEF BootCreate, Accepts
    <2>. QED
      BY <1>0, <2>1, <2>2 DEF BootCreate, mutex, client
  <1>6. ASSUME NEW c \in Client, Read(c) PROVE FileInv'
    BY <1>0, <1>6 DEF Read, disk, mutex
  <1>7. ASSUME NEW c \in Client, NEW t \in Requests, Propose(c, t)
        PROVE  FileInv'
    BY <1>0, <1>7 DEF Propose, disk, mutex
  <1>8. ASSUME NEW c \in Client, Lock(c) PROVE FileInv'
    BY <1>0, <1>8 DEF Lock, disk
  <1>9. ASSUME NEW c \in Client, Reject(c) PROVE FileInv'
    BY <1>0, <1>9 DEF Reject, ReturnFromProposal, disk
  <1>10. ASSUME NEW c \in Client, Truncate(c) PROVE FileInv'
    BY <1>0, <1>10 DEF Truncate, mutex
  <1>11. ASSUME NEW c \in Client, Write(c) PROVE FileInv'
    BY <1>0, <1>11, AcceptedOK DEF Write, mutex
  <1>12. ASSUME NEW c \in Client, WriteFails(c) PROVE FileInv'
    BY <1>0, <1>12 DEF WriteFails, ReturnFromProposal, disk
  <1>13. ASSUME NEW c \in Client, Commit(c) PROVE FileInv'
    BY <1>0, <1>13, AcceptedOK DEF Commit, ReturnFromProposal, disk
  <1>14. ASSUME NEW c \in Client, RLock(c) PROVE FileInv'
    BY <1>0, <1>14 DEF RLock, disk
  <1>15. ASSUME NEW c \in Client, RUnlock(c) PROVE FileInv'
    BY <1>0, <1>15 DEF RUnlock, disk
  <1>16. CASE UNCHANGED vars
    BY <1>0, <1>16 DEF vars, disk, mutex, client
  <1>. QED
    BY <1>1, <1>2, <1>3, <1>4, <1>5, <1>6, <1>7, <1>8, <1>9, <1>10, <1>11,
       <1>12, <1>13, <1>14, <1>15, <1>16 DEF Next, ClientStep

(* Every way to give the lock up leaves the file in step.                  *)
LEMMA MatchStep == Inv /\ [Next]_vars => FileMatchesMemory'
  <1>. SUFFICES ASSUME Inv, [Next]_vars PROVE FileMatchesMemory'
    OBVIOUS
  <1>. USE NoClientAssumption DEF TypeOK, MutexInv, FileInv, FileMatchesMemory,
           HoldsLock, Goto, PcValues
  <1>0. TypeOK /\ MutexInv /\ FileInv /\ FileMatchesMemory
    BY DEF Inv
  <1>1. CASE BootFromFile
    BY <1>0, <1>1 DEF BootFromFile, disk, mutex, client
  <1>2. CASE BootWrite
    BY <1>0, <1>2 DEF BootWrite, mutex, client
  <1>3. CASE BootWriteFails
    BY <1>0, <1>3 DEF BootWriteFails, disk, mutex, client
  <1>4. CASE Crash
    BY <1>0, <1>4 DEF Crash, disk
  <1>5. CASE \E s \in InitialStates : BootCreate(s)
    BY <1>0, <1>5 DEF BootCreate, mutex, client
  <1>6. ASSUME NEW c \in Client, Read(c) PROVE FileMatchesMemory'
    BY <1>0, <1>6 DEF Read, disk, mutex
  <1>7. ASSUME NEW c \in Client, NEW t \in Requests, Propose(c, t)
        PROVE  FileMatchesMemory'
    BY <1>0, <1>7 DEF Propose, disk, mutex
  <1>8. ASSUME NEW c \in Client, Lock(c) PROVE FileMatchesMemory'
    BY <1>0, <1>8 DEF Lock, disk
  <1>9. ASSUME NEW c \in Client, Reject(c) PROVE FileMatchesMemory'
    BY <1>0, <1>9 DEF Reject, ReturnFromProposal, disk
  <1>10. ASSUME NEW c \in Client, Truncate(c) PROVE FileMatchesMemory'
    BY <1>0, <1>10 DEF Truncate, mutex
  <1>11. ASSUME NEW c \in Client, Write(c) PROVE FileMatchesMemory'
    BY <1>0, <1>11 DEF Write, mutex
  <1>12. ASSUME NEW c \in Client, WriteFails(c) PROVE FileMatchesMemory'
    BY <1>0, <1>12 DEF WriteFails, ReturnFromProposal, disk
  <1>13. ASSUME NEW c \in Client, Commit(c) PROVE FileMatchesMemory'
    BY <1>0, <1>13 DEF Commit, ReturnFromProposal, disk
  <1>14. ASSUME NEW c \in Client, RLock(c) PROVE FileMatchesMemory'
    BY <1>0, <1>14 DEF RLock, disk
  <1>15. ASSUME NEW c \in Client, RUnlock(c) PROVE FileMatchesMemory'
    BY <1>0, <1>15 DEF RUnlock, disk
  <1>16. CASE UNCHANGED vars
    BY <1>0, <1>16 DEF vars, disk, mutex, client
  <1>. QED
    BY <1>1, <1>2, <1>3, <1>4, <1>5, <1>6, <1>7, <1>8, <1>9, <1>10, <1>11,
       <1>12, <1>13, <1>14, <1>15, <1>16 DEF Next, ClientStep

(***************************************************************************)
(* Every reachable state satisfies the invariant.                          *)
(***************************************************************************)
THEOREM Invariant == Spec => []Inv
  <1>1. Init => Inv
    BY InitInv
  <1>2. Inv /\ [Next]_vars => Inv'
    BY TypeStep, MutexStep, ReadersStep, FileStep, MatchStep DEF Inv
  <1>. QED
    BY <1>1, <1>2, PTL DEF Spec
-----------------------------------------------------------------------------
(***************************************************************************)
(* The abstract registry speaks of the same documents and transitions.     *)
(***************************************************************************)
LEMMA SameEmptyState == Abstract!EmptyState = EmptyState
  BY DEF Abstract!EmptyState, EmptyState, Abstract!NoEntries, NoEntries,
         Abstract!LatestVersion, LatestVersion

(* The same migration.                                                     *)
LEMMA SameMigratedData ==
  ASSUME NEW s, NEW v
  PROVE  Abstract!MigratedData(s, v) = MigratedData(s, v)
  BY DEF Abstract!MigratedData, MigratedData, Abstract!NoEntries, NoEntries

(* The same schema.                                                        *)
LEMMA SameSchema ==
  ASSUME NEW s
  PROVE  Abstract!SchemaValid(s) <=> SchemaValid(s)
  BY DEF Abstract!SchemaValid, SchemaValid, Abstract!SchemaDrivers, SchemaDrivers,
         Abstract!LatestVersion, LatestVersion

(* The same patches.                                                       *)
LEMMA SamePatch ==
  ASSUME NEW s, NEW t
  PROVE  Abstract!Patch(s, t) = Patch(s, t)
  BY SameMigratedData DEF Abstract!Patch, Patch, Abstract!Put, Put,
     Abstract!Drop, Drop, Abstract!Overlay, Overlay, Abstract!Restrict, Restrict

(* The same validation.                                                    *)
LEMMA SameValidate ==
  ASSUME NEW s, NEW t
  PROVE  Abstract!Validate(s, t) <=> Validate(s, t)
  BY SameMigratedData, SameSchema
     DEF Abstract!Validate, Validate, Abstract!MigrationValid, MigrationValid,
         Abstract!AddUserValid, AddUserValid,
         Abstract!StartInstallationValid, StartInstallationValid,
         Abstract!FinishInstallationValid, FinishInstallationValid,
         Abstract!UninstallValid, UninstallValid,
         Abstract!ProcessStartValid, ProcessStartValid,
         Abstract!ProcessStopValid, ProcessStopValid,
         Abstract!AddProxyRuleValid, AddProxyRuleValid,
         Abstract!LatestVersion, LatestVersion

(* The same acceptance.                                                    *)
LEMMA SameAccepts ==
  ASSUME NEW s, NEW t
  PROVE  Abstract!Accepts(s, t) <=> Accepts(s, t)
  BY SameSchema, SamePatch, SameValidate DEF Abstract!Accepts, Accepts
(***************************************************************************)
(* The empty document has no root user, so an initialised node never       *)
(* looks like one that has yet to come up.                                 *)
(***************************************************************************)
LEMMA RootedIsNotEmpty ==
  ASSUME NEW s, HasRoot(s)
  PROVE  s # EmptyState
  BY DEF HasRoot, EmptyState, NoEntries

(***************************************************************************)
(* A step that applies an accepted proposal to the registry is a Change.   *)
(***************************************************************************)
LEMMA AppliedIsChange ==
  ASSUME NEW t \in Requests, HasRoot(Registry), Accepts(Registry, t),
         Registry' = Patch(Registry, t)
  PROVE  Abstract!Next
  <1>1. Abstract!Change(t)
    BY RootedIsNotEmpty, SameEmptyState, SameAccepts, SamePatch DEF Abstract!Change
  <1>. QED
    BY <1>1 DEF Abstract!Next

(* The first state maps to the first state.                                *)
LEMMA InitRefines == Init => Abstract!Init
  BY SameEmptyState DEF Init, Registry, Abstract!Init

(* Every step maps to a step of the registry or to none.                   *)
LEMMA StepRefines == Inv /\ [Next]_vars => [Abstract!Next]_Registry
  <1>. SUFFICES ASSUME Inv, [Next]_vars PROVE [Abstract!Next]_Registry
    OBVIOUS
  <1>0. TypeOK /\ MutexInv /\ FileInv /\ FileMatchesMemory
    BY DEF Inv
  <1>1. CASE BootFromFile
    BY <1>1 DEF BootFromFile, disk, Registry
  <1>2. CASE BootWrite
    <2>1. /\ Registry = EmptyState /\ Registry' = file
          /\ file \in InitialStates /\ SchemaValid(file)
      BY <1>0, <1>2 DEF BootWrite, Registry, FileInv
    <2>2. Patch(EmptyState, Initialize(file)) = file
      BY <2>1, InitialStatesOK
    <2>3. Accepts(EmptyState, Initialize(file))
      BY <2>1, <2>2 DEF Accepts, Initialize, Validate
    <2>4. Abstract!Initialize(file) = Initialize(file)
      BY DEF Abstract!Initialize, Initialize
    <2>5. Abstract!Create(file)
      BY <2>1, <2>2, <2>3, <2>4, SameEmptyState, SameAccepts, SamePatch
         DEF Abstract!Create
    <2>. QED
      BY <2>1, <2>5 DEF Abstract!Next
  <1>3. CASE BootWriteFails
    BY <1>0, <1>3 DEF BootWriteFails, disk, Registry, FileInv
  <1>4. CASE Crash
    <2>1. CASE node = "up" /\ fileIs = "whole"
      <3>1. Registry = mem /\ Registry' = file /\ HasRoot(mem)
        BY <1>0, <1>4, <2>1 DEF Crash, disk, Registry, FileInv
      <3>2. CASE file = mem
        BY <3>1, <3>2
      <3>3. CASE file # mem
        <4>1. PICK c \in Client : pc[c] \in HoldsLock
          BY <1>0, <2>1, <3>3 DEF FileMatchesMemory, MutexInv, TypeOK
        <4>2. pc[c] = "commit"
          BY <1>0, <2>1, <3>3, <4>1 DEF FileInv, HoldsLock
        <4>3. arg[c] \in Requests /\ Accepts(mem, arg[c]) /\ file = Patch(mem, arg[c])
          BY <1>0, <4>2 DEF FileInv, TypeOK
        <4>. QED
          BY <3>1, <4>3, AppliedIsChange
      <3>. QED
        BY <3>2, <3>3
    <2>2. CASE ~(node = "up" /\ fileIs = "whole")
      BY <1>0, <1>4, <2>2 DEF Crash, disk, Registry, FileInv
    <2>. QED
      BY <2>1, <2>2
  <1>5. CASE \E s \in InitialStates : BootCreate(s)
    BY <1>0, <1>5 DEF BootCreate, Registry, FileInv
  <1>6. ASSUME NEW c \in Client, Commit(c) PROVE [Abstract!Next]_Registry
    <2>1. node = "up"
      BY <1>0, <1>6 DEF Commit, MutexInv
    <2>2. Registry = mem /\ Registry' = Patch(mem, arg[c]) /\ HasRoot(mem)
      BY <1>0, <1>6, <2>1 DEF Commit, disk, Registry, FileInv
    <2>3. arg[c] \in Requests /\ Accepts(mem, arg[c])
      BY <1>0, <1>6 DEF Commit, FileInv, TypeOK
    <2>. QED
      BY <2>2, <2>3, AppliedIsChange
  <1>7. ASSUME NEW c \in Client,
               \/ Read(c) \/ Lock(c) \/ Reject(c) \/ WriteFails(c)
               \/ RLock(c) \/ RUnlock(c)
               \/ \E t \in Requests : Propose(c, t)
        PROVE  UNCHANGED Registry
    BY <1>7 DEF Read, Lock, Reject, WriteFails, RLock, RUnlock, Propose,
       disk, Registry
  <1>8. ASSUME NEW c \in Client, Truncate(c) \/ Write(c)
        PROVE  UNCHANGED Registry
    <2>1. node = "up"
      BY <1>0, <1>8 DEF Truncate, Write, MutexInv
    <2>. QED
      BY <1>8, <2>1 DEF Truncate, Write, Registry
  <1>9. CASE UNCHANGED vars
    BY <1>9 DEF vars, disk, Registry
  <1>. QED
    BY <1>1, <1>2, <1>3, <1>4, <1>5, <1>6, <1>7, <1>8, <1>9 DEF Next, ClientStep

(***************************************************************************)
(* The database implements the registry: under any interleaving of         *)
(* clients, with failing writes and with crashes at any point.             *)
(***************************************************************************)
THEOREM Refinement == Spec => ImplementsRegistry
  <1>1. Init => Abstract!Init
    BY InitRefines
  <1>2. Inv /\ [Next]_vars => [Abstract!Next]_Registry
    BY StepRefines
  <1>. QED
    BY <1>1, <1>2, Invariant, PTL DEF Spec, ImplementsRegistry, Abstract!Spec

(***************************************************************************)
(* The types of the database's state and of its file.                      *)
(***************************************************************************)
THEOREM TypeCorrect == Spec => []TypeOK
  <1>1. Inv => TypeOK
    BY DEF Inv
  <1>. QED
    BY <1>1, Invariant, PTL

(***************************************************************************)
(* Between proposals the file holds the state in memory or nothing that    *)
(* parses.                                                                 *)
(***************************************************************************)
THEOREM FileAlwaysMatches == Spec => []FileMatchesMemory
  <1>1. Inv => FileMatchesMemory
    BY DEF Inv
  <1>. QED
    BY <1>1, Invariant, PTL

(***************************************************************************)
(* What a reader unmarshals is the current state for as long as it reads.  *)
(***************************************************************************)
THEOREM ReadersAlwaysCurrent == Spec => []ReadersSeeCurrentState
  <1>1. Inv => ReadersSeeCurrentState
    BY DEF Inv
  <1>. QED
    BY <1>1, Invariant, PTL
=============================================================================
