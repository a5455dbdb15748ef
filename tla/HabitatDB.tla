----------------------------- MODULE HabitatDB -----------------------------
(***************************************************************************)
(* internal/node/state/db.go: the node state kept in memory and in one     *)
(* JSON file, behind one sync.RWMutex.  Clients are the goroutines that    *)
(* serve API requests.  The process may die between any two steps and be   *)
(* started again; a write of the file may fail.                            *)
(*                                                                         *)
(* os.WriteFile first truncates (or creates) the file and then writes it,  *)
(* so the file is "absent", "torn" (empty or a prefix of a document, which *)
(* never parses) or "whole".                                               *)
(***************************************************************************)
EXTENDS NodeTransitions

CONSTANTS
  InitialStates,  \* the documents main.go may generate for a new node
  Requests,       \* the transitions the node's clients may propose
  Client,         \* goroutines that use the database
  NoClient        \* nobody holds the write lock

ASSUME RequestsAssumption      == Requests # {} /\ Requests \subseteq Transition
ASSUME InitialStatesAssumption == \A s \in InitialStates : WellConfigured(s)
ASSUME NoClientAssumption      == NoClient \notin Client

VARIABLES
  node,     \* "down", "booting", "nodb" (running without a database) or "up"
  fileIs,   \* "absent", "torn" or "whole"
  file,     \* the document in the file, when it is whole
  mem,      \* fileDB.state
  writer,   \* who holds the mutex for writing
  readers,  \* who holds it for reading
  pc,       \* where each client is
  arg,      \* the transition each client proposes
  seen,     \* the document each client's State() call unmarshals
  result    \* what each client's last proposal returned: "none", "ok", "error"

disk   == <<fileIs, file>>
mutex  == <<writer, readers>>
client == <<pc, arg, seen, result>>
vars   == <<node, disk, mem, mutex, client>>

PcValues == {"idle", "lock", "check", "write", "commit", "rlock", "read"}

(* What arg and seen hold between calls, when they mean nothing. *)
AnyRequest == CHOOSE t \in Requests : TRUE

Goto(c, label) == pc' = [pc EXCEPT ![c] = label]

(* The deferred Unlock runs as the call returns. *)
ReturnFromProposal(c, r) ==
  /\ Goto(c, "idle")
  /\ writer' = NoClient
  /\ result' = [result EXCEPT ![c] = r]
  /\ arg' = [arg EXCEPT ![c] = AnyRequest]
  /\ UNCHANGED <<readers, seen>>

-----------------------------------------------------------------------------
Init ==
  /\ node = "down"
  /\ fileIs = "absent" /\ file = EmptyState
  /\ mem = EmptyState
  /\ writer = NoClient /\ readers = {}
  /\ pc = [c \in Client |-> "idle"]
  /\ arg = [c \in Client |-> AnyRequest]
  /\ seen = [c \in Client |-> EmptyState]
  /\ result = [c \in Client |-> "none"]

BootFromFile_Reinitializes ==
  /\ node = "down"
  /\ fileIs = "whole" /\ SchemaValid(file)
  /\ node' = "up"
  /\ mem' \in InitialStates
  /\ UNCHANGED <<disk, mutex, client>>

(***************************************************************************)
(* NewHabitatDB with the file there: its content is the state, whatever    *)
(* initial transitions main.go passes.  A torn file does not parse, the    *)
(* call fails and with it the boot.                                        *)
(***************************************************************************)
BootFromFile ==
  /\ node = "down"
  /\ fileIs = "whole" /\ SchemaValid(file)
  /\ node' = "up"
  /\ mem' = file
  /\ UNCHANGED <<disk, mutex, client>>

(***************************************************************************)
(* NewHabitatDB with no file: the initial document is proposed to an empty *)
(* one and written.  When the write fails the function returns (nil, nil), *)
(* and main.go goes on without a database.                                 *)
(***************************************************************************)
BootCreate(s) ==
  /\ node = "down" /\ fileIs = "absent"
  /\ Accepts(EmptyState, Initialize(s))
  /\ node' = "booting"
  /\ fileIs' = "torn" /\ file' = Patch(EmptyState, Initialize(s))
  /\ UNCHANGED <<mem, mutex, client>>

BootWrite ==
  /\ node = "booting"
  /\ fileIs' = "whole"
  /\ node' = "up"
  /\ mem' = file
  /\ UNCHANGED <<file, mutex, client>>

BootWriteFails ==
  /\ \/ node = "booting"
     \/ node = "down" /\ fileIs = "absent"   \* the file could not be created
  /\ node' = "nodb"
  /\ UNCHANGED <<disk, mem, mutex, client>>

(***************************************************************************)
(* The process dies.  Its memory, the lock and the calls go with it; the   *)
(* file stays as it is.  (mem keeps its value until the next boot sets it: *)
(* nothing reads it before.)                                               *)
(***************************************************************************)
Crash ==
  /\ node # "down"
  /\ node' = "down"
  /\ writer' = NoClient /\ readers' = {}
  /\ pc' = [c \in Client |-> "idle"]
  /\ arg' = [c \in Client |-> AnyRequest]
  /\ seen' = [c \in Client |-> EmptyState]
  /\ result' = [c \in Client |-> "none"]
  /\ UNCHANGED <<disk, mem>>

-----------------------------------------------------------------------------
(* fileDB.ProposeTransitions(t) is called. *)
Propose(c, t) ==
  /\ node = "up" /\ pc[c] = "idle"
  /\ Goto(c, "lock")
  /\ arg' = [arg EXCEPT ![c] = t]
  /\ result' = [result EXCEPT ![c] = "none"]
  /\ UNCHANGED <<node, disk, mem, mutex, seen>>

Lock_IgnoresReaders(c) ==
  /\ pc[c] = "lock"
  /\ writer = NoClient
  /\ writer' = c
  /\ Goto(c, "check")
  /\ UNCHANGED <<node, disk, mem, readers, arg, seen, result>>

Lock(c) ==
  /\ pc[c] = "lock"
  /\ writer = NoClient /\ readers = {}
  /\ writer' = c
  /\ Goto(c, "check")
  /\ UNCHANGED <<node, disk, mem, readers, arg, seen, result>>

Reject_KeepsLock(c) ==
  /\ pc[c] = "check"
  /\ ~Accepts(mem, arg[c])
  /\ Goto(c, "idle")
  /\ result' = [result EXCEPT ![c] = "error"]
  /\ UNCHANGED <<node, disk, mem, mutex, arg, seen>>

(* A transition was not valid, or its result not by the schema. *)
Reject(c) ==
  /\ pc[c] = "check"
  /\ ~Accepts(mem, arg[c])
  /\ ReturnFromProposal(c, "error")
  /\ UNCHANGED <<node, disk, mem>>

(* os.WriteFile opens the file with O_TRUNC ... *)
Truncate(c) ==
  /\ pc[c] = "check"
  /\ Accepts(mem, arg[c])
  /\ fileIs' = "torn"
  /\ Goto(c, "write")
  /\ UNCHANGED <<node, file, mem, mutex, arg, seen, result>>

(* ... and writes the new document. *)
Write(c) ==
  /\ pc[c] = "write"
  /\ fileIs' = "whole" /\ file' = Patch(mem, arg[c])
  /\ Goto(c, "commit")
  /\ UNCHANGED <<node, mem, mutex, arg, seen, result>>

WriteFails_UpdatesMemory(c) ==
  /\ pc[c] \in {"check", "write"} /\ Accepts(mem, arg[c])
  /\ mem' = Patch(mem, arg[c])
  /\ ReturnFromProposal(c, "ok")
  /\ UNCHANGED <<node, disk>>

(***************************************************************************)
(* Opening or writing the file failed: the state in memory stays, and the  *)
(* caller gets the new state and no error.                                 *)
(***************************************************************************)
WriteFails(c) ==
  /\ pc[c] \in {"check", "write"} /\ Accepts(mem, arg[c])
  /\ ReturnFromProposal(c, "ok")
  /\ UNCHANGED <<node, disk, mem>>

(* db.state = newState *)
Commit(c) ==
  /\ pc[c] = "commit"
  /\ mem' = Patch(mem, arg[c])
  /\ ReturnFromProposal(c, "ok")
  /\ UNCHANGED <<node, disk>>

(* fileDB.State() or fileDB.Bytes() is called. *)
Read(c) ==
  /\ node = "up" /\ pc[c] = "idle"
  /\ Goto(c, "rlock")
  /\ UNCHANGED <<node, disk, mem, mutex, arg, seen, result>>

RLock(c) ==
  /\ pc[c] = "rlock"
  /\ writer = NoClient
  /\ readers' = readers \cup {c}
  /\ seen' = [seen EXCEPT ![c] = mem]
  /\ Goto(c, "read")
  /\ UNCHANGED <<node, disk, mem, writer, arg, result>>

RUnlock(c) ==
  /\ pc[c] = "read"
  /\ readers' = readers \ {c}
  /\ seen' = [seen EXCEPT ![c] = EmptyState]
  /\ Goto(c, "idle")
  /\ UNCHANGED <<node, disk, mem, writer, arg, result>>

-----------------------------------------------------------------------------
ClientStep(c) ==
  \/ Lock(c) \/ Reject(c) \/ Truncate(c) \/ Write(c) \/ WriteFails(c)
  \/ Commit(c) \/ RLock(c) \/ RUnlock(c)

Next ==
  \/ BootFromFile \/ BootWrite \/ BootWriteFails \/ Crash
  \/ \E s \in InitialStates : BootCreate(s)
  \/ \E c \in Client : \/ Read(c) \/ ClientStep(c)
                       \/ \E t \in Requests : Propose(c, t)

(***************************************************************************)
(* A goroutine that can run runs.  A sync.RWMutex lets no waiter starve: a *)
(* waiting writer keeps new readers out, and Unlock lets the waiting       *)
(* readers in before the next writer; the mutex between writers has a      *)
(* starvation mode.                                                        *)
(***************************************************************************)
Fairness ==
  \A c \in Client : /\ WF_vars(ClientStep(c))
                    /\ SF_vars(Lock(c)) /\ SF_vars(RLock(c))

Spec == Init /\ [][Next]_vars /\ Fairness

-----------------------------------------------------------------------------
TypeOK ==
  /\ node \in {"down", "booting", "nodb", "up"}
  /\ fileIs \in {"absent", "torn", "whole"}
  /\ IsNodeState(file)
  /\ IsNodeState(mem) /\ SchemaValid(mem)
  /\ writer \in Client \cup {NoClient}
  /\ readers \subseteq Client
  /\ pc \in [Client -> PcValues]
  /\ arg \in [Client -> Requests]
  /\ DOMAIN seen = Client /\ \A c \in Client : IsNodeState(seen[c])
  /\ result \in [Client -> {"none", "ok", "error"}]

(***************************************************************************)
(* Once no proposal is under way, the file holds exactly the state in      *)
(* memory, or a write of it has failed half way and it holds nothing that  *)
(* parses.  It never holds an older or a different document, however many  *)
(* writes fail and however often the node restarts.                        *)
(***************************************************************************)
FileMatchesMemory ==
  node = "up" /\ writer = NoClient =>
    fileIs = "torn" \/ (fileIs = "whole" /\ file = mem)

(***************************************************************************)
(* The bytes State() unmarshals are the current state until it returns: no *)
(* proposal commits while a reader holds the lock.                         *)
(***************************************************************************)
ReadersSeeCurrentState == \A c \in readers : seen[c] = mem

(***************************************************************************)
(* Every proposal and every read returns: no path out of them, the         *)
(* rejections and the failed writes included, keeps the lock.              *)
(***************************************************************************)
CallsReturn == \A c \in Client : pc[c] # "idle" ~> pc[c] = "idle"

(***************************************************************************)
(* To its clients, and across crashes, the database is the abstract        *)
(* registry: every change is one accepted transition, a crash keeps all    *)
(* the changes made before it, and of a change under way it keeps          *)
(* everything or nothing.  While the node is down the registry is what the *)
(* next boot will read; a file it cannot read leaves the registry where it *)
(* was, with no boot to come.                                              *)
(***************************************************************************)
Registry == IF node # "up" /\ fileIs = "whole" THEN file ELSE mem
Abstract == INSTANCE NodeRegistry WITH registry <- Registry
ImplementsRegistry == Abstract!Spec

(***************************************************************************)
(* A proposal that returns no error has stored the new state: db_test.go   *)
(* reads the file after one and expects the new user there.  The code      *)
(* returns no error when the write failed, either.                         *)
(***************************************************************************)
AcknowledgedIsStored ==
  [][\A c \in Client : result'[c] = "ok" /\ result[c] # "ok" =>
        fileIs' = "whole" /\ file' = Patch(mem, arg[c])]_vars
=============================================================================
