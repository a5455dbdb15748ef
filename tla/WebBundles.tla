----------------------------- MODULE WebBundles -----------------------------
(***************************************************************************)
(* The web package manager (internal/web/package_manager.go) over one      *)
(* bundle directory.  Installations that are asked for one after the       *)
(* other, at the same time or again at a boot, extract their archive file  *)
(* by file into it ("there is no guard against name conflicts right now"), *)
(* and RemoveAll takes the files away one by one.                          *)
(*                                                                         *)
(* An archive is a sequence of files with a length; the contents of a file *)
(* are a sequence of pieces, each marked with the archive it comes from.   *)
(***************************************************************************)
EXTENDS Naturals, Sequences

CONSTANTS
  Sources,     \* the archives one may download
  Bundle,      \* [Sources -> Seq([name, length])]
  Calls,       \* calls at work at the same time
  MaxInstalls, MaxRemovals, MaxFaults,  \* bounds
  None

Names == UNION {{Bundle[s][i].name : i \in DOMAIN Bundle[s]} : s \in Sources}

ASSUME BundlesAssumption ==
  /\ \A s \in Sources : Bundle[s] \in Seq([name : Names, length : Nat])
  /\ \A s \in Sources : \A i, j \in DOMAIN Bundle[s] : Bundle[s][i].name = Bundle[s][j].name => i = j
  /\ None \notin Sources \cup Seq(Sources \cup {None})

VARIABLES
  exists, files,  \* the directory, and [Names -> its pieces, or None]
  call,           \* [Calls -> the call]
  used,           \* installs, removals and faults so far (bounds)
  served,         \* history: the archive installed last with no other at work
  began           \* history: archives extracted since the last removal

bundleVars == <<exists, files, call, used, served, began>>
dirVars == <<exists, files>>
history == <<served, began>>

Absent == [n \in Names |-> None]

\* todo and failed: the apps still to install and the error; asked and done:
\* history; src and entry: the
\* archive and the file of it; linked: the open file has a name; names: what
\* RemoveAll has read; alone: no other archive and no removal met this install.
IdleCall == [pc |-> "idle", todo |-> {}, asked |-> {}, done |-> {}, failed |-> FALSE, src |-> None, entry |-> 1,
         linked |-> FALSE, pos |-> 0, names |-> {}, alone |-> TRUE]

BundleInit ==
  /\ exists = FALSE /\ files = Absent
  /\ call = [c \in Calls |-> IdleCall]
  /\ used = [installs |-> 0, removals |-> 0, faults |-> 0]
  /\ served = None /\ began = {}

-----------------------------------------------------------------------------
Spend(what, max) == used[what] < max /\ used' = [used EXCEPT ![what] = @ + 1]
Installing(c) == call[c].pc \in {"download", "open", "copy"}
Removing(c) == call[c].pc = "unlink"
Working(c) == Installing(c) \/ Removing(c)
Go(c, pc) == call' = [call EXCEPT ![c].pc = pc]

\* InstallPackage for one app, or RestoreFromState for several.
BeginInstall(c) ==
  \E S \in SUBSET Sources :
    /\ call[c].pc = "idle" /\ S # {}
    /\ Spend("installs", MaxInstalls)
    /\ call' = [call EXCEPT ![c] = [IdleCall EXCEPT !.pc = "next", !.todo = S, !.asked = S]]
    /\ UNCHANGED <<dirVars, history>>

\* The next app, in the order of the map: its directory is made before anything
\* is downloaded.
MakeDirectory(c) ==
  \E s \in call[c].todo :
    LET meets == {d \in Calls \ {c} : Working(d) /\ call[d].src # s}
    IN /\ call[c].pc = "next"
       /\ exists' = TRUE
       /\ call' = [d \in Calls |->
                     IF d = c THEN [call[c] EXCEPT !.pc = "download", !.todo = @ \ {s},
                                      !.src = s, !.entry = 1, !.alone = (meets = {})]
                     ELSE IF d \in meets THEN [call[d] EXCEPT !.alone = FALSE] ELSE call[d]]
       /\ served' = IF served = s THEN s ELSE None
       /\ began' = began \cup {s}
       /\ UNCHANGED <<files, used>>

\* The loop is over.
AnswerRestore(c) ==
  /\ call[c].pc = "next" /\ call[c].todo = {}
  /\ Go(c, "answered")
  /\ UNCHANGED <<dirVars, used, history>>

\* Mutant: the error of the app before is forgotten.
Fail_Forgets(c) ==
  /\ call' = [call EXCEPT ![c].pc = "next", ![c].failed = (call[c].todo = {})]
  /\ UNCHANGED <<dirVars, history>>

\* The error of one app is kept and the loop goes on.
Fail(c) ==
  /\ call' = [call EXCEPT ![c].pc = "next", ![c].failed = TRUE]
  /\ UNCHANGED <<dirVars, history>>

\* The download, an entry of the archive, or the disk.
InstallFails(c) ==
  /\ Installing(c)
  /\ Spend("faults", MaxFaults)
  /\ Fail(c)

Download(c) ==
  /\ call[c].pc = "download"
  /\ Go(c, "open")
  /\ UNCHANGED <<dirVars, used, history>>

Entry(c) == Bundle[call[c].src][call[c].entry]
AtEnd(c) == call[c].entry > Len(Bundle[call[c].src])
Opened(c) == call' = [call EXCEPT ![c].pc = "copy", ![c].linked = TRUE, ![c].pos = 0]

\* Mutant: the file is opened with O_TRUNC.
OpenFile_Truncates(c) ==
  /\ call[c].pc = "open" /\ ~AtEnd(c) /\ exists
  /\ files' = [files EXCEPT ![Entry(c).name] = <<>>]
  /\ Opened(c)
  /\ UNCHANGED <<exists, used, history>>

\* Mutant: the file is opened with O_APPEND.
OpenFile_Appends(c) ==
  LET old == files[Entry(c).name]
  IN /\ call[c].pc = "open" /\ ~AtEnd(c) /\ exists
     /\ files' = [files EXCEPT ![Entry(c).name] = IF @ = None THEN <<>> ELSE @]
     /\ call' = [call EXCEPT ![c].pc = "copy", ![c].linked = TRUE,
                             ![c].pos = IF old = None THEN 0 ELSE Len(old)]
     /\ UNCHANGED <<exists, used, history>>

\* O_CREATE | O_RDWR: a file that is there is opened as it is.
OpenFile(c) ==
  /\ call[c].pc = "open" /\ ~AtEnd(c) /\ exists
  /\ files' = [files EXCEPT ![Entry(c).name] = IF @ = None THEN <<>> ELSE @]
  /\ Opened(c)
  /\ UNCHANGED <<exists, used, history>>

\* The directory was removed meanwhile.
OpenFileFails(c) ==
  /\ call[c].pc = "open" /\ ~AtEnd(c) /\ ~exists
  /\ Fail(c)
  /\ UNCHANGED used

\* Piece number pos + 1 is written over what is there, or after it; a hole
\* reads as zeros.
Written(body, pos, s) ==
  [i \in 1..(IF Len(body) > pos THEN Len(body) ELSE pos + 1) |->
     IF i = pos + 1 THEN s ELSE IF i <= Len(body) THEN body[i] ELSE None]

CopyPiece(c) ==
  /\ call[c].pc = "copy" /\ call[c].pos < Entry(c).length
  /\ files' = IF call[c].linked
              THEN [files EXCEPT ![Entry(c).name] = Written(@, call[c].pos, call[c].src)]
              ELSE files
  /\ call' = [call EXCEPT ![c].pos = @ + 1]
  /\ UNCHANGED <<exists, used, history>>

CloseFile(c) ==
  /\ call[c].pc = "copy" /\ call[c].pos >= Entry(c).length
  /\ call' = [call EXCEPT ![c].pc = "open", ![c].entry = @ + 1]
  /\ UNCHANGED <<dirVars, used, history>>

\* io.EOF: the app is installed.
Extracted(c) ==
  /\ call[c].pc = "open" /\ AtEnd(c)
  /\ call' = [call EXCEPT ![c].pc = "next", ![c].done = @ \cup {call[c].src}]
  /\ served' = IF call[c].alone THEN call[c].src ELSE served
  /\ UNCHANGED <<dirVars, used, began>>

-----------------------------------------------------------------------------
\* UninstallPackage: RemoveAll reads the names, unlinks them one by one and
\* removes the directory, if nothing was put there meanwhile.
Uninstall(c) ==
  /\ call[c].pc = "idle"
  /\ Spend("removals", MaxRemovals)
  /\ IF exists
     THEN /\ call' = [d \in Calls |->
                IF d = c THEN [IdleCall EXCEPT !.pc = "unlink", !.names = {n \in Names : files[n] # None}]
                ELSE [call[d] EXCEPT !.alone = FALSE]]
          /\ served' = None
     ELSE Go(c, "answered") /\ UNCHANGED served
  /\ UNCHANGED <<dirVars, began>>

Unlink(c) ==
  \E n \in call[c].names :
    /\ Removing(c)
    /\ files' = [files EXCEPT ![n] = None]
    /\ call' = [d \in Calls |->
         IF d = c THEN [call[c] EXCEPT !.names = @ \ {n}]
         ELSE IF call[d].pc = "copy" /\ Entry(d).name = n THEN [call[d] EXCEPT !.linked = FALSE]
         ELSE call[d]]
    /\ UNCHANGED <<exists, used, history>>

RemoveDirectory(c) ==
  /\ Removing(c) /\ call[c].names = {}
  /\ exists' = (exists /\ files # Absent)
  /\ call' = [call EXCEPT ![c].pc = "answered", ![c].failed = exists']
  /\ began' = IF exists' THEN began ELSE {call[d].src : d \in {d \in Calls : Installing(d)}}
  /\ UNCHANGED <<files, used, served>>

ReturnCall(c) ==
  /\ call[c].pc = "answered"
  /\ call' = [call EXCEPT ![c] = IdleCall]
  /\ UNCHANGED <<dirVars, used, history>>

\* The process ends; what is on the disk stays.
Crash ==
  /\ Spend("faults", MaxFaults)
  /\ call' = [c \in Calls |-> IdleCall]
  /\ UNCHANGED <<dirVars, history>>

BundleNext ==
  \/ \E c \in Calls :
       \/ BeginInstall(c) \/ MakeDirectory(c) \/ AnswerRestore(c) \/ InstallFails(c)
       \/ Download(c) \/ OpenFile(c) \/ OpenFileFails(c) \/ CopyPiece(c) \/ CloseFile(c)
       \/ Extracted(c) \/ Uninstall(c) \/ Unlink(c) \/ RemoveDirectory(c) \/ ReturnCall(c)
  \/ Crash

BundleSpec == BundleInit /\ [][BundleNext]_bundleVars

-----------------------------------------------------------------------------
IsInstalled == exists

Whole(s, e) == [i \in 1..e.length |-> s]
Exactly(s) ==
  \A n \in Names :
    files[n] = IF \E i \in DOMAIN Bundle[s] : Bundle[s][i].name = n
               THEN Whole(s, Bundle[s][CHOOSE i \in DOMAIN Bundle[s] : Bundle[s][i].name = n])
               ELSE None

\* After an installation that no other archive and no removal met, whatever was
\* in the directory before, its files are there and begin with what the archive
\* holds: what a crash or a failed installation left is repaired.
LastInstallServes ==
  served # None =>
    /\ IsInstalled
    /\ \A i \in DOMAIN Bundle[served] :
         LET e == Bundle[served][i]
         IN files[e.name] # None /\ Len(files[e.name]) >= e.length
              /\ SubSeq(files[e.name], 1, e.length) = Whole(served, e)

\* Installing an archive once more, at a boot or at the same time, takes nothing
\* away from what is being served: the directory is the archive at every step.
ReinstallKeepsServing == served # None /\ began = {served} => Exactly(served)

\* A call that is answered without an error has installed every app it was
\* asked for, whichever of them failed and in whatever order they came.
AnswersAreTrue ==
  \A c \in Calls : call[c].pc = "answered" /\ ~call[c].failed => call[c].asked \subseteq call[c].done

----------------------------------------------------------------------------
\* What follows the code does not keep; TLC refutes it (README, section 4).

\* "Extract the bundle into the specified directory" (package_manager.go:166):
\* after the installation of another archive under the name and version of the
\* one before, the files of the archive are what the archive holds.
ExtractedIsTheBundle ==
  served # None =>
    \A i \in DOMAIN Bundle[served] :
      files[Bundle[served][i].name] = Whole(served, Bundle[served][i])
=============================================================================
