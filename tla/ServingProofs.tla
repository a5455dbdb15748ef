---------------------------- MODULE ServingProofs ----------------------------
(***************************************************************************)
(* Proofs about what a page is served from: of WebBundles, that the files  *)
(* of the last undisturbed installation serve and that installing them     *)
(* again takes nothing away; of ReverseProxy, that the rule that serves a  *)
(* request is the longest match.                                           *)
(***************************************************************************)
EXTENDS WebBundles, ReverseProxy, SequenceTheorems, TLAPS

-----------------------------------------------------------------------------
(***************************************************************************)
(* WebBundles.  The values of its variables come first.                    *)
(***************************************************************************)
CallRecords ==
  [pc : {"idle", "next", "download", "open", "copy", "unlink", "answered"},
   todo : SUBSET Sources, asked : SUBSET Sources, done : SUBSET Sources, failed : BOOLEAN,
   src : Sources \cup {None}, entry : Nat \ {0}, linked : BOOLEAN, pos : Nat,
   names : SUBSET Names, alone : BOOLEAN]

Contents == Seq(Sources \cup {None})

BundleTypeOK ==
  /\ exists \in BOOLEAN
  /\ files \in [Names -> Contents \cup {None}]
  /\ call \in [Calls -> CallRecords]
  /\ used \in [{"installs", "removals", "faults"} -> Nat]
  /\ served \in Sources \cup {None} /\ began \subseteq Sources

(* What a call says of itself: an installation is of an archive that began, *)
(* at a file of it while it copies; a call that is idle or removes was      *)
(* asked for no archive; an answer leaves no app over; and what was asked   *)
(* for and has not failed is installed, being installed or still to come.   *)
Told(c) ==
  /\ Installing(c) => call[c].src \in began
  /\ call[c].pc = "copy" => call[c].entry \in DOMAIN Bundle[call[c].src]
  /\ call[c].pc \in {"idle", "unlink"} => call[c].asked = {} /\ call[c].todo = {}
  /\ Removing(c) => call[c].src = None
  /\ call[c].pc = "answered" => call[c].todo = {}
  /\ ~call[c].failed =>
       call[c].asked \subseteq call[c].todo \cup call[c].done
                          \cup (IF Installing(c) THEN {call[c].src} ELSE {})

(* What the directory says: it has no file when it is gone, a file that is  *)
(* written by its name is there, and no file is longer than an archive that *)
(* began since the last removal has it.                                     *)
InDirectory ==
  /\ ~exists => files = Absent
  /\ \A c \in Calls : call[c].pc = "copy" /\ call[c].linked => files[Entry(c).name] # None
  /\ \A n \in Names : files[n] # None =>
       \E s \in began : \E i \in DOMAIN Bundle[s] :
         Bundle[s][i].name = n /\ Len(files[n]) <= Bundle[s][i].length

(* The file n begins with k pieces of the archive s. *)
Has(s, n, k) ==
  files[n] # None /\ Len(files[n]) >= k /\ \A i \in 1..k : files[n][i] = s

(* Whoever is at work installs the archive s. *)
OnlyAtWork(s) == \A c \in Calls : Working(c) => Installing(c) /\ call[c].src = s

(* An installation that was alone has put what it has read. *)
AloneInv(c) ==
  Installing(c) /\ call[c].alone =>
    /\ exists /\ OnlyAtWork(call[c].src)
    /\ \A i \in DOMAIN Bundle[call[c].src] : i < call[c].entry =>
         Has(call[c].src, Bundle[call[c].src][i].name, Bundle[call[c].src][i].length)
    /\ call[c].pc = "copy" => call[c].linked /\ Has(call[c].src, Entry(c).name, call[c].pos)

(* What is served is there, whoever installs it again. *)
ServedInv ==
  served # None =>
    /\ exists /\ OnlyAtWork(served)
    /\ \A i \in DOMAIN Bundle[served] :
         Has(served, Bundle[served][i].name, Bundle[served][i].length)

BundleInv ==
  /\ BundleTypeOK
  /\ \A c \in Calls : Told(c) /\ AloneInv(c)
  /\ InDirectory
  /\ ServedInv

-----------------------------------------------------------------------------
LEMMA BundleOf ==
  ASSUME NEW s \in Sources
  PROVE  /\ Bundle[s] \in Seq([name : Names, length : Nat])
         /\ DOMAIN Bundle[s] = 1..Len(Bundle[s]) /\ Len(Bundle[s]) \in Nat
         /\ \A i \in DOMAIN Bundle[s] : Bundle[s][i].name \in Names /\ Bundle[s][i].length \in Nat
<1>1. Bundle[s] \in Seq([name : Names, length : Nat])
  BY BundlesAssumption
<1>2. DOMAIN Bundle[s] = 1..Len(Bundle[s]) /\ Len(Bundle[s]) \in Nat
  BY <1>1
<1>3. ASSUME NEW i \in DOMAIN Bundle[s]
      PROVE  Bundle[s][i] \in [name : Names, length : Nat]
  <2>1. i \in 1..Len(Bundle[s])
    BY <1>2
  <2> QED BY <1>1, <2>1, ElementOfSeq
<1> QED BY <1>1, <1>2, <1>3

LEMMA EntryOf ==
  ASSUME BundleTypeOK, NEW c \in Calls, call[c].src \in Sources,
         call[c].entry \in DOMAIN Bundle[call[c].src]
  PROVE  Entry(c).name \in Names /\ Entry(c).length \in Nat
  BY BundleOf DEF Entry

(* The file of an open at c is one of its archive. *)
LEMMA NotAtEnd ==
  ASSUME BundleTypeOK, NEW c \in Calls, call[c].src \in Sources
  PROVE  ~AtEnd(c) <=> call[c].entry \in DOMAIN Bundle[call[c].src]
<1>1. call[c].entry \in Nat \ {0}
  BY DEF BundleTypeOK, CallRecords
<1> QED BY <1>1, BundleOf DEF AtEnd

LEMMA WrittenTyped ==
  ASSUME NEW body \in Contents, NEW pos \in Nat, NEW s \in Sources
  PROVE  /\ Written(body, pos, s) \in Contents
         /\ Written(body, pos, s) # None
         /\ Len(Written(body, pos, s)) = (IF Len(body) > pos THEN Len(body) ELSE pos + 1)
         /\ Len(Written(body, pos, s)) >= Len(body)
         /\ \A i \in 1..Len(body) : Written(body, pos, s)[i] = (IF i = pos + 1 THEN s ELSE body[i])
         /\ Written(body, pos, s)[pos + 1] = s
<1> DEFINE n == IF Len(body) > pos THEN Len(body) ELSE pos + 1
           e(i) == IF i = pos + 1 THEN s ELSE IF i <= Len(body) THEN body[i] ELSE None
<1>1. n \in Nat /\ n >= Len(body) /\ n >= pos + 1 /\ Len(body) \in Nat
  BY DEF Contents
<1>2. \A i \in 1..n : e(i) \in Sources \cup {None}
  BY DEF Contents
<1>3. Written(body, pos, s) = [i \in 1..n |-> e(i)]
  BY DEF Written
<1>4. Written(body, pos, s) \in Seq(Sources \cup {None})
  BY <1>1, <1>2, <1>3
<1>5. Len(Written(body, pos, s)) = n
  BY <1>1, <1>3
<1>6. Written(body, pos, s) # None
  BY <1>4, BundlesAssumption
<1>7. \A i \in 1..n : Written(body, pos, s)[i] = e(i)
  BY <1>3
<1>8. pos + 1 \in 1..n
  BY <1>1
<1> QED BY <1>1, <1>4, <1>5, <1>6, <1>7, <1>8 DEF Contents

(* The type invariant, one action at a time: the record of the call, and *)
(* the files where they are written.                                     *)
LEMMA CallTyped ==
  ASSUME call \in [Calls -> CallRecords], NEW c \in Calls, NEW r \in CallRecords,
         call' = [call EXCEPT ![c] = r]
  PROVE  call' \in [Calls -> CallRecords]
  OBVIOUS

LEMMA FileTyped ==
  ASSUME files \in [Names -> Contents \cup {None}], NEW n \in Names, NEW b \in Contents \cup {None},
         files' = [files EXCEPT ![n] = b]
  PROVE  files' \in [Names -> Contents \cup {None}]
  OBVIOUS

LEMMA Spent ==
  ASSUME used \in [{"installs", "removals", "faults"} -> Nat],
         NEW what \in {"installs", "removals", "faults"}, NEW max, Spend(what, max)
  PROVE  used' \in [{"installs", "removals", "faults"} -> Nat]
  BY DEF Spend

LEMMA IdleTyped == IdleCall \in CallRecords
  BY DEF IdleCall, CallRecords

LEMMA BundleTypeNext == BundleInv /\ [BundleNext]_bundleVars => BundleTypeOK'
<1> SUFFICES ASSUME BundleInv, [BundleNext]_bundleVars PROVE BundleTypeOK'
  OBVIOUS
<1>inv. BundleTypeOK /\ InDirectory /\ \A c \in Calls : Told(c)
  BY DEF BundleInv
<1> USE <1>inv DEF BundleTypeOK
<1>idle. IdleCall \in CallRecords
  BY IdleTyped
<1>rec. \A c \in Calls : call[c] \in CallRecords
  OBVIOUS
<1>1. ASSUME NEW c \in Calls, BeginInstall(c) PROVE BundleTypeOK'
  <2>1. PICK S \in SUBSET Sources :
          /\ Spend("installs", MaxInstalls)
          /\ call' = [call EXCEPT ![c] = [IdleCall EXCEPT !.pc = "next", !.todo = S, !.asked = S]]
          /\ UNCHANGED <<dirVars, history>>
    BY <1>1 DEF BeginInstall
  <2>2. [IdleCall EXCEPT !.pc = "next", !.todo = S, !.asked = S] \in CallRecords
    BY <1>idle DEF CallRecords
  <2>3. call' \in [Calls -> CallRecords]
    BY <2>1, <2>2, CallTyped
  <2>4. used' \in [{"installs", "removals", "faults"} -> Nat]
    BY <2>1, Spent
  <2> QED BY <2>1, <2>3, <2>4 DEF dirVars, history
<1>2. ASSUME NEW c \in Calls, MakeDirectory(c) PROVE BundleTypeOK'
  <2>1. PICK s \in call[c].todo :
          /\ exists' = TRUE
          /\ call' = [d \in Calls |->
                IF d = c THEN [call[c] EXCEPT !.pc = "download", !.todo = @ \ {s},
                                 !.src = s, !.entry = 1,
                                 !.alone = ({e \in Calls \ {c} : Working(e) /\ call[e].src # s} = {})]
                ELSE IF d \in {e \in Calls \ {c} : Working(e) /\ call[e].src # s}
                     THEN [call[d] EXCEPT !.alone = FALSE] ELSE call[d]]
          /\ served' = IF served = s THEN s ELSE None
          /\ began' = began \cup {s}
          /\ UNCHANGED <<files, used>>
    BY <1>2 DEF MakeDirectory
  <2>2. s \in Sources
    BY <2>1, <1>rec DEF CallRecords
  <2>3. \A b \in BOOLEAN : [call[c] EXCEPT !.pc = "download", !.todo = @ \ {s},
                              !.src = s, !.entry = 1, !.alone = b] \in CallRecords
    <3>1. call[c].todo \ {s} \in SUBSET Sources /\ s \in Sources \cup {None} /\ 1 \in Nat \ {0}
      BY <1>rec, <2>2 DEF CallRecords
    <3> QED BY <1>rec, <3>1 DEF CallRecords
  <2>4. \A d \in Calls : [call[d] EXCEPT !.alone = FALSE] \in CallRecords
    BY <1>rec DEF CallRecords
  <2>5. \A d \in Calls : call'[d] \in CallRecords
    BY <2>1, <2>3, <2>4, <1>rec
  <2>6. call' \in [Calls -> CallRecords]
    BY <2>1, <2>5
  <2> QED BY <2>1, <2>2, <2>6
<1>3. ASSUME NEW c \in Calls, AnswerRestore(c) PROVE BundleTypeOK'
  <2>1. [call[c] EXCEPT !.pc = "answered"] \in CallRecords
    BY <1>rec DEF CallRecords
  <2> QED BY <1>3, <2>1 DEF AnswerRestore, Go, dirVars, history
<1>fail. ASSUME NEW c \in Calls, Fail(c) PROVE call' \in [Calls -> CallRecords] /\ UNCHANGED <<dirVars, history>>
  <2>1. [call[c] EXCEPT !.pc = "next", !.failed = TRUE] \in CallRecords
    BY <1>rec DEF CallRecords
  <2> QED BY <1>fail, <2>1 DEF Fail
<1>4. ASSUME NEW c \in Calls, InstallFails(c) PROVE BundleTypeOK'
  <2>1. used' \in [{"installs", "removals", "faults"} -> Nat]
    BY <1>4, Spent DEF InstallFails
  <2> QED BY <1>4, <1>fail, <2>1 DEF InstallFails, dirVars, history
<1>5. ASSUME NEW c \in Calls, Download(c) PROVE BundleTypeOK'
  <2>1. [call[c] EXCEPT !.pc = "open"] \in CallRecords
    BY <1>rec DEF CallRecords
  <2> QED BY <1>5, <2>1 DEF Download, Go, dirVars, history
<1>6. ASSUME NEW c \in Calls, OpenFile(c) PROVE BundleTypeOK'
  <2>1. [call[c] EXCEPT !.pc = "copy", !.linked = TRUE, !.pos = 0] \in CallRecords
    BY <1>rec DEF CallRecords
  <2>2. \A n \in Names : (IF files[n] = None THEN <<>> ELSE files[n]) \in Contents \cup {None}
    BY DEF Contents
  <2>3. files' \in [Names -> Contents \cup {None}]
    BY <1>6, <2>2 DEF OpenFile
  <2>4. call' \in [Calls -> CallRecords]
    BY <1>6, <2>1 DEF OpenFile, Opened
  <2> QED BY <1>6, <2>3, <2>4 DEF OpenFile, history
<1>7. ASSUME NEW c \in Calls, OpenFileFails(c) PROVE BundleTypeOK'
  BY <1>7, <1>fail DEF OpenFileFails, dirVars, history
<1>8. ASSUME NEW c \in Calls, CopyPiece(c) PROVE BundleTypeOK'
  <2>1. [call[c] EXCEPT !.pos = @ + 1] \in CallRecords
    BY <1>rec DEF CallRecords
  <2>2. call' \in [Calls -> CallRecords]
    BY <1>8, <2>1 DEF CopyPiece
  <2>3. files' \in [Names -> Contents \cup {None}]
    <3>1. CASE ~call[c].linked
      BY <1>8, <3>1 DEF CopyPiece
    <3>2. CASE call[c].linked
      <4>1. call[c].pc = "copy" /\ call[c].src \in began
        BY <1>8 DEF CopyPiece, Told, Installing
      <4>2. Entry(c).name \in Names
        BY <4>1, EntryOf DEF Told
      <4>3. files[Entry(c).name] \in Contents
        BY <3>2, <4>1, <4>2 DEF InDirectory
      <4>4. Written(files[Entry(c).name], call[c].pos, call[c].src) \in Contents
        BY <4>1, <4>3, <1>rec, WrittenTyped DEF CallRecords
      <4> QED BY <1>8, <3>2, <4>4 DEF CopyPiece
    <3> QED BY <3>1, <3>2, <1>rec DEF CallRecords
  <2> QED BY <1>8, <2>2, <2>3 DEF CopyPiece, history
<1>9. ASSUME NEW c \in Calls, CloseFile(c) PROVE BundleTypeOK'
  <2>1. [call[c] EXCEPT !.pc = "open", !.entry = @ + 1] \in CallRecords
    <3>1. call[c].entry + 1 \in Nat \ {0}
      BY <1>rec DEF CallRecords
    <3> QED BY <1>rec, <3>1 DEF CallRecords
  <2> QED BY <1>9, <2>1 DEF CloseFile, dirVars, history
<1>10. ASSUME NEW c \in Calls, Extracted(c) PROVE BundleTypeOK'
  <2>1. call[c].src \in Sources
    BY <1>10 DEF Extracted, Told, Installing
  <2>2. [call[c] EXCEPT !.pc = "next", !.done = @ \cup {call[c].src}] \in CallRecords
    BY <1>rec, <2>1 DEF CallRecords
  <2>3. call' \in [Calls -> CallRecords]
    BY <1>10, <2>2 DEF Extracted
  <2> QED BY <1>10, <2>1, <2>3 DEF Extracted, dirVars
<1>11. ASSUME NEW c \in Calls, Uninstall(c) PROVE BundleTypeOK'
  <2>1. [IdleCall EXCEPT !.pc = "unlink", !.names = {n \in Names : files[n] # None}] \in CallRecords
    BY <1>idle DEF CallRecords
  <2>2. \A d \in Calls : [call[d] EXCEPT !.alone = FALSE] \in CallRecords
    BY <1>rec DEF CallRecords
  <2>3. [call[c] EXCEPT !.pc = "answered"] \in CallRecords
    BY <1>rec DEF CallRecords
  <2>4. call' \in [Calls -> CallRecords]
    BY <1>11, <2>1, <2>2, <2>3 DEF Uninstall, Go
  <2>5. used' \in [{"installs", "removals", "faults"} -> Nat]
    BY <1>11, Spent DEF Uninstall
  <2> QED BY <1>11, <2>4, <2>5 DEF Uninstall, dirVars
<1>12. ASSUME NEW c \in Calls, Unlink(c) PROVE BundleTypeOK'
  <2>1. PICK n \in call[c].names :
          /\ files' = [files EXCEPT ![n] = None]
          /\ call' = [d \in Calls |->
               IF d = c THEN [call[c] EXCEPT !.names = @ \ {n}]
               ELSE IF call[d].pc = "copy" /\ Entry(d).name = n THEN [call[d] EXCEPT !.linked = FALSE]
               ELSE call[d]]
          /\ UNCHANGED <<exists, used, history>>
    BY <1>12 DEF Unlink
  <2>2. n \in Names
    BY <2>1, <1>rec DEF CallRecords
  <2>3. [call[c] EXCEPT !.names = @ \ {n}] \in CallRecords
    BY <1>rec DEF CallRecords
  <2>4. \A d \in Calls : [call[d] EXCEPT !.linked = FALSE] \in CallRecords
    BY <1>rec DEF CallRecords
  <2>5. call' \in [Calls -> CallRecords]
    BY <2>1, <2>3, <2>4, <1>rec
  <2>6. files' \in [Names -> Contents \cup {None}]
    BY <2>1, <2>2
  <2> QED BY <2>1, <2>5, <2>6 DEF history
<1>13. ASSUME NEW c \in Calls, RemoveDirectory(c) PROVE BundleTypeOK'
  <2>1. exists' \in BOOLEAN
    BY <1>13 DEF RemoveDirectory
  <2>2. [call[c] EXCEPT !.pc = "answered", !.failed = exists'] \in CallRecords
    BY <1>rec, <2>1 DEF CallRecords
  <2>3. call' \in [Calls -> CallRecords]
    BY <1>13, <2>2 DEF RemoveDirectory
  <2>4. \A d \in Calls : Installing(d) => call[d].src \in Sources
    BY DEF Told
  <2>5. began' \subseteq Sources
    BY <1>13, <2>4 DEF RemoveDirectory
  <2> QED BY <1>13, <2>1, <2>3, <2>5 DEF RemoveDirectory
<1>14. ASSUME NEW c \in Calls, ReturnCall(c) PROVE BundleTypeOK'
  BY <1>14, <1>idle DEF ReturnCall, dirVars, history
<1>15. ASSUME Crash PROVE BundleTypeOK'
  <2>1. used' \in [{"installs", "removals", "faults"} -> Nat]
    BY <1>15, Spent DEF Crash
  <2> QED BY <1>15, <1>idle, <2>1 DEF Crash, dirVars, history
<1>16. ASSUME UNCHANGED bundleVars PROVE BundleTypeOK'
  BY <1>16 DEF bundleVars
<1> QED
  BY <1>1, <1>2, <1>3, <1>4, <1>5, <1>6, <1>7, <1>8, <1>9, <1>10, <1>11, <1>12, <1>13, <1>14,
     <1>15, <1>16 DEF BundleNext

-----------------------------------------------------------------------------
(* What a call says of itself stays true of a call that another one leaves alone. *)
LEMMA ToldKept ==
  ASSUME BundleTypeOK, NEW d \in Calls, Told(d),
         call'[d].pc = call[d].pc, call'[d].todo = call[d].todo,
         call'[d].asked = call[d].asked, call'[d].done = call[d].done,
         call'[d].failed = call[d].failed, call'[d].src = call[d].src,
         call'[d].entry = call[d].entry,
         Installing(d) => call[d].src \in began'
  PROVE  Told(d)'
  BY DEF Told, Installing, Removing

LEMMA ToldNext ==
  ASSUME BundleInv, [BundleNext]_bundleVars, NEW d \in Calls
  PROVE  Told(d)'
<1>inv. BundleTypeOK /\ InDirectory /\ \A c \in Calls : Told(c)
  BY DEF BundleInv
<1>rec. \A c \in Calls : call[c] \in CallRecords
  BY <1>inv DEF BundleTypeOK
<1>fun. call = [c \in Calls |-> call[c]]
  BY <1>inv DEF BundleTypeOK
<1>same. ASSUME call'[d] = call[d], Installing(d) => call[d].src \in began' PROVE Told(d)'
  BY <1>same, <1>inv, ToldKept
<1>1. ASSUME NEW c \in Calls, BeginInstall(c) PROVE Told(d)'
  <2>1. PICK S \in SUBSET Sources :
          /\ Spend("installs", MaxInstalls)
          /\ call' = [call EXCEPT ![c] = [IdleCall EXCEPT !.pc = "next", !.todo = S, !.asked = S]]
          /\ UNCHANGED <<dirVars, history>>
    BY <1>1 DEF BeginInstall
  <2>2. CASE d = c
    <3>1. /\ call'[d].pc = "next" /\ call'[d].todo = S /\ call'[d].asked = S
      BY <1>fun, <2>1, <2>2 DEF IdleCall
    <3> QED BY <3>1 DEF Told, Installing, Removing
  <2>3. CASE d # c
    BY <1>fun, <1>same, <2>1, <2>3, <1>inv DEF Told, history
  <2> QED BY <2>2, <2>3
<1>2. ASSUME NEW c \in Calls, MakeDirectory(c) PROVE Told(d)'
  <2>1. PICK s \in call[c].todo :
          /\ call[c].pc = "next"
          /\ exists' = TRUE
          /\ call' = [e \in Calls |->
                IF e = c THEN [call[c] EXCEPT !.pc = "download", !.todo = @ \ {s},
                                 !.src = s, !.entry = 1,
                                 !.alone = ({a \in Calls \ {c} : Working(a) /\ call[a].src # s} = {})]
                ELSE IF e \in {a \in Calls \ {c} : Working(a) /\ call[a].src # s}
                     THEN [call[e] EXCEPT !.alone = FALSE] ELSE call[e]]
          /\ served' = IF served = s THEN s ELSE None
          /\ began' = began \cup {s}
          /\ UNCHANGED <<files, used>>
    BY <1>2 DEF MakeDirectory
  <2>2. CASE d = c
    <3>1. /\ call'[d].pc = "download" /\ call'[d].todo = call[d].todo \ {s} /\ call'[d].src = s
          /\ call'[d].asked = call[d].asked /\ call'[d].done = call[d].done
          /\ call'[d].failed = call[d].failed
      BY <1>rec, <2>1, <2>2 DEF CallRecords
    <3>2. ~call[d].failed => call[d].asked \subseteq call[d].todo \cup call[d].done
      BY <1>inv, <2>1, <2>2 DEF Told, Installing
    <3>3. s \in began'
      BY <2>1
    <3> QED BY <3>1, <3>2, <3>3 DEF Told, Installing, Removing
  <2>3. CASE d # c
    <3>1. /\ call'[d].pc = call[d].pc /\ call'[d].todo = call[d].todo
          /\ call'[d].asked = call[d].asked /\ call'[d].done = call[d].done
          /\ call'[d].failed = call[d].failed /\ call'[d].src = call[d].src
          /\ call'[d].entry = call[d].entry
      BY <1>rec, <2>1, <2>3 DEF CallRecords
    <3>2. Installing(d) => call[d].src \in began'
      BY <1>inv, <2>1 DEF Told
    <3> QED BY <1>inv, <3>1, <3>2, ToldKept
  <2> QED BY <2>2, <2>3
<1>3. ASSUME NEW c \in Calls, AnswerRestore(c) PROVE Told(d)'
  <2>1. CASE d = c
    <3>1. call[d].todo = {} /\ call'[d] = [call[d] EXCEPT !.pc = "answered"] /\ call[d].pc = "next"
      BY <1>3, <1>fun, <2>1 DEF AnswerRestore, Go
    <3>2. /\ call'[d].pc = "answered" /\ call'[d].todo = {} /\ call'[d].asked = call[d].asked
          /\ call'[d].done = call[d].done /\ call'[d].failed = call[d].failed
      BY <1>rec, <3>1 DEF CallRecords
    <3> QED BY <1>inv, <3>1, <3>2 DEF Told, Installing, Removing
  <2>2. CASE d # c
    BY <1>3, <1>fun, <1>same, <2>2, <1>inv DEF Told, history, AnswerRestore, Go
  <2> QED BY <2>1, <2>2
<1>fail. ASSUME NEW c \in Calls, Fail(c) PROVE Told(d)'
  <2>1. CASE d = c
    <3>1. call'[d].pc = "next" /\ call'[d].failed = TRUE
      BY <1>fail, <1>rec, <1>fun, <2>1 DEF Fail, CallRecords
    <3> QED BY <3>1 DEF Told, Installing, Removing
  <2>2. CASE d # c
    BY <1>fail, <1>fun, <1>same, <2>2, <1>inv DEF Told, history, Fail
  <2> QED BY <2>1, <2>2
<1>4. ASSUME NEW c \in Calls, InstallFails(c) PROVE Told(d)'
  BY <1>4, <1>fail DEF InstallFails
<1>5. ASSUME NEW c \in Calls, Download(c) PROVE Told(d)'
  <2>1. CASE d = c
    <3>1. call[d].pc = "download" /\ call'[d] = [call[d] EXCEPT !.pc = "open"]
      BY <1>5, <1>fun, <2>1 DEF Download, Go
    <3>2. /\ call'[d].pc = "open" /\ call'[d].todo = call[d].todo /\ call'[d].asked = call[d].asked
          /\ call'[d].done = call[d].done /\ call'[d].failed = call[d].failed
          /\ call'[d].src = call[d].src
      BY <1>rec, <3>1 DEF CallRecords
    <3> QED BY <1>5, <1>inv, <3>1, <3>2 DEF Download, history, Told, Installing, Removing
  <2>2. CASE d # c
    BY <1>5, <1>fun, <1>same, <2>2, <1>inv DEF Told, history, Download, Go
  <2> QED BY <2>1, <2>2
<1>6. ASSUME NEW c \in Calls, OpenFile(c) PROVE Told(d)'
  <2>1. CASE d = c
    <3>1. call[d].pc = "open" /\ call'[d] = [call[d] EXCEPT !.pc = "copy", !.linked = TRUE, !.pos = 0]
      BY <1>6, <1>fun, <2>1 DEF OpenFile, Opened
    <3>2. /\ call'[d].pc = "copy" /\ call'[d].todo = call[d].todo /\ call'[d].asked = call[d].asked
          /\ call'[d].done = call[d].done /\ call'[d].failed = call[d].failed
          /\ call'[d].src = call[d].src /\ call'[d].entry = call[d].entry
      BY <1>rec, <3>1 DEF CallRecords
    <3>3. call[d].src \in began /\ began \subseteq Sources
      BY <1>inv, <3>1 DEF Told, Installing, BundleTypeOK
    <3>4. call[d].entry \in DOMAIN Bundle[call[d].src]
      BY <1>6, <1>inv, <2>1, <3>3, NotAtEnd DEF OpenFile
    <3> QED BY <1>6, <1>inv, <3>1, <3>2, <3>3, <3>4 DEF OpenFile, history, Told, Installing, Removing
  <2>2. CASE d # c
    BY <1>6, <1>fun, <1>same, <2>2, <1>inv DEF Told, history, OpenFile, Opened
  <2> QED BY <2>1, <2>2
<1>7. ASSUME NEW c \in Calls, OpenFileFails(c) PROVE Told(d)'
  BY <1>7, <1>fail DEF OpenFileFails
<1>8. ASSUME NEW c \in Calls, CopyPiece(c) PROVE Told(d)'
  <2>1. CASE d = c
    <3>1. call'[d] = [call[d] EXCEPT !.pos = @ + 1] /\ began' = began
      BY <1>8, <1>fun, <2>1 DEF CopyPiece, history
    <3>2. /\ call'[d].pc = call[d].pc /\ call'[d].todo = call[d].todo
          /\ call'[d].asked = call[d].asked /\ call'[d].done = call[d].done
          /\ call'[d].failed = call[d].failed /\ call'[d].src = call[d].src
          /\ call'[d].entry = call[d].entry
      BY <1>rec, <3>1 DEF CallRecords
    <3>3. Installing(d) => call[d].src \in began'
      BY <1>inv, <3>1 DEF Told
    <3> QED BY <1>inv, <3>2, <3>3, ToldKept
  <2>2. CASE d # c
    BY <1>8, <1>fun, <1>same, <2>2, <1>inv DEF Told, history, CopyPiece
  <2> QED BY <2>1, <2>2
<1>9. ASSUME NEW c \in Calls, CloseFile(c) PROVE Told(d)'
  <2>1. CASE d = c
    <3>1. call[d].pc = "copy" /\ call'[d] = [call[d] EXCEPT !.pc = "open", !.entry = @ + 1]
      BY <1>9, <1>fun, <2>1 DEF CloseFile
    <3>2. /\ call'[d].pc = "open" /\ call'[d].todo = call[d].todo /\ call'[d].asked = call[d].asked
          /\ call'[d].done = call[d].done /\ call'[d].failed = call[d].failed
          /\ call'[d].src = call[d].src
      BY <1>rec, <3>1 DEF CallRecords
    <3>3. began' = began /\ Told(d)
      BY <1>9, <1>inv DEF CloseFile, history
    <3> QED BY <3>1, <3>2, <3>3 DEF Told, Installing, Removing
  <2>2. CASE d # c
    BY <1>9, <1>fun, <1>same, <2>2, <1>inv DEF Told, history, CloseFile
  <2> QED BY <2>1, <2>2
<1>10. ASSUME NEW c \in Calls, Extracted(c) PROVE Told(d)'
  <2>1. CASE d = c
    <3>1. call[d].pc = "open" /\ call'[d] = [call[d] EXCEPT !.pc = "next", !.done = @ \cup {call[d].src}]
      BY <1>10, <1>fun, <2>1 DEF Extracted
    <3>2. /\ call'[d].pc = "next" /\ call'[d].todo = call[d].todo /\ call'[d].asked = call[d].asked
          /\ call'[d].done = call[d].done \cup {call[d].src} /\ call'[d].failed = call[d].failed
      BY <1>rec, <3>1 DEF CallRecords
    <3> QED BY <1>inv, <3>1, <3>2 DEF Told, Installing, Removing
  <2>2. CASE d # c
    BY <1>10, <1>fun, <1>same, <2>2, <1>inv DEF Told, Extracted
  <2> QED BY <2>1, <2>2
<1>11. ASSUME NEW c \in Calls, Uninstall(c) PROVE Told(d)'
  <2>0. began' = began
    BY <1>11 DEF Uninstall
  <2>1. CASE exists
    <3>1. CASE d = c
      <4>1. call'[d] = [IdleCall EXCEPT !.pc = "unlink", !.names = {n \in Names : files[n] # None}]
        BY <1>11, <2>1, <3>1 DEF Uninstall
      <4>2. /\ call'[d].pc = "unlink" /\ call'[d].asked = {} /\ call'[d].todo = {}
            /\ call'[d].src = None
        BY <4>1 DEF IdleCall
      <4> QED BY <4>2 DEF Told, Installing, Removing
    <3>2. CASE d # c
      <4>1. call'[d] = [call[d] EXCEPT !.alone = FALSE]
        BY <1>11, <2>1, <3>2 DEF Uninstall
      <4>2. /\ call'[d].pc = call[d].pc /\ call'[d].todo = call[d].todo
            /\ call'[d].asked = call[d].asked /\ call'[d].done = call[d].done
            /\ call'[d].failed = call[d].failed /\ call'[d].src = call[d].src
            /\ call'[d].entry = call[d].entry
        BY <1>rec, <4>1 DEF CallRecords
      <4>3. Installing(d) => call[d].src \in began'
        BY <1>inv, <2>0 DEF Told
      <4> QED BY <1>inv, <4>2, <4>3, ToldKept
    <3> QED BY <3>1, <3>2
  <2>2. CASE ~exists
    <3>1. CASE d = c
      <4>1. call[d].pc = "idle" /\ call'[d] = [call[d] EXCEPT !.pc = "answered"]
        BY <1>11, <1>fun, <2>2, <3>1 DEF Uninstall, Go
      <4>2. call'[d].pc = "answered" /\ call'[d].asked = call[d].asked /\ call'[d].todo = call[d].todo
        BY <1>rec, <4>1 DEF CallRecords
      <4> QED BY <1>inv, <4>1, <4>2 DEF Told, Installing, Removing
    <3>2. CASE d # c
      BY <1>11, <1>fun, <1>same, <1>inv, <2>0, <2>2, <3>2 DEF Told, Uninstall, Go
    <3> QED BY <3>1, <3>2
  <2> QED BY <2>1, <2>2
<1>12. ASSUME NEW c \in Calls, Unlink(c) PROVE Told(d)'
  <2>1. PICK n \in call[c].names :
          /\ call' = [e \in Calls |->
               IF e = c THEN [call[c] EXCEPT !.names = @ \ {n}]
               ELSE IF call[e].pc = "copy" /\ Entry(e).name = n THEN [call[e] EXCEPT !.linked = FALSE]
               ELSE call[e]]
          /\ UNCHANGED <<exists, used, history>>
    BY <1>12 DEF Unlink
  <2>2. /\ call'[d].pc = call[d].pc /\ call'[d].todo = call[d].todo
        /\ call'[d].asked = call[d].asked /\ call'[d].done = call[d].done
        /\ call'[d].failed = call[d].failed /\ call'[d].src = call[d].src
        /\ call'[d].entry = call[d].entry
    BY <1>rec, <2>1 DEF CallRecords
  <2>3. Installing(d) => call[d].src \in began'
    BY <1>inv, <2>1 DEF Told, history
  <2> QED BY <1>inv, <2>2, <2>3, ToldKept
<1>13. ASSUME NEW c \in Calls, RemoveDirectory(c) PROVE Told(d)'
  <2>1. CASE d = c
    <3>1. call[d].pc = "unlink" /\ call'[d].pc = "answered"
          /\ call'[d].todo = call[d].todo /\ call'[d].asked = call[d].asked
      BY <1>13, <1>fun, <1>rec, <2>1 DEF RemoveDirectory, Removing, CallRecords
    <3> QED BY <1>inv, <3>1 DEF Told, Installing, Removing
  <2>2. CASE d # c
    <3>1. call'[d] = call[d]
      BY <1>13, <1>fun, <2>2 DEF RemoveDirectory
    <3>2. Installing(d) => call[d].src \in began'
      BY <1>13, <1>inv DEF RemoveDirectory, Told
    <3> QED BY <1>same, <3>1, <3>2
  <2> QED BY <2>1, <2>2
<1>14. ASSUME NEW c \in Calls, ReturnCall(c) PROVE Told(d)'
  <2>1. CASE d = c
    BY <1>14, <1>fun, <2>1 DEF ReturnCall, IdleCall, Told, Installing, Removing
  <2>2. CASE d # c
    BY <1>14, <1>fun, <1>same, <2>2, <1>inv DEF Told, history, ReturnCall
  <2> QED BY <2>1, <2>2
<1>15. ASSUME Crash PROVE Told(d)'
  BY <1>15 DEF Crash, IdleCall, Told, Installing, Removing
<1>16. ASSUME UNCHANGED bundleVars PROVE Told(d)'
  BY <1>16, <1>same, <1>inv DEF bundleVars, history, Told
<1> QED
  BY <1>1, <1>2, <1>3, <1>4, <1>5, <1>6, <1>7, <1>8, <1>9, <1>10, <1>11, <1>12, <1>13, <1>14,
     <1>15, <1>16 DEF BundleNext

-----------------------------------------------------------------------------
(* What the directory says of itself. *)
LEMMA DirectoryKept ==
  ASSUME InDirectory, BundleTypeOK, UNCHANGED dirVars, began \subseteq began',
         \A d \in Calls : call'[d].pc = "copy" /\ call'[d].linked =>
           /\ call[d].pc = "copy" /\ call[d].linked
           /\ call'[d].src = call[d].src /\ call'[d].entry = call[d].entry
  PROVE  InDirectory'
<1>1. \A d \in Calls : call'[d].pc = "copy" /\ call'[d].linked => Entry(d)' = Entry(d)
  BY DEF Entry
<1> QED BY <1>1 DEF InDirectory, dirVars, Absent

LEMMA DirectoryNext == BundleInv /\ [BundleNext]_bundleVars => InDirectory'
<1> SUFFICES ASSUME BundleInv, [BundleNext]_bundleVars PROVE InDirectory'
  OBVIOUS
<1>inv. BundleTypeOK /\ InDirectory /\ \A c \in Calls : Told(c)
  BY DEF BundleInv
<1>rec. \A c \in Calls : call[c] \in CallRecords
  BY <1>inv DEF BundleTypeOK
<1>fun. call = [c \in Calls |-> call[c]] /\ files = [n \in Names |-> files[n]]
        /\ \A n \in Names : files[n] \in Contents \cup {None}
  BY <1>inv DEF BundleTypeOK
<1>1. ASSUME NEW c \in Calls, BeginInstall(c) PROVE InDirectory'
  <2>1. \A d \in Calls : d = c \/ call'[d] = call[d]
    BY <1>1, <1>fun DEF BeginInstall
  <2>2. call'[c].pc = "next"
    BY <1>1, <1>fun DEF BeginInstall, IdleCall
  <2> QED BY <1>1, <1>inv, <2>1, <2>2, DirectoryKept DEF BeginInstall, history
<1>2. ASSUME NEW c \in Calls, MakeDirectory(c) PROVE InDirectory'
  <2>1. PICK s \in call[c].todo :
          /\ exists' = TRUE
          /\ call' = [e \in Calls |->
                IF e = c THEN [call[c] EXCEPT !.pc = "download", !.todo = @ \ {s},
                                 !.src = s, !.entry = 1,
                                 !.alone = ({a \in Calls \ {c} : Working(a) /\ call[a].src # s} = {})]
                ELSE IF e \in {a \in Calls \ {c} : Working(a) /\ call[a].src # s}
                     THEN [call[e] EXCEPT !.alone = FALSE] ELSE call[e]]
          /\ began' = began \cup {s}
          /\ UNCHANGED <<files, used>>
    BY <1>2 DEF MakeDirectory
  <2>2. call'[c].pc = "download"
    BY <2>1, <1>rec DEF CallRecords
  <2>3. \A d \in Calls : d = c \/ (/\ call'[d].pc = call[d].pc /\ call'[d].linked = call[d].linked
                                   /\ call'[d].src = call[d].src /\ call'[d].entry = call[d].entry)
    BY <2>1, <1>rec DEF CallRecords
  <2>4. \A d \in Calls : call'[d].pc = "copy" => Entry(d)' = Entry(d)
    BY <2>2, <2>3 DEF Entry
  <2>5. ASSUME NEW d \in Calls, call'[d].pc = "copy", call'[d].linked
        PROVE  files'[Entry(d)'.name] # None
    <3>1. d # c /\ call[d].pc = "copy" /\ call[d].linked /\ Entry(d)' = Entry(d)
      BY <2>2, <2>3, <2>4, <2>5
    <3>2. files[Entry(d).name] # None
      BY <1>inv, <3>1 DEF InDirectory
    <3> QED BY <2>1, <3>1, <3>2
  <2>6. ASSUME NEW n \in Names, files'[n] # None
        PROVE  \E a \in began' : \E i \in DOMAIN Bundle[a] :
                 Bundle[a][i].name = n /\ Len(files'[n]) <= Bundle[a][i].length
    BY <1>inv, <2>1, <2>6 DEF InDirectory
  <2>7. exists'
    BY <2>1
  <2> QED BY <2>5, <2>6, <2>7 DEF InDirectory
<1>3. ASSUME NEW c \in Calls, AnswerRestore(c) PROVE InDirectory'
  <2>1. (\A d \in Calls : d = c \/ call'[d] = call[d]) /\ call'[c].pc = "answered"
    BY <1>3, <1>fun, <1>rec DEF AnswerRestore, Go, CallRecords
  <2> QED BY <1>3, <1>inv, <2>1, DirectoryKept DEF AnswerRestore, history
<1>fail. ASSUME NEW c \in Calls, Fail(c) PROVE InDirectory'
  <2>1. (\A d \in Calls : d = c \/ call'[d] = call[d]) /\ call'[c].pc = "next"
    BY <1>fail, <1>fun, <1>rec DEF Fail, CallRecords
  <2> QED BY <1>fail, <1>inv, <2>1, DirectoryKept DEF Fail, history
<1>4. ASSUME NEW c \in Calls, InstallFails(c) PROVE InDirectory'
  BY <1>4, <1>fail DEF InstallFails
<1>5. ASSUME NEW c \in Calls, Download(c) PROVE InDirectory'
  <2>1. (\A d \in Calls : d = c \/ call'[d] = call[d]) /\ call'[c].pc = "open"
    BY <1>5, <1>fun, <1>rec DEF Download, Go, CallRecords
  <2> QED BY <1>5, <1>inv, <2>1, DirectoryKept DEF Download, history
<1>6. ASSUME NEW c \in Calls, OpenFile(c) PROVE InDirectory'
  <2>1. /\ call[c].pc = "open" /\ exists /\ exists' = exists /\ began' = began
        /\ call' = [call EXCEPT ![c].pc = "copy", ![c].linked = TRUE, ![c].pos = 0]
    BY <1>6 DEF OpenFile, Opened, history
  <2>2. call[c].src \in began /\ began \subseteq Sources
    BY <1>inv, <2>1 DEF Told, Installing, BundleTypeOK
  <2>3. call[c].entry \in DOMAIN Bundle[call[c].src]
    BY <1>6, <1>inv, <2>2, NotAtEnd DEF OpenFile
  <2>4. Entry(c).name \in Names /\ Entry(c).length \in Nat
    BY <1>inv, <2>2, <2>3, EntryOf
  <2>5. \A d \in Calls : /\ call'[d].src = call[d].src /\ call'[d].entry = call[d].entry
                         /\ d = c \/ call'[d] = call[d]
    BY <2>1, <1>fun, <1>rec DEF CallRecords
  <2>6. \A d \in Calls : Entry(d)' = Entry(d)
    BY <2>5 DEF Entry
  <2>7. \A n \in Names :
          files'[n] = IF n = Entry(c).name /\ files[n] = None THEN <<>> ELSE files[n]
    BY <1>6, <1>fun, <2>4 DEF OpenFile
  <2>8. <<>> # None
    <3>1. <<>> \in Seq(Sources \cup {None})
      OBVIOUS
    <3> QED BY <3>1, BundlesAssumption
  <2>9. ASSUME NEW d \in Calls, call'[d].pc = "copy", call'[d].linked
        PROVE  files'[Entry(d)'.name] # None
    <3>1. CASE d = c
      BY <2>4, <2>6, <2>7, <2>8, <3>1
    <3>2. CASE d # c
      <4>1. call[d].pc = "copy" /\ call[d].linked
        BY <2>5, <2>9, <3>2
      <4>2. Entry(d).name \in Names /\ files[Entry(d).name] # None
        BY <1>inv, <4>1, EntryOf DEF InDirectory, Told, Installing, BundleTypeOK
      <4> QED BY <2>6, <2>7, <4>2
    <3> QED BY <3>1, <3>2
  <2>10. ASSUME NEW n \in Names, files'[n] # None
         PROVE  \E s \in began : \E i \in DOMAIN Bundle[s] :
                  Bundle[s][i].name = n /\ Len(files'[n]) <= Bundle[s][i].length
    <3>1. CASE n = Entry(c).name /\ files[n] = None
      <4>1. Len(files'[n]) <= Entry(c).length
        BY <2>4, <2>7, <3>1
      <4> QED BY <2>2, <2>3, <3>1, <4>1 DEF Entry
    <3>2. CASE ~(n = Entry(c).name /\ files[n] = None)
      <4>1. files'[n] = files[n]
        BY <2>7, <3>2
      <4> QED BY <1>inv, <2>10, <4>1 DEF InDirectory
    <3> QED BY <3>1, <3>2
  <2> QED BY <2>1, <2>9, <2>10 DEF InDirectory
<1>7. ASSUME NEW c \in Calls, OpenFileFails(c) PROVE InDirectory'
  BY <1>7, <1>fail DEF OpenFileFails
<1>8. ASSUME NEW c \in Calls, CopyPiece(c) PROVE InDirectory'
  <2>1. /\ call[c].pc = "copy" /\ call[c].pos < Entry(c).length
        /\ exists' = exists /\ began' = began
        /\ call' = [call EXCEPT ![c].pos = @ + 1]
    BY <1>8 DEF CopyPiece, history
  <2>2. \A d \in Calls : /\ call'[d].src = call[d].src /\ call'[d].entry = call[d].entry
                         /\ call'[d].pc = call[d].pc /\ call'[d].linked = call[d].linked
    BY <2>1, <1>fun, <1>rec DEF CallRecords
  <2>3. CASE ~call[c].linked
    BY <1>8, <1>inv, <2>1, <2>2, <2>3, DirectoryKept DEF CopyPiece, dirVars
  <2>4. CASE call[c].linked
    <3>1. call[c].src \in began /\ began \subseteq Sources
          /\ call[c].entry \in DOMAIN Bundle[call[c].src]
      BY <1>inv, <2>1 DEF Told, Installing, BundleTypeOK
    <3>2. Entry(c).name \in Names /\ Entry(c).length \in Nat
      BY <1>inv, <3>1, EntryOf
    <3>3. files[Entry(c).name] \in Contents /\ files[Entry(c).name] # None
      BY <1>inv, <1>fun, <2>1, <2>4, <3>2 DEF InDirectory
    <3>4. \A n \in Names : files'[n] = IF n = Entry(c).name
                             THEN Written(files[n], call[c].pos, call[c].src) ELSE files[n]
      BY <1>8, <1>fun, <2>4, <3>2 DEF CopyPiece
    <3>5. PICK pos \in Nat, src \in Sources, body \in Contents :
            pos = call[c].pos /\ src = call[c].src /\ body = files[Entry(c).name]
      BY <1>rec, <3>1, <3>3 DEF CallRecords
    <3>6. /\ Written(body, pos, src) # None
          /\ Len(Written(body, pos, src)) = (IF Len(body) > pos THEN Len(body) ELSE pos + 1)
      BY WrittenTyped
    <3>7. files'[Entry(c).name] = Written(body, pos, src)
      BY <3>2, <3>4, <3>5
    <3>8. \A d \in Calls : Entry(d)' = Entry(d)
      BY <2>2 DEF Entry
    <3>9. exists
      BY <1>inv, <3>2, <3>3 DEF InDirectory, Absent
    <3>10. ASSUME NEW d \in Calls, call'[d].pc = "copy", call'[d].linked
           PROVE  files'[Entry(d)'.name] # None
      <4>1. call[d].pc = "copy" /\ call[d].linked
        BY <2>2, <3>10
      <4>2. Entry(d).name \in Names /\ files[Entry(d).name] # None
        BY <1>inv, <4>1, EntryOf DEF InDirectory, Told, Installing, BundleTypeOK
      <4> QED BY <3>4, <3>6, <3>7, <3>8, <4>2
    <3>11. ASSUME NEW n \in Names, files'[n] # None
           PROVE  \E s \in began : \E i \in DOMAIN Bundle[s] :
                    Bundle[s][i].name = n /\ Len(files'[n]) <= Bundle[s][i].length
      <4>1. CASE n = Entry(c).name /\ Len(body) <= pos
        <5>1. Len(files'[n]) <= Entry(c).length
          <6>1. Len(files'[n]) = pos + 1
            BY <3>6, <3>7, <4>1 DEF Contents
          <6> QED BY <2>1, <3>2, <3>5, <6>1
        <5> QED BY <3>1, <4>1, <5>1 DEF Entry
      <4>2. CASE n = Entry(c).name /\ Len(body) > pos
        <5>1. Len(files'[n]) = Len(files[n]) /\ files[n] # None
          BY <3>3, <3>5, <3>6, <3>7, <4>2
        <5> QED BY <1>inv, <5>1 DEF InDirectory
      <4>3. CASE n # Entry(c).name
        BY <1>inv, <3>4, <3>11, <4>3 DEF InDirectory
      <4>4. Len(body) \in Nat
        BY DEF Contents
      <4> QED BY <4>1, <4>2, <4>3, <4>4
    <3> QED BY <2>1, <3>9, <3>10, <3>11 DEF InDirectory
  <2> QED BY <2>3, <2>4
<1>9. ASSUME NEW c \in Calls, CloseFile(c) PROVE InDirectory'
  <2>1. (\A d \in Calls : d = c \/ call'[d] = call[d]) /\ call'[c].pc = "open"
    BY <1>9, <1>fun, <1>rec DEF CloseFile, CallRecords
  <2> QED BY <1>9, <1>inv, <2>1, DirectoryKept DEF CloseFile, history
<1>10. ASSUME NEW c \in Calls, Extracted(c) PROVE InDirectory'
  <2>1. (\A d \in Calls : d = c \/ call'[d] = call[d]) /\ call'[c].pc = "next"
    BY <1>10, <1>fun, <1>rec DEF Extracted, CallRecords
  <2> QED BY <1>10, <1>inv, <2>1, DirectoryKept DEF Extracted
<1>11. ASSUME NEW c \in Calls, Uninstall(c) PROVE InDirectory'
  <2>1. \A d \in Calls : call'[d].pc = "copy" =>
          /\ call[d].pc = "copy" /\ call'[d].linked = call[d].linked
          /\ call'[d].src = call[d].src /\ call'[d].entry = call[d].entry
    <3>1. CASE exists
      <4>1. call'[c].pc = "unlink"
        BY <1>11, <3>1 DEF Uninstall, IdleCall
      <4>2. \A d \in Calls : d = c \/ call'[d] = [call[d] EXCEPT !.alone = FALSE]
        BY <1>11, <3>1 DEF Uninstall
      <4> QED BY <1>rec, <4>1, <4>2 DEF CallRecords
    <3>2. CASE ~exists
      BY <1>11, <1>fun, <1>rec, <3>2 DEF Uninstall, Go, CallRecords
    <3> QED BY <3>1, <3>2
  <2> QED BY <1>11, <1>inv, <2>1, DirectoryKept DEF Uninstall
<1>12. ASSUME NEW c \in Calls, Unlink(c) PROVE InDirectory'
  <2>1. PICK n \in call[c].names :
          /\ call[c].pc = "unlink"
          /\ files' = [files EXCEPT ![n] = None]
          /\ call' = [e \in Calls |->
               IF e = c THEN [call[c] EXCEPT !.names = @ \ {n}]
               ELSE IF call[e].pc = "copy" /\ Entry(e).name = n THEN [call[e] EXCEPT !.linked = FALSE]
               ELSE call[e]]
          /\ UNCHANGED <<exists, used, history>>
    BY <1>12 DEF Unlink, Removing
  <2>2. \A d \in Calls : /\ call'[d].src = call[d].src /\ call'[d].entry = call[d].entry
                         /\ call'[d].pc = call[d].pc
                         /\ call'[d].linked => call[d].linked
                         /\ call'[d].linked /\ call[d].pc = "copy" => Entry(d).name # n
    BY <2>1, <1>rec DEF CallRecords
  <2>3. \A m \in Names : files'[m] = IF m = n THEN None ELSE files[m]
    BY <2>1, <1>fun
  <2>4. files' \in [Names -> Contents \cup {None}] /\ files' = [m \in Names |-> files'[m]]
    BY <2>1, <1>inv DEF BundleTypeOK
  <2>5. ~exists => files' = Absent
    <3>1. ~exists => \A m \in Names : files'[m] = None
      BY <1>inv, <2>3 DEF InDirectory, Absent
    <3> QED BY <2>4, <3>1 DEF Absent
  <2>6. ASSUME NEW d \in Calls, call'[d].pc = "copy", call'[d].linked
        PROVE  files'[Entry(d)'.name] # None
    <3>1. Entry(d)' = Entry(d)
      BY <2>2 DEF Entry
    <3>2. call[d].pc = "copy" /\ call[d].linked /\ Entry(d).name # n
      BY <2>2, <2>6
    <3>3. Entry(d).name \in Names /\ files[Entry(d).name] # None
      BY <1>inv, <3>2, EntryOf DEF InDirectory, Told, Installing, BundleTypeOK
    <3> QED BY <2>3, <3>1, <3>2, <3>3
  <2>7. ASSUME NEW m \in Names, files'[m] # None
        PROVE  \E s \in began : \E i \in DOMAIN Bundle[s] :
                 Bundle[s][i].name = m /\ Len(files'[m]) <= Bundle[s][i].length
    BY <1>inv, <2>3, <2>7 DEF InDirectory
  <2> QED BY <2>1, <2>5, <2>6, <2>7 DEF InDirectory, history
<1>13. ASSUME NEW c \in Calls, RemoveDirectory(c) PROVE InDirectory'
  <2>1. (\A d \in Calls : d = c \/ call'[d] = call[d]) /\ call'[c].pc = "answered"
    BY <1>13, <1>fun, <1>rec DEF RemoveDirectory, CallRecords
  <2>2. exists' = (exists /\ files # Absent) /\ files' = files
    BY <1>13 DEF RemoveDirectory
  <2>3. \A d \in Calls : call'[d].pc = "copy" => call'[d] = call[d] /\ Entry(d)' = Entry(d)
    BY <2>1 DEF Entry
  <2>4. CASE exists'
    <3>1. began' = began
      BY <1>13, <2>4 DEF RemoveDirectory
    <3>2. \A d \in Calls : call'[d].pc = "copy" /\ call'[d].linked => files'[Entry(d)'.name] # None
      BY <1>inv, <2>2, <2>3 DEF InDirectory
    <3> QED BY <1>inv, <2>2, <2>4, <3>1, <3>2 DEF InDirectory
  <2>5. CASE ~exists'
    <3>1. files = Absent
      BY <1>inv, <2>2, <2>5 DEF InDirectory
    <3>2. \A n \in Names : files[n] = None
      BY <3>1 DEF Absent
    <3>3. \A d \in Calls : ~(call[d].pc = "copy" /\ call[d].linked)
      BY <1>inv, <3>2, EntryOf DEF InDirectory, Told, Installing, BundleTypeOK
    <3> QED BY <2>2, <2>3, <3>1, <3>2, <3>3 DEF InDirectory, Absent
  <2> QED BY <2>4, <2>5
<1>14. ASSUME NEW c \in Calls, ReturnCall(c) PROVE InDirectory'
  <2>1. (\A d \in Calls : d = c \/ call'[d] = call[d]) /\ call'[c].pc = "idle"
    BY <1>14, <1>fun, <1>rec DEF ReturnCall, IdleCall
  <2> QED BY <1>14, <1>inv, <2>1, DirectoryKept DEF ReturnCall, history
<1>15. ASSUME Crash PROVE InDirectory'
  <2>1. \A d \in Calls : call'[d].pc = "idle"
    BY <1>15 DEF Crash, IdleCall
  <2> QED BY <1>15, <1>inv, <2>1, DirectoryKept DEF Crash, history
<1>16. ASSUME UNCHANGED bundleVars PROVE InDirectory'
  BY <1>16, <1>inv, DirectoryKept DEF bundleVars, dirVars, history
<1> QED
  BY <1>1, <1>2, <1>3, <1>4, <1>5, <1>6, <1>7, <1>8, <1>9, <1>10, <1>11, <1>12, <1>13, <1>14,
     <1>15, <1>16 DEF BundleNext

-----------------------------------------------------------------------------
(* What a step makes of a call that is at work after it. *)
LEMMA AtWork ==
  ASSUME BundleInv, [BundleNext]_bundleVars, NEW d \in Calls, Working(d)'
  PROVE  \/ MakeDirectory(d)
         \/ Uninstall(d) /\ exists
         \/ Download(d) \/ OpenFile(d) \/ CopyPiece(d) \/ CloseFile(d)
         \/ call'[d] = call[d]
         \/ call'[d] = [call[d] EXCEPT !.alone = FALSE]
         \/ (\E c \in Calls : Unlink(c)) /\ (/\ call'[d].pc = call[d].pc
                                             /\ call'[d].src = call[d].src
                                             /\ call'[d].alone = call[d].alone)
<1> DEFINE Goal == \/ MakeDirectory(d)
                   \/ Uninstall(d) /\ exists
                   \/ Download(d) \/ OpenFile(d) \/ CopyPiece(d) \/ CloseFile(d)
                   \/ call'[d] = call[d]
                   \/ call'[d] = [call[d] EXCEPT !.alone = FALSE]
                   \/ (\E c \in Calls : Unlink(c)) /\ (/\ call'[d].pc = call[d].pc
                                                       /\ call'[d].src = call[d].src
                                                       /\ call'[d].alone = call[d].alone)
<1>rec. \A c \in Calls : call[c] \in CallRecords
  BY DEF BundleInv, BundleTypeOK
<1>fun. call = [c \in Calls |-> call[c]]
  BY DEF BundleInv, BundleTypeOK
<1>pc. call'[d].pc \in {"download", "open", "copy", "unlink"}
  BY DEF Working, Installing, Removing
<1>1. ASSUME NEW c \in Calls, BeginInstall(c) PROVE Goal
  <2>1. CASE d = c
    BY <1>1, <1>fun, <1>pc, <2>1 DEF BeginInstall, IdleCall
  <2>2. CASE d # c
    BY <1>1, <1>fun, <2>2 DEF BeginInstall
  <2> QED BY <2>1, <2>2
<1>2. ASSUME NEW c \in Calls, MakeDirectory(c) PROVE Goal
  <2>1. CASE d = c
    BY <1>2, <2>1
  <2>2. CASE d # c
    BY <1>2, <2>2 DEF MakeDirectory
  <2> QED BY <2>1, <2>2
<1>3. ASSUME NEW c \in Calls, AnswerRestore(c) PROVE Goal
  <2>1. call'[c].pc = "answered" /\ (d # c => call'[d] = call[d])
    BY <1>3, <1>fun, <1>rec DEF AnswerRestore, Go, CallRecords
  <2> QED BY <2>1, <1>pc
<1>fail. ASSUME NEW c \in Calls, Fail(c) PROVE Goal
  <2>1. call'[c].pc = "next" /\ (d # c => call'[d] = call[d])
    BY <1>fail, <1>fun, <1>rec DEF Fail, CallRecords
  <2> QED BY <2>1, <1>pc
<1>4. ASSUME NEW c \in Calls, InstallFails(c) PROVE Goal
  BY <1>4, <1>fail DEF InstallFails
<1>5. ASSUME NEW c \in Calls, Download(c) PROVE Goal
  BY <1>5, <1>fun DEF Download, Go
<1>6. ASSUME NEW c \in Calls, OpenFile(c) PROVE Goal
  BY <1>6, <1>fun DEF OpenFile, Opened
<1>7. ASSUME NEW c \in Calls, OpenFileFails(c) PROVE Goal
  BY <1>7, <1>fail DEF OpenFileFails
<1>8. ASSUME NEW c \in Calls, CopyPiece(c) PROVE Goal
  BY <1>8, <1>fun DEF CopyPiece
<1>9. ASSUME NEW c \in Calls, CloseFile(c) PROVE Goal
  BY <1>9, <1>fun DEF CloseFile
<1>10. ASSUME NEW c \in Calls, Extracted(c) PROVE Goal
  <2>1. call'[c].pc = "next" /\ (d # c => call'[d] = call[d])
    BY <1>10, <1>fun, <1>rec DEF Extracted, CallRecords
  <2> QED BY <2>1, <1>pc
<1>11. ASSUME NEW c \in Calls, Uninstall(c) PROVE Goal
  <2>1. CASE d = c /\ ~exists
    <3>1. call'[d].pc = "answered"
      BY <1>11, <1>fun, <1>rec, <2>1 DEF Uninstall, Go, CallRecords
    <3> QED BY <3>1, <1>pc
  <2>2. CASE d # c
    <3>1. CASE exists
      BY <1>11, <2>2, <3>1 DEF Uninstall
    <3>2. CASE ~exists
      BY <1>11, <1>fun, <2>2, <3>2 DEF Uninstall, Go
    <3> QED BY <3>1, <3>2
  <2> QED BY <1>11, <2>1, <2>2
<1>12. ASSUME NEW c \in Calls, Unlink(c) PROVE Goal
  <2>1. PICK n \in call[c].names :
          call' = [e \in Calls |->
             IF e = c THEN [call[c] EXCEPT !.names = @ \ {n}]
             ELSE IF call[e].pc = "copy" /\ Entry(e).name = n THEN [call[e] EXCEPT !.linked = FALSE]
             ELSE call[e]]
    BY <1>12 DEF Unlink
  <2>2. call'[d].pc = call[d].pc /\ call'[d].src = call[d].src /\ call'[d].alone = call[d].alone
    BY <2>1, <1>rec DEF CallRecords
  <2> QED BY <1>12, <2>2
<1>13. ASSUME NEW c \in Calls, RemoveDirectory(c) PROVE Goal
  <2>1. call'[c].pc = "answered" /\ (d # c => call'[d] = call[d])
    BY <1>13, <1>fun, <1>rec DEF RemoveDirectory, CallRecords
  <2> QED BY <2>1, <1>pc
<1>14. ASSUME NEW c \in Calls, ReturnCall(c) PROVE Goal
  <2>1. call'[c].pc = "idle" /\ (d # c => call'[d] = call[d])
    BY <1>14, <1>fun DEF ReturnCall, IdleCall
  <2> QED BY <2>1, <1>pc
<1>15. ASSUME Crash PROVE Goal
  BY <1>15, <1>pc DEF Crash, IdleCall
<1>16. ASSUME UNCHANGED bundleVars PROVE Goal
  BY <1>16 DEF bundleVars
<1>17. Goal
  BY <1>1, <1>2, <1>3, <1>4, <1>5, <1>6, <1>7, <1>8, <1>9, <1>10, <1>11, <1>12, <1>13, <1>14,
     <1>15, <1>16 DEF BundleNext
<1> QED BY <1>17

(* ... and it was at work on the same archive, when it does not begin now. *)
LEMMA StillAtWork ==
  ASSUME BundleInv, [BundleNext]_bundleVars, NEW d \in Calls, Working(d)',
         ~MakeDirectory(d), ~(Uninstall(d) /\ exists)
  PROVE  /\ Working(d) /\ call'[d].src = call[d].src
         /\ Installing(d) <=> Installing(d)'
         /\ call'[d].alone => call[d].alone
<1>rec. call[d] \in CallRecords
  BY DEF BundleInv, BundleTypeOK
<1>fun. call = [c \in Calls |-> call[c]]
  BY DEF BundleInv, BundleTypeOK
<1> DEFINE Goal == /\ Working(d) /\ call'[d].src = call[d].src
                   /\ Installing(d) <=> Installing(d)'
                   /\ call'[d].alone => call[d].alone
<1>1. CASE Download(d)
  <2>1. call[d].pc = "download" /\ call'[d] = [call[d] EXCEPT !.pc = "open"]
    BY <1>1, <1>fun DEF Download, Go
  <2> QED BY <1>rec, <2>1 DEF CallRecords, Working, Installing
<1>2. CASE OpenFile(d)
  <2>1. call[d].pc = "open" /\ call'[d] = [call[d] EXCEPT !.pc = "copy", !.linked = TRUE, !.pos = 0]
    BY <1>2, <1>fun DEF OpenFile, Opened
  <2> QED BY <1>rec, <2>1 DEF CallRecords, Working, Installing
<1>3. CASE CopyPiece(d)
  <2>1. call[d].pc = "copy" /\ call'[d] = [call[d] EXCEPT !.pos = @ + 1]
    BY <1>3, <1>fun DEF CopyPiece
  <2> QED BY <1>rec, <2>1 DEF CallRecords, Working, Installing
<1>4. CASE CloseFile(d)
  <2>1. call[d].pc = "copy" /\ call'[d] = [call[d] EXCEPT !.pc = "open", !.entry = @ + 1]
    BY <1>4, <1>fun DEF CloseFile
  <2> QED BY <1>rec, <2>1 DEF CallRecords, Working, Installing
<1>5. CASE call'[d] = call[d]
  BY <1>5 DEF Working, Installing, Removing
<1>6. CASE call'[d] = [call[d] EXCEPT !.alone = FALSE]
  BY <1>rec, <1>6 DEF CallRecords, Working, Installing, Removing
<1>7. CASE call'[d].pc = call[d].pc /\ call'[d].src = call[d].src /\ call'[d].alone = call[d].alone
  BY <1>7 DEF Working, Installing, Removing
<1> QED BY <1>1, <1>2, <1>3, <1>4, <1>5, <1>6, <1>7, AtWork

LEMMA OnlyKept ==
  ASSUME BundleInv, [BundleNext]_bundleVars, NEW s \in Sources, OnlyAtWork(s),
         \A d \in Calls : MakeDirectory(d) => call'[d].src = s /\ Installing(d)',
         \A d \in Calls : ~(Uninstall(d) /\ exists)
  PROVE  OnlyAtWork(s)'
<1> SUFFICES ASSUME NEW d \in Calls, Working(d)' PROVE Installing(d)' /\ call'[d].src = s
  BY DEF OnlyAtWork
<1>1. CASE MakeDirectory(d)
  BY <1>1
<1>2. CASE ~MakeDirectory(d)
  <2>1. Working(d) /\ call'[d].src = call[d].src /\ (Installing(d) <=> Installing(d)')
    BY <1>2, StillAtWork
  <2>2. Installing(d) /\ call[d].src = s
    BY <2>1 DEF OnlyAtWork
  <2> QED BY <2>1, <2>2
<1> QED BY <1>1, <1>2

-----------------------------------------------------------------------------
(* While one archive only is at work, what the files have of it stays. *)
LEMMA HasKept ==
  ASSUME NEW s \in Sources, NEW n \in Names, NEW k \in Nat, Has(s, n, k),
         files[n] \in Contents, files'[n] \in Contents, files'[n] # None,
         Len(files'[n]) >= Len(files[n]),
         \A i \in 1..Len(files[n]) : files'[n][i] = s \/ files'[n][i] = files[n][i]
  PROVE  Has(s, n, k)'
<1>1. Len(files[n]) \in Nat /\ Len(files'[n]) \in Nat
  BY DEF Contents
<1> QED BY <1>1 DEF Has

LEMMA FilesKept ==
  ASSUME BundleInv, [BundleNext]_bundleVars, NEW s \in Sources, OnlyAtWork(s),
         NEW n \in Names, NEW k \in Nat, Has(s, n, k)
  PROVE  Has(s, n, k)'
<1>inv. BundleTypeOK /\ InDirectory /\ \A c \in Calls : Told(c)
  BY DEF BundleInv
<1>rec. \A c \in Calls : call[c] \in CallRecords
  BY <1>inv DEF BundleTypeOK
<1>fun. files = [m \in Names |-> files[m]] /\ \A m \in Names : files[m] \in Contents \cup {None}
  BY <1>inv DEF BundleTypeOK
<1>n. files[n] # None /\ files[n] \in Contents
  BY <1>fun DEF Has
<1>same. ASSUME files' = files PROVE Has(s, n, k)'
  BY <1>same DEF Has
<1>1. ASSUME NEW c \in Calls, OpenFile(c) PROVE Has(s, n, k)'
  <2>1. call[c].src \in began /\ began \subseteq Sources
    BY <1>1, <1>inv DEF OpenFile, Told, Installing, BundleTypeOK
  <2>2. call[c].entry \in DOMAIN Bundle[call[c].src]
    BY <1>1, <1>inv, <2>1, NotAtEnd DEF OpenFile
  <2>3. Entry(c).name \in Names
    BY <1>inv, <2>1, <2>2, EntryOf
  <2>4. files'[n] = files[n]
    BY <1>1, <1>n, <1>fun, <2>3 DEF OpenFile
  <2> QED BY <2>4 DEF Has
<1>2. ASSUME NEW c \in Calls, CopyPiece(c) PROVE Has(s, n, k)'
  <2>1. call[c].pc = "copy" /\ call[c].src = s
    BY <1>2 DEF CopyPiece, OnlyAtWork, Working, Installing
  <2>2. CASE call[c].linked /\ Entry(c).name = n
    <3>1. PICK pos \in Nat, body \in Contents : pos = call[c].pos /\ body = files[n]
      BY <1>rec, <1>n DEF CallRecords
    <3>2. files'[n] = Written(body, pos, s)
      BY <1>2, <1>fun, <2>1, <2>2, <3>1 DEF CopyPiece
    <3>3. /\ Written(body, pos, s) \in Contents
          /\ Written(body, pos, s) # None
          /\ Len(Written(body, pos, s)) >= Len(body)
          /\ \A i \in 1..Len(body) : Written(body, pos, s)[i] = (IF i = pos + 1 THEN s ELSE body[i])
      BY WrittenTyped
    <3> HIDE <1>2
    <3>4. \A i \in 1..Len(files[n]) : files'[n][i] = s \/ files'[n][i] = files[n][i]
      BY <3>1, <3>2, <3>3
    <3> QED BY <1>n, <3>1, <3>2, <3>3, <3>4, HasKept
  <2>3. CASE ~(call[c].linked /\ Entry(c).name = n)
    <3>1. files'[n] = files[n]
      BY <1>2, <1>fun, <2>3 DEF CopyPiece
    <3> QED BY <3>1 DEF Has
  <2> QED BY <2>2, <2>3
<1>3. ASSUME NEW c \in Calls, Unlink(c) PROVE Has(s, n, k)'
  BY <1>3 DEF Unlink, OnlyAtWork, Working, Installing, Removing
<1>4. ASSUME UNCHANGED bundleVars PROVE Has(s, n, k)'
  BY <1>4, <1>same DEF bundleVars
<1>5. ASSUME NEW c \in Calls,
             BeginInstall(c) \/ MakeDirectory(c) \/ AnswerRestore(c) \/ InstallFails(c)
               \/ Download(c) \/ OpenFileFails(c) \/ CloseFile(c) \/ Extracted(c)
               \/ Uninstall(c) \/ RemoveDirectory(c) \/ ReturnCall(c)
      PROVE  Has(s, n, k)'
  <2>1. files' = files
    BY <1>5 DEF BeginInstall, MakeDirectory, AnswerRestore, InstallFails, Download, OpenFileFails,
                Fail, CloseFile, Extracted, Uninstall, RemoveDirectory, ReturnCall, dirVars
  <2> QED BY <1>same, <2>1
<1>6. ASSUME Crash PROVE Has(s, n, k)'
  BY <1>6, <1>same DEF Crash, dirVars
<1> QED BY <1>1, <1>2, <1>3, <1>4, <1>5, <1>6 DEF BundleNext

(* ... and so does the directory. *)
LEMMA ExistsKept ==
  ASSUME BundleInv, [BundleNext]_bundleVars, NEW s \in Sources, OnlyAtWork(s), exists
  PROVE  exists'
<1>1. ASSUME NEW c \in Calls, RemoveDirectory(c) PROVE exists'
  BY <1>1 DEF RemoveDirectory, OnlyAtWork, Working, Installing, Removing
<1>2. ASSUME NEW c \in Calls,
             BeginInstall(c) \/ AnswerRestore(c) \/ InstallFails(c)
               \/ Download(c) \/ OpenFileFails(c) \/ CloseFile(c) \/ Extracted(c)
               \/ Uninstall(c) \/ Unlink(c) \/ ReturnCall(c) \/ OpenFile(c) \/ CopyPiece(c)
      PROVE  exists'
  BY <1>2 DEF BeginInstall, AnswerRestore, InstallFails, Download, OpenFileFails,
              Fail, CloseFile, Extracted, Uninstall, Unlink, ReturnCall, OpenFile, CopyPiece, dirVars
<1>3. ASSUME NEW c \in Calls, MakeDirectory(c) PROVE exists'
  BY <1>3 DEF MakeDirectory
<1>4. ASSUME Crash \/ UNCHANGED bundleVars PROVE exists'
  BY <1>4 DEF Crash, bundleVars, dirVars
<1> QED BY <1>1, <1>2, <1>3, <1>4 DEF BundleNext

-----------------------------------------------------------------------------
(* What of the archive s, up to its entry e, is in the directory. *)
Put(s, e) ==
  \A i \in DOMAIN Bundle[s] : i < e => Has(s, Bundle[s][i].name, Bundle[s][i].length)

LEMMA PutKept ==
  ASSUME BundleInv, [BundleNext]_bundleVars, NEW s \in Sources, OnlyAtWork(s), NEW e \in Nat, Put(s, e)
  PROVE  Put(s, e)'
<1> SUFFICES ASSUME NEW i \in DOMAIN Bundle[s], i < e
             PROVE  Has(s, Bundle[s][i].name, Bundle[s][i].length)'
  BY DEF Put
<1>1. Has(s, Bundle[s][i].name, Bundle[s][i].length)
  BY DEF Put
<1>2. PICK n \in Names, k \in Nat : n = Bundle[s][i].name /\ k = Bundle[s][i].length
  BY BundleOf
<1>3. Has(s, n, k)'
  BY <1>1, <1>2, FilesKept
<1> QED BY <1>2, <1>3

(* AloneInv with the state of the call taken apart. *)
LEMMA AloneParts ==
  ASSUME NEW d \in Calls, AloneInv(d), Installing(d), call[d].alone, NEW s, s = call[d].src
  PROVE  /\ exists /\ OnlyAtWork(s) /\ Put(s, call[d].entry)
         /\ call[d].pc = "copy" => call[d].linked /\ Has(s, Entry(d).name, call[d].pos)
  BY DEF AloneInv, Put

LEMMA AloneWhole ==
  ASSUME NEW d \in Calls, NEW s, NEW e, s = call'[d].src, e = call'[d].entry,
         exists', OnlyAtWork(s)', Put(s, e)',
         (call[d].pc = "copy" => call[d].linked /\ Has(s, Entry(d).name, call[d].pos))'
  PROVE  AloneInv(d)'
  BY DEF AloneInv, Put
LEMMA AloneNext ==
  ASSUME BundleInv, [BundleNext]_bundleVars, NEW d \in Calls
  PROVE  AloneInv(d)'
<1>inv. BundleTypeOK /\ InDirectory /\ \A c \in Calls : Told(c) /\ AloneInv(c)
  BY DEF BundleInv
<1>rec. \A c \in Calls : call[c] \in CallRecords
  BY <1>inv DEF BundleTypeOK
<1>fun. call = [c \in Calls |-> call[c]] /\ files = [n \in Names |-> files[n]]
        /\ \A n \in Names : files[n] \in Contents \cup {None}
  BY <1>inv DEF BundleTypeOK
<1> SUFFICES ASSUME Installing(d)', call'[d].alone PROVE AloneInv(d)'
  BY DEF AloneInv
<1>w. Working(d)'
  BY DEF Working
<1>1. ASSUME NEW c \in Calls, Uninstall(c), exists PROVE FALSE
  <2>1. CASE d = c
    <3>1. call'[d] = [IdleCall EXCEPT !.pc = "unlink", !.names = {n \in Names : files[n] # None}]
      BY <1>1, <2>1 DEF Uninstall
    <3>2. call'[d].pc = "unlink"
      BY <3>1 DEF IdleCall
    <3> QED BY <3>2 DEF Installing
  <2>2. CASE d # c
    <3>1. call'[d] = [call[d] EXCEPT !.alone = FALSE]
      BY <1>1, <2>2 DEF Uninstall
    <3> QED BY <3>1, <1>rec DEF CallRecords
  <2> QED BY <2>1, <2>2
<1>2. ASSUME NEW c \in Calls, MakeDirectory(c) PROVE AloneInv(d)'
  <2>1. PICK s \in call[c].todo :
          /\ call[c].pc = "next"
          /\ exists' = TRUE
          /\ call' = [e \in Calls |->
                IF e = c THEN [call[c] EXCEPT !.pc = "download", !.todo = @ \ {s},
                                 !.src = s, !.entry = 1,
                                 !.alone = ({a \in Calls \ {c} : Working(a) /\ call[a].src # s} = {})]
                ELSE IF e \in {a \in Calls \ {c} : Working(a) /\ call[a].src # s}
                     THEN [call[e] EXCEPT !.alone = FALSE] ELSE call[e]]
    BY <1>2 DEF MakeDirectory
  <2>2. s \in Sources
    BY <1>rec, <2>1 DEF CallRecords
  <2>3. /\ call'[c].pc = "download" /\ call'[c].src = s /\ call'[c].entry = 1
        /\ call'[c].alone = ({a \in Calls \ {c} : Working(a) /\ call[a].src # s} = {})
    BY <1>rec, <2>1 DEF CallRecords
  <2>4. \A e \in Calls \ {c} : /\ call'[e].pc = call[e].pc /\ call'[e].src = call[e].src
                               /\ call'[e].alone => ~(Working(e) /\ call[e].src # s)
    BY <1>rec, <2>1 DEF CallRecords
  <2>5. \A e \in Calls \ {c} : (Working(e)' <=> Working(e)) /\ (Installing(e)' <=> Installing(e))
    BY <2>4 DEF Working, Installing, Removing
  <2>6. \A e \in Calls : Removing(e) => call[e].src # s
    BY <1>inv, <2>2, BundlesAssumption DEF Told
  <2>7. Installing(c)'
    BY <2>3 DEF Installing
  <2>8. CASE d = c
    <3>1. \A e \in Calls \ {c} : Working(e) => call[e].src = s
      BY <2>3, <2>8
    <3>2. OnlyAtWork(s)'
      BY <2>3, <2>4, <2>5, <2>6, <2>7, <3>1 DEF OnlyAtWork, Working
    <3>3. Put(s, 1)'
      BY <2>2, BundleOf DEF Put
    <3> QED BY <2>1, <2>3, <2>8, <3>2, <3>3, AloneWhole
  <2>9. CASE d # c
    <3>1. call'[d] = call[d] /\ Working(d) /\ Installing(d) /\ call[d].src = s
      BY <1>w, <2>1, <2>4, <2>5, <2>9 DEF Working
    <3>2. PICK e \in Nat, p \in Nat : e = call[d].entry /\ p = call[d].pos
      BY <1>rec DEF CallRecords
    <3>3. OnlyAtWork(s) /\ Put(s, e)
          /\ (call[d].pc = "copy" => call[d].linked /\ Has(s, Entry(d).name, p))
      BY <1>inv, <3>1, <3>2, AloneParts
    <3>4. OnlyAtWork(s)'
      BY <2>3, <2>4, <2>5, <2>7, <3>3 DEF OnlyAtWork, Working
    <3>5. Put(s, e)'
      BY <2>2, <3>3, PutKept
    <3>6. ASSUME call'[d].pc = "copy" PROVE (call[d].linked /\ Has(s, Entry(d).name, call[d].pos))'
      <4>1. Entry(d)' = Entry(d) /\ call[d].pc = "copy"
        BY <3>1, <3>6 DEF Entry
      <4>2. PICK n \in Names : n = Entry(d).name
        BY <1>inv, <2>2, <3>1, <4>1, EntryOf DEF Told
      <4>3. Has(s, n, p)'
        BY <2>2, <3>3, <4>1, <4>2, FilesKept
      <4> QED BY <3>1, <3>2, <3>3, <4>1, <4>2, <4>3
    <3> QED BY <2>1, <3>1, <3>2, <3>4, <3>5, <3>6, AloneWhole
  <2> QED BY <2>8, <2>9
<1>3. ASSUME \A c \in Calls : ~MakeDirectory(c) /\ ~(Uninstall(c) /\ exists) PROVE AloneInv(d)'
  <2>1. Working(d) /\ call'[d].src = call[d].src /\ Installing(d) /\ call[d].alone
    BY <1>w, <1>3, StillAtWork
  <2>2. PICK s \in Sources : s = call[d].src
    BY <1>inv, <2>1 DEF Told, BundleTypeOK
  <2>3. PICK e \in Nat \ {0}, p \in Nat : e = call[d].entry /\ p = call[d].pos
    BY <1>rec DEF CallRecords
  <2>4. exists /\ OnlyAtWork(s) /\ Put(s, e)
        /\ (call[d].pc = "copy" => call[d].linked /\ Has(s, Entry(d).name, p))
    BY <1>inv, <2>1, <2>2, <2>3, AloneParts
  <2>5. OnlyAtWork(s)' /\ exists'
    BY <1>3, <2>2, <2>4, OnlyKept, ExistsKept
  <2>6. Put(s, e)'
    BY <2>4, PutKept
  <2>7. CASE call'[d] = call[d]
    <3>1. ASSUME call'[d].pc = "copy" PROVE (call[d].linked /\ Has(s, Entry(d).name, call[d].pos))'
      <4>1. Entry(d)' = Entry(d) /\ call[d].pc = "copy"
        BY <2>7, <3>1 DEF Entry
      <4>2. PICK n \in Names : n = Entry(d).name
        BY <1>inv, <2>2, <4>1, EntryOf DEF Told
      <4>3. Has(s, n, p)'
        BY <2>4, <4>1, <4>2, FilesKept
      <4> QED BY <2>3, <2>4, <2>7, <4>1, <4>2, <4>3
    <3> QED BY <2>1, <2>2, <2>3, <2>5, <2>6, <2>7, <3>1, AloneWhole
  <2>8. CASE Download(d)
    <3>1. call'[d] = [call[d] EXCEPT !.pc = "open"]
      BY <2>8, <1>fun DEF Download, Go
    <3>2. call'[d].pc = "open" /\ call'[d].entry = call[d].entry
      BY <1>rec, <3>1 DEF CallRecords
    <3> QED BY <2>1, <2>2, <2>3, <2>5, <2>6, <3>2, AloneWhole
  <2>9. CASE OpenFile(d)
    <3>1. call[d].pc = "open"
          /\ call'[d] = [call[d] EXCEPT !.pc = "copy", !.linked = TRUE, !.pos = 0]
      BY <2>9, <1>fun DEF OpenFile, Opened
    <3>2. /\ call'[d].pc = "copy" /\ call'[d].entry = call[d].entry /\ call'[d].linked
          /\ call'[d].pos = 0
      BY <1>rec, <3>1 DEF CallRecords
    <3>3. call[d].entry \in DOMAIN Bundle[s]
      BY <1>inv, <2>2, <2>9, NotAtEnd DEF OpenFile
    <3>4. PICK n \in Names : n = Entry(d).name
      BY <1>inv, <2>2, <3>3, EntryOf
    <3>5. Entry(d)' = Entry(d)
      BY <2>1, <3>2 DEF Entry
    <3>6. files'[n] # None /\ Len(files'[n]) >= 0
      <4>1. files'[n] = IF files[n] = None THEN <<>> ELSE files[n]
        BY <2>9, <1>fun, <3>4 DEF OpenFile
      <4>2. <<>> \in Contents /\ <<>> # None
        <5>1. <<>> \in Seq(Sources \cup {None})
          OBVIOUS
        <5> QED BY <5>1, BundlesAssumption DEF Contents
      <4>3. files'[n] \in Contents /\ files'[n] # None
        BY <1>fun, <4>1, <4>2
      <4> QED BY <4>3 DEF Contents
    <3>7. Has(s, n, 0)'
      BY <3>6 DEF Has
    <3>8. (call[d].linked /\ Has(s, Entry(d).name, call[d].pos))'
      BY <3>2, <3>4, <3>5, <3>7
    <3> QED BY <2>1, <2>2, <2>3, <2>5, <2>6, <3>2, <3>8, AloneWhole
  <2>10. CASE CopyPiece(d)
    <3>1. call[d].pc = "copy" /\ call'[d] = [call[d] EXCEPT !.pos = @ + 1]
      BY <2>10, <1>fun DEF CopyPiece
    <3>2. /\ call'[d].pc = "copy" /\ call'[d].entry = call[d].entry /\ call'[d].linked = call[d].linked
          /\ call'[d].pos = p + 1
      BY <1>rec, <2>3, <3>1 DEF CallRecords
    <3>3. PICK n \in Names : n = Entry(d).name
      BY <1>inv, <2>2, <3>1, EntryOf DEF Told
    <3>4. Entry(d)' = Entry(d)
      BY <2>1, <3>2 DEF Entry
    <3>5. call[d].linked /\ Has(s, n, p)
      BY <2>4, <3>1, <3>3
    <3>6. PICK body \in Contents : body = files[n]
      BY <1>fun, <3>5 DEF Has
    <3>7. files'[n] = Written(body, p, s)
      BY <2>10, <1>fun, <2>2, <2>3, <3>3, <3>5, <3>6 DEF CopyPiece
    <3>8. /\ Written(body, p, s) \in Contents
          /\ Written(body, p, s) # None
          /\ Len(Written(body, p, s)) = (IF Len(body) > p THEN Len(body) ELSE p + 1)
          /\ \A i \in 1..Len(body) : Written(body, p, s)[i] = (IF i = p + 1 THEN s ELSE body[i])
          /\ Written(body, p, s)[p + 1] = s
      BY WrittenTyped
    <3>9. Len(body) \in Nat /\ Len(body) >= p /\ \A i \in 1..p : body[i] = s
      BY <3>5, <3>6 DEF Has, Contents
    <3>10. /\ Len(Written(body, p, s)) >= p + 1
           /\ \A i \in 1..(p + 1) : Written(body, p, s)[i] = s
      BY <3>8, <3>9
    <3>11. Has(s, n, p + 1)'
      BY <3>7, <3>8, <3>10 DEF Has
    <3>12. (call[d].linked /\ Has(s, Entry(d).name, call[d].pos))'
      BY <3>2, <3>3, <3>4, <3>5, <3>11
    <3> QED BY <2>1, <2>2, <2>3, <2>5, <2>6, <3>2, <3>12, AloneWhole
  <2>11. CASE CloseFile(d)
    <3>1. /\ call[d].pc = "copy" /\ p >= Entry(d).length
          /\ call'[d] = [call[d] EXCEPT !.pc = "open", !.entry = @ + 1]
      BY <2>3, <2>11, <1>fun DEF CloseFile
    <3>2. call'[d].pc = "open" /\ call'[d].entry = e + 1
      BY <1>rec, <2>3, <3>1 DEF CallRecords
    <3>3. PICK n \in Names, k \in Nat : n = Entry(d).name /\ k = Entry(d).length
      BY <1>inv, <2>2, <3>1, EntryOf DEF Told
    <3>4. Has(s, n, p) /\ p >= k
      BY <2>4, <3>1, <3>3
    <3>5. Has(s, n, k)
      <4>1. files[n] \in Contents
        BY <1>fun, <3>4 DEF Has
      <4>2. Len(files[n]) \in Nat
        BY <4>1 DEF Contents
      <4> QED BY <3>4, <4>2 DEF Has
    <3>6. Has(s, n, k)'
      BY <2>4, <3>5, FilesKept
    <3>7. n = Bundle[s][e].name /\ k = Bundle[s][e].length
      BY <2>2, <2>3, <3>3 DEF Entry
    <3>8. Put(s, e + 1)'
      <4> SUFFICES ASSUME NEW i \in DOMAIN Bundle[s], i < e + 1
                   PROVE  Has(s, Bundle[s][i].name, Bundle[s][i].length)'
        BY DEF Put
      <4>1. i \in Nat
        BY BundleOf
      <4>2. CASE i = e
        BY <3>6, <3>7, <4>2
      <4>3. CASE i < e
        BY <2>6, <4>3 DEF Put
      <4> QED BY <2>3, <4>1, <4>2, <4>3
    <3> QED BY <2>1, <2>2, <2>5, <3>2, <3>8, AloneWhole
  <2>12. call'[d] # [call[d] EXCEPT !.alone = FALSE]
    BY <1>rec DEF CallRecords
  <2>13. \A c \in Calls : ~Unlink(c)
    BY <2>4 DEF Unlink, OnlyAtWork, Working, Installing, Removing
  <2> QED BY <1>w, <1>3, <2>7, <2>8, <2>9, <2>10, <2>11, <2>12, <2>13, AtWork
<1> QED BY <1>1, <1>2, <1>3

LEMMA ServedNext == BundleInv /\ [BundleNext]_bundleVars => ServedInv'
<1> SUFFICES ASSUME BundleInv, [BundleNext]_bundleVars, served' # None PROVE ServedInv'
  BY DEF ServedInv
<1>inv. BundleTypeOK /\ (\A c \in Calls : Told(c) /\ AloneInv(c)) /\ ServedInv
  BY DEF BundleInv
<1>rec. \A c \in Calls : call[c] \in CallRecords
  BY <1>inv DEF BundleTypeOK
<1>fun. call = [c \in Calls |-> call[c]]
  BY <1>inv DEF BundleTypeOK
(* What was served before the step and is not disturbed by it. *)
<1>kept. ASSUME NEW s \in Sources, served' = s, exists, OnlyAtWork(s), OnlyAtWork(s)',
                \A i \in DOMAIN Bundle[s] : Has(s, Bundle[s][i].name, Bundle[s][i].length)
         PROVE  ServedInv'
  <2>1. exists'
    BY <1>kept, ExistsKept
  <2>2. ASSUME NEW i \in DOMAIN Bundle[s]
        PROVE  Has(s, Bundle[s][i].name, Bundle[s][i].length)'
    <3>1. PICK n \in Names, k \in Nat : n = Bundle[s][i].name /\ k = Bundle[s][i].length
      BY BundleOf
    <3>2. Has(s, n, k)'
      BY <1>kept, <3>1, FilesKept
    <3> QED BY <3>1, <3>2
  <2> QED BY <1>kept, <2>1, <2>2 DEF ServedInv
<1>0. ASSUME NEW s \in Sources, served = s
      PROVE  exists /\ OnlyAtWork(s)
             /\ \A i \in DOMAIN Bundle[s] : Has(s, Bundle[s][i].name, Bundle[s][i].length)
  BY <1>0, <1>inv, BundlesAssumption DEF ServedInv
<1>1. ASSUME NEW c \in Calls, Uninstall(c), exists PROVE FALSE
  BY <1>1 DEF Uninstall
<1>2. ASSUME NEW c \in Calls, MakeDirectory(c) PROVE ServedInv'
  <2>1. PICK s \in call[c].todo :
          /\ call' = [e \in Calls |->
                IF e = c THEN [call[c] EXCEPT !.pc = "download", !.todo = @ \ {s},
                                 !.src = s, !.entry = 1,
                                 !.alone = ({a \in Calls \ {c} : Working(a) /\ call[a].src # s} = {})]
                ELSE IF e \in {a \in Calls \ {c} : Working(a) /\ call[a].src # s}
                     THEN [call[e] EXCEPT !.alone = FALSE] ELSE call[e]]
          /\ served' = IF served = s THEN s ELSE None
    BY <1>2 DEF MakeDirectory
  <2>2. s \in Sources /\ served = s /\ served' = s
    BY <1>rec, <2>1 DEF CallRecords
  <2>3. call'[c].pc = "download" /\ call'[c].src = s
    BY <1>rec, <2>1 DEF CallRecords
  <2>4. \A e \in Calls \ {c} : call'[e].pc = call[e].pc /\ call'[e].src = call[e].src
    BY <1>rec, <2>1 DEF CallRecords
  <2>5. OnlyAtWork(s)
    BY <1>0, <2>2
  <2>6. OnlyAtWork(s)'
    BY <2>3, <2>4, <2>5 DEF OnlyAtWork, Working, Installing, Removing
  <2> QED BY <1>0, <1>kept, <2>2, <2>6
<1>3. ASSUME \A c \in Calls : ~MakeDirectory(c) /\ ~(Uninstall(c) /\ exists) PROVE ServedInv'
  <2>1. CASE served' = served
    <3>1. PICK s \in Sources : served = s
      BY <1>inv, <2>1 DEF BundleTypeOK
    <3>2. OnlyAtWork(s)'
      BY <1>0, <1>3, <3>1, OnlyKept
    <3> QED BY <1>0, <1>kept, <2>1, <3>1, <3>2
  <2>2. ASSUME NEW c \in Calls, Extracted(c), call[c].alone PROVE ServedInv'
    <3>1. PICK s \in Sources : s = call[c].src
      BY <1>inv, <2>2 DEF Extracted, Told, Installing, BundleTypeOK
    <3>2. served' = s /\ Installing(c) /\ AtEnd(c)
      BY <2>2, <3>1 DEF Extracted, Installing
    <3>3. exists /\ OnlyAtWork(s) /\ Put(s, call[c].entry)
      BY <1>inv, <2>2, <3>1, <3>2, AloneParts
    <3>4. \A i \in DOMAIN Bundle[s] : i < call[c].entry
      BY <1>rec, <3>1, <3>2, BundleOf DEF AtEnd, CallRecords
    <3>5. OnlyAtWork(s)'
      BY <1>3, <3>3, OnlyKept
    <3> QED BY <1>kept, <3>2, <3>3, <3>4, <3>5 DEF Put
  <2>3. served' = served \/ \E c \in Calls : Extracted(c) /\ call[c].alone
    <3>1. ASSUME NEW c \in Calls,
                 BeginInstall(c) \/ AnswerRestore(c) \/ InstallFails(c)
                   \/ Download(c) \/ OpenFileFails(c) \/ CloseFile(c) \/ RemoveDirectory(c)
                   \/ Unlink(c) \/ ReturnCall(c) \/ OpenFile(c) \/ CopyPiece(c)
          PROVE  served' = served
      BY <3>1 DEF BeginInstall, AnswerRestore, InstallFails, Download, OpenFileFails, Fail, CloseFile,
                  RemoveDirectory, Unlink, ReturnCall, OpenFile, CopyPiece, history
    <3>2. ASSUME NEW c \in Calls, Extracted(c)
          PROVE  served' = served \/ \E a \in Calls : Extracted(a) /\ call[a].alone
      BY <3>2 DEF Extracted
    <3>3. ASSUME NEW c \in Calls, Uninstall(c) PROVE served' = served
      BY <1>3, <3>3 DEF Uninstall
    <3>4. ASSUME Crash \/ UNCHANGED bundleVars PROVE served' = served
      BY <3>4 DEF Crash, bundleVars, history
    <3> QED BY <1>3, <3>1, <3>2, <3>3, <3>4 DEF BundleNext
  <2> QED BY <2>1, <2>2, <2>3
<1> QED BY <1>1, <1>2, <1>3

-----------------------------------------------------------------------------
LEMMA BundleInitially == BundleInit => BundleInv
<1> SUFFICES ASSUME BundleInit PROVE BundleInv
  OBVIOUS
<1>1. \A c \in Calls : call[c].pc = "idle" /\ call[c].asked = {} /\ call[c].todo = {}
  BY DEF BundleInit, IdleCall
<1>2. BundleTypeOK
  <2>1. call \in [Calls -> CallRecords]
    BY IdleTyped DEF BundleInit
  <2>2. files \in [Names -> Contents \cup {None}]
    BY DEF BundleInit, Absent
  <2>3. used \in [{"installs", "removals", "faults"} -> Nat]
    BY DEF BundleInit
  <2> QED BY <2>1, <2>2, <2>3 DEF BundleInit, BundleTypeOK
<1>3. \A c \in Calls : Told(c) /\ AloneInv(c)
  BY <1>1 DEF Told, AloneInv, Installing, Removing
<1>4. InDirectory
  BY <1>1 DEF BundleInit, InDirectory, Absent
<1> QED BY <1>2, <1>3, <1>4 DEF BundleInv, BundleInit, ServedInv

LEMMA BundleStep == BundleInv /\ [BundleNext]_bundleVars => BundleInv'
<1> SUFFICES ASSUME BundleInv, [BundleNext]_bundleVars PROVE BundleInv'
  OBVIOUS
<1>1. BundleTypeOK' /\ InDirectory' /\ ServedInv'
  BY BundleTypeNext, DirectoryNext, ServedNext
<1>2. \A c \in Calls : Told(c)' /\ AloneInv(c)'
  BY ToldNext, AloneNext
<1> QED BY <1>1, <1>2 DEF BundleInv

(* The invariant of the package manager. *)
THEOREM BundleInvariance == BundleSpec => []BundleInv
<1>1. BundleInit => BundleInv
  BY BundleInitially
<1>2. BundleInv /\ [BundleNext]_bundleVars => BundleInv'
  BY BundleStep
<1> QED BY <1>1, <1>2, PTL DEF BundleSpec

(* An installation that no other archive and no removal met serves, whatever *)
(* a crash or a failure before it had left in the directory: extractZip      *)
(* writes over what is there and leaves no file of the archive short.        *)
LEMMA ServedServes == BundleInv => LastInstallServes
<1> SUFFICES ASSUME BundleInv, served # None PROVE LastInstallServes
  BY DEF LastInstallServes
<1>1. PICK s \in Sources : s = served
  BY DEF BundleInv, BundleTypeOK
<1>2. exists /\ \A i \in DOMAIN Bundle[s] : Has(s, Bundle[s][i].name, Bundle[s][i].length)
  BY <1>1 DEF BundleInv, ServedInv
<1>3. ASSUME NEW i \in DOMAIN Bundle[s], NEW n, NEW k, n = Bundle[s][i].name, k = Bundle[s][i].length
      PROVE  /\ files[n] # None /\ Len(files[n]) >= k
             /\ SubSeq(files[n], 1, k) = [j \in 1..k |-> s]
  <2>1. n \in Names /\ k \in Nat /\ Has(s, n, k)
    BY <1>2, <1>3, BundleOf
  <2>2. files[n] \in Contents
    BY <2>1 DEF BundleInv, BundleTypeOK, Has
  <2>3. Len(files[n]) \in Nat
    BY <2>2 DEF Contents
  <2>4. SubSeq(files[n], 1, k) = [j \in 1..k |-> s]
    <3>1. \A j \in 1..k : files[n][j] = s
      BY <2>1 DEF Has
    <3>2. k <= Len(files[n]) /\ files[n] \in Seq(Sources \cup {None})
      BY <2>1, <2>2, <2>3 DEF Has, Contents
    <3>3. SubSeq(files[n], 1, k) = [j \in 1..k |-> files[n][j]]
      BY <2>1, <2>3, <3>2
    <3> QED BY <3>1, <3>3
  <2> QED BY <2>1, <2>4 DEF Has
<1> QED BY <1>1, <1>2, <1>3 DEF LastInstallServes, IsInstalled, Whole

\* What was installed last, with no other call at work, is served.
THEOREM LastServes == BundleSpec => []LastInstallServes
<1>1. BundleInv => LastInstallServes
  BY ServedServes
<1> QED BY <1>1, BundleInvariance, PTL

(* What is served is the archive to the last piece while nothing but this *)
(* archive was extracted since the directory was made.                    *)
LEMMA NothingElse == BundleInv => ReinstallKeepsServing
<1> SUFFICES ASSUME BundleInv, served # None, began = {served} PROVE Exactly(served)
  BY DEF ReinstallKeepsServing
<1>1. PICK s \in Sources : s = served
  BY DEF BundleInv, BundleTypeOK
<1>2. \A i \in DOMAIN Bundle[s] : Has(s, Bundle[s][i].name, Bundle[s][i].length)
  BY <1>1 DEF BundleInv, ServedInv
<1>3. \A n \in Names : files[n] # None =>
        \E i \in DOMAIN Bundle[s] : Bundle[s][i].name = n /\ Len(files[n]) <= Bundle[s][i].length
  BY <1>1 DEF BundleInv, InDirectory
<1>4. ASSUME NEW n \in Names
      PROVE  files[n] = IF \E i \in DOMAIN Bundle[s] : Bundle[s][i].name = n
               THEN Whole(s, Bundle[s][CHOOSE i \in DOMAIN Bundle[s] : Bundle[s][i].name = n])
               ELSE None
  <2>1. CASE ~\E i \in DOMAIN Bundle[s] : Bundle[s][i].name = n
    BY <1>3, <2>1
  <2>2. CASE \E i \in DOMAIN Bundle[s] : Bundle[s][i].name = n
    <3> DEFINE j == CHOOSE i \in DOMAIN Bundle[s] : Bundle[s][i].name = n
    <3>1. j \in DOMAIN Bundle[s] /\ Bundle[s][j].name = n
      BY <2>2
    <3> HIDE DEF j
    <3>2. PICK k \in Nat : k = Bundle[s][j].length
      BY <3>1, BundleOf
    <3>3. files[n] # None /\ Len(files[n]) >= k /\ \A i \in 1..k : files[n][i] = s
      BY <1>2, <3>1, <3>2 DEF Has
    <3>4. files[n] \in Seq(Sources \cup {None})
      BY <3>3 DEF BundleInv, BundleTypeOK, Contents
    <3>5. \A i \in DOMAIN Bundle[s] : Bundle[s][i].name = n => i = j
      BY <3>1, BundlesAssumption
    <3>6. Len(files[n]) <= k
      BY <1>3, <3>2, <3>3, <3>5
    <3>7. Len(files[n]) = k
      BY <3>2, <3>3, <3>4, <3>6
    <3>8. files[n] = [i \in 1..k |-> s]
      BY <3>3, <3>4, <3>7
    <3> QED BY <2>2, <3>2, <3>8 DEF Whole, j
  <2> QED BY <2>1, <2>2
<1> QED BY <1>1, <1>4 DEF Exactly

\* Installing once more what is there takes nothing from what is served.
THEOREM ReinstallServes == BundleSpec => []ReinstallKeepsServing
<1>1. BundleInv => ReinstallKeepsServing
  BY NothingElse
<1> QED BY <1>1, BundleInvariance, PTL

(* A call that answers without an error has installed all it was asked for. *)
THEOREM AnswersTrue == BundleSpec => []AnswersAreTrue
<1>1. BundleInv => AnswersAreTrue
  <2> SUFFICES ASSUME BundleInv, NEW c \in Calls, call[c].pc = "answered", ~call[c].failed
               PROVE  call[c].asked \subseteq call[c].done
    BY DEF AnswersAreTrue
  <2> QED BY DEF BundleInv, Told, Installing
<1> QED BY <1>1, BundleInvariance, PTL

-----------------------------------------------------------------------------
(***************************************************************************)
(* ReverseProxy.                                                           *)
(***************************************************************************)
(* What holds of a request that goes through the map, or has done so: the  *)
(* best rule so far matches, no entry that was reached and stayed ranks    *)
(* higher; the entries that stayed are those of the map as it is now.      *)
BestSoFar(r) ==
  /\ r.best # NoRule => r.best \in r.seen /\ Matches(r.best.matcher, r.path)
  /\ \A e \in r.stable : e[1] \notin r.left /\ Matches(e[2].matcher, r.path)
       => r.best # NoRule /\ Rank(e[2]) <= Rank(r.best)

InStep(r) ==
  /\ \A e \in r.stable : rules[e[1]] = e[2]
  /\ \A id \in Present : rules[id] \in r.seen

SearchInv ==
  \A x \in Request :
    /\ req[x].pc # "idle" => BestSoFar(req[x])
    /\ req[x].pc = "search" => InStep(req[x])
    /\ req[x].pc = "done" => \A e \in req[x].stable : e[1] \notin req[x].left

IInv == TypeOK /\ SearchInv

(* Two matchers of one path that have as many slashes are the same. *)
LEMMA SameRankSameMatcher ==
  ASSUME NEW S, NEW p \in Seq(S), NEW m \in Seq(S), NEW n \in Seq(S),
         Matches(m, p), Matches(n, p), Len(m) = Len(n)
  PROVE  m = n
<1>1. \A i \in 1..Len(m) : m[i] = n[i]
  BY DEF Matches
<1> QED BY <1>1, SeqEqual

(* The type invariant holds in every behaviour of the proxy. *)
LEMMA TypeInit == Init => TypeOK
  BY ProxyAssumption DEF Init, TypeOK, Search, Idle, Present

LEMMA ChangeTyped ==
  ASSUME TypeOK, NEW id \in RuleId, NEW rule \in Rule \cup {NoRule}, Change(id, rule),
         rule = NoRule \/ rule.type \in Supported
  PROVE  TypeOK'
<1> USE ProxyAssumption
<1>1. /\ rules' \in [RuleId -> Rule \cup {NoRule}]
      /\ \A i \in RuleId : rules'[i] # NoRule => rules'[i].type \in Supported
  BY DEF Change, TypeOK, Present
<1>2. ASSUME NEW x \in Request PROVE req'[x] \in Search
  <2>1. CASE req[x].pc = "search"
    <3>1. req'[x] = [req[x] EXCEPT !.seen = @ \cup ({rule} \ {NoRule}),
                                   !.stable = {e \in @ : e[1] # id}]
      BY <2>1 DEF Change
    <3>2. req[x] \in Search
      BY DEF TypeOK
    <3>3. /\ req[x].seen \cup ({rule} \ {NoRule}) \in SUBSET Rule
          /\ {e \in req[x].stable : e[1] # id} \in SUBSET (RuleId \X Rule)
      BY <3>2 DEF Search
    <3> QED BY <3>1, <3>2, <3>3 DEF Search
  <2>2. CASE req[x].pc # "search"
    BY <2>2 DEF Change, TypeOK
  <2> QED BY <2>1, <2>2
<1>3. req' \in [Request -> Search]
  BY <1>2 DEF Change
<1>4. changed' \in 0..Changes
  <2>1. changed \in 0..Changes /\ changed < Changes /\ changed' = changed + 1
    BY DEF Change, TypeOK
  <2> QED BY <2>1
<1> QED BY <1>1, <1>3, <1>4 DEF TypeOK, Present

LEMMA TypeNext == TypeOK /\ [Next]_vars => TypeOK'
<1> SUFFICES ASSUME TypeOK, [Next]_vars PROVE TypeOK'
  OBVIOUS
<1> USE ProxyAssumption
<1>1. ASSUME NEW id \in RuleId, NEW rule \in Rule, AddRule(id, rule) PROVE TypeOK'
  BY <1>1, ChangeTyped DEF AddRule
<1>2. ASSUME NEW id \in RuleId, Remove(id) PROVE TypeOK'
  BY <1>2, ChangeTyped DEF Remove
<1>3. ASSUME NEW x \in Request, Begin(x) PROVE TypeOK'
  <2>1. PICK p \in Path : req' = [req EXCEPT ![x] =
           [Idle EXCEPT !.pc = "search", !.path = p, !.left = RuleId,
              !.stable = {<<id, rules[id]>> : id \in Present},
              !.seen = {rules[id] : id \in Present}]]
    BY <1>3 DEF Begin
  <2>2. /\ {<<id, rules[id]>> : id \in Present} \in SUBSET (RuleId \X Rule)
        /\ {rules[id] : id \in Present} \in SUBSET Rule
    BY DEF TypeOK, Present
  <2> QED BY <1>3, <2>1, <2>2 DEF Begin, TypeOK, Search, Idle, Present
<1>4. ASSUME NEW x \in Request, Visit(x) PROVE TypeOK'
  <2>1. PICK id \in req[x].left :
          /\ rules[id] # NoRule
          /\ req' = [req EXCEPT ![x].left = @ \ {id},
                               ![x].best = IF Better(rules[id], req[x]) THEN rules[id] ELSE @]
    BY <1>4 DEF Visit
  <2>2. req[x] \in Search /\ id \in RuleId /\ rules[id] \in Rule
    BY <2>1 DEF TypeOK, Search
  <2>3. req' \in [Request -> Search]
    BY <2>1, <2>2 DEF TypeOK, Search
  <2> QED BY <1>4, <2>3 DEF Visit, TypeOK, Present
<1>5. ASSUME NEW x \in Request, Serve(x) PROVE TypeOK'
  <2>1. Outcome(req[x].best) \in {"404", "forwarded", "500", "served", "200 with an error"}
    BY DEF Outcome
  <2>2. req' \in [Request -> Search]
    <3> DEFINE a == Outcome(req[x].best)
    <3>1. req' = [req EXCEPT ![x].pc = "done", ![x].answer = a]
      BY <1>5 DEF Serve
    <3>2. a \in {"none", "404", "forwarded", "500", "served", "200 with an error"}
      BY <2>1
    <3> HIDE DEF a
    <3> DEFINE r == [req[x] EXCEPT !.pc = "done", !.answer = a]
    <3>3. r \in Search
      BY <3>2 DEF TypeOK, Search
    <3>4. req' = [req EXCEPT ![x] = r]
      BY <3>1 DEF TypeOK
    <3> HIDE DEF r
    <3> QED BY <3>3, <3>4 DEF TypeOK
  <2> QED BY <1>5, <2>2 DEF Serve, TypeOK, Present
<1>6. ASSUME NEW x \in Request, Return(x) PROVE TypeOK'
  BY <1>6 DEF Return, Idle, TypeOK, Search, Present
<1>7. CASE UNCHANGED vars
  BY <1>7 DEF vars, TypeOK, Present
<1> QED BY <1>1, <1>2, <1>3, <1>4, <1>5, <1>6, <1>7 DEF Next

(* A rule that comes or goes leaves the searches right about the entries   *)
(* that stay.                                                              *)
LEMMA ChangeKeeps ==
  ASSUME IInv, NEW id \in RuleId, NEW rule \in Rule \cup {NoRule}, Change(id, rule),
         rule = NoRule \/ rules[id] = NoRule
  PROVE  SearchInv'
<1> USE ProxyAssumption
<1> SUFFICES ASSUME NEW x \in Request
             PROVE  /\ req'[x].pc # "idle" => BestSoFar(req[x])'
                    /\ req'[x].pc = "search" => InStep(req[x])'
                    /\ req'[x].pc = "done" => \A e \in req'[x].stable : e[1] \notin req'[x].left
  BY DEF SearchInv
<1>1. CASE req[x].pc = "search"
  <2>1. /\ req'[x].pc = "search" /\ req'[x].path = req[x].path /\ req'[x].left = req[x].left
        /\ req'[x].best = req[x].best
        /\ req'[x].stable = {e \in req[x].stable : e[1] # id}
        /\ req'[x].seen = req[x].seen \cup ({rule} \ {NoRule})
    BY <1>1 DEF Change, IInv, TypeOK, Search
  <2>2. BestSoFar(req[x])'
    BY <1>1, <2>1 DEF BestSoFar, IInv, SearchInv
  <2>3. InStep(req[x])'
    <3>1. \A e \in req'[x].stable : rules'[e[1]] = e[2]
      BY <1>1, <2>1 DEF Change, IInv, SearchInv, InStep, TypeOK, Search
    <3>2. \A i \in RuleId : rules'[i] # NoRule => rules'[i] \in req'[x].seen
      <4> SUFFICES ASSUME NEW i \in RuleId, rules'[i] # NoRule PROVE rules'[i] \in req'[x].seen
        OBVIOUS
      <4>1. CASE i = id
        BY <4>1, <2>1 DEF Change, IInv, TypeOK, Search
      <4>2. CASE i # id
        BY <4>2, <1>1, <2>1 DEF Change, IInv, TypeOK, Search, SearchInv, InStep, Present
      <4> QED BY <4>1, <4>2
    <3> QED BY <3>1, <3>2 DEF InStep, Present
  <2> QED BY <2>1, <2>2, <2>3
<1>2. CASE req[x].pc # "search"
  BY <1>2 DEF Change, IInv, TypeOK, Search, SearchInv, BestSoFar
<1> QED BY <1>1, <1>2

(* A step of one request leaves the others as they were. *)
LEMMA OthersKeep ==
  ASSUME IInv, NEW x \in Request, rules' = rules, NEW r, req' = [req EXCEPT ![x] = r],
         NEW y \in Request, y # x
  PROVE  /\ req'[y].pc # "idle" => BestSoFar(req[y])'
         /\ req'[y].pc = "search" => InStep(req[y])'
         /\ req'[y].pc = "done" => \A e \in req'[y].stable : e[1] \notin req'[y].left
<1>1. req'[y] = req[y]
  BY DEF IInv, TypeOK, Search
<1> QED BY <1>1 DEF IInv, SearchInv, BestSoFar, InStep, Present

LEMMA BeginKeeps ==
  ASSUME IInv, NEW x \in Request, Begin(x) PROVE SearchInv'
<1>1. PICK p \in Path : req' = [req EXCEPT ![x] =
         [Idle EXCEPT !.pc = "search", !.path = p, !.left = RuleId,
            !.stable = {<<id, rules[id]>> : id \in Present},
            !.seen = {rules[id] : id \in Present}]]
  BY DEF Begin
<1>2. /\ req'[x].pc = "search" /\ req'[x].best = NoRule /\ req'[x].left = RuleId
      /\ req'[x].stable = {<<id, rules[id]>> : id \in Present}
      /\ req'[x].seen = {rules[id] : id \in Present}
  BY <1>1 DEF Idle, IInv, TypeOK, Search
<1>3. BestSoFar(req[x])' /\ InStep(req[x])'
  BY <1>2 DEF BestSoFar, InStep, Present, Begin
<1>4. rules' = rules
  BY DEF Begin
<1> QED BY <1>1, <1>2, <1>3, <1>4, OthersKeep DEF SearchInv

LEMMA VisitKeeps ==
  ASSUME IInv, NEW x \in Request, Visit(x) PROVE SearchInv'
<1> USE ProxyAssumption
<1>1. PICK id \in req[x].left :
        /\ rules[id] # NoRule
        /\ req' = [req EXCEPT ![x].left = @ \ {id},
                              ![x].best = IF Better(rules[id], req[x]) THEN rules[id] ELSE @]
  BY DEF Visit
<1>2. req[x].pc = "search" /\ rules' = rules /\ id \in RuleId /\ rules[id] \in Rule
  BY <1>1 DEF Visit, IInv, TypeOK, Search
<1>3. /\ req'[x].pc = "search" /\ req'[x].path = req[x].path
      /\ req'[x].left = req[x].left \ {id}
      /\ req'[x].best = IF Better(rules[id], req[x]) THEN rules[id] ELSE req[x].best
      /\ req'[x].stable = req[x].stable /\ req'[x].seen = req[x].seen
  BY <1>1, <1>2 DEF IInv, TypeOK, Search
<1>4. BestSoFar(req[x]) /\ InStep(req[x])
  BY <1>2 DEF IInv, SearchInv
<1>5. req'[x].best # NoRule => req'[x].best \in req'[x].seen /\ Matches(req'[x].best.matcher, req'[x].path)
  BY <1>1, <1>2, <1>3, <1>4 DEF Better, BestSoFar, InStep, Present
<1>6. ASSUME NEW e \in req[x].stable, e[1] \notin req'[x].left, Matches(e[2].matcher, req[x].path)
      PROVE  req'[x].best # NoRule /\ Rank(e[2]) <= Rank(req'[x].best)
  <2>1. /\ e[2] \in Rule /\ rules[e[1]] = e[2] /\ e[1] \in RuleId
        /\ req[x].best \in Rule \cup {NoRule}
    BY <1>4 DEF InStep, IInv, TypeOK, Search
  <2>2. Rank(e[2]) \in Int /\ Rank(rules[id]) \in Int /\ (req[x].best # NoRule => Rank(req[x].best) \in Int)
    BY <1>2, <2>1, LenProperties DEF Rank
  <2>3. CASE e[1] = id
    BY <1>3, <1>6, <2>1, <2>2, <2>3, <1>2 DEF Better
  <2>4. CASE e[1] # id
    <3>1. req[x].best # NoRule /\ Rank(e[2]) <= Rank(req[x].best)
      BY <1>3, <1>4, <1>6, <2>4 DEF BestSoFar
    <3> QED BY <3>1, <1>3, <1>2, <2>2 DEF Better
  <2> QED BY <2>3, <2>4
<1>7. BestSoFar(req[x])'
  BY <1>3, <1>5, <1>6 DEF BestSoFar, Rank
<1>8. InStep(req[x])'
  BY <1>2, <1>3, <1>4 DEF InStep, Present
<1>9. req' = [req EXCEPT ![x] = req'[x]]
  BY <1>1 DEF IInv, TypeOK, Search
<1> QED BY <1>2, <1>3, <1>7, <1>8, <1>9, OthersKeep DEF SearchInv

LEMMA ServeKeeps ==
  ASSUME IInv, NEW x \in Request, Serve(x) PROVE SearchInv'
<1>1. /\ req'[x].pc = "done" /\ req'[x].path = req[x].path /\ req'[x].left = req[x].left
      /\ req'[x].best = req[x].best /\ req'[x].stable = req[x].stable
      /\ req'[x].seen = req[x].seen /\ rules' = rules
  BY DEF Serve, IInv, TypeOK, Search
<1>2. BestSoFar(req[x])' /\ \A e \in req'[x].stable : e[1] \notin req'[x].left
  BY <1>1 DEF Serve, IInv, SearchInv, BestSoFar
<1>3. req' = [req EXCEPT ![x] = req'[x]]
  BY DEF Serve, IInv, TypeOK, Search
<1> QED BY <1>1, <1>2, <1>3, OthersKeep DEF SearchInv

LEMMA SearchNext == IInv /\ [Next]_vars => SearchInv'
<1> SUFFICES ASSUME IInv, [Next]_vars PROVE SearchInv'
  OBVIOUS
<1>1. ASSUME NEW id \in RuleId, NEW rule \in Rule, AddRule(id, rule) PROVE SearchInv'
  BY <1>1, ChangeKeeps DEF AddRule
<1>2. ASSUME NEW id \in RuleId, Remove(id) PROVE SearchInv'
  BY <1>2, ChangeKeeps DEF Remove
<1>3. ASSUME NEW x \in Request, Return(x) PROVE SearchInv'
  <2>1. req'[x].pc = "idle" /\ rules' = rules /\ req' = [req EXCEPT ![x] = Idle]
    BY <1>3 DEF Return, Idle, IInv, TypeOK, Search
  <2> QED BY <2>1, OthersKeep DEF SearchInv
<1>4. CASE UNCHANGED vars
  BY <1>4 DEF vars, IInv, SearchInv, BestSoFar, InStep, Present
<1> QED BY <1>1, <1>2, <1>3, <1>4, BeginKeeps, VisitKeeps, ServeKeeps DEF Next

(* The invariant of the searches holds in every behaviour of the proxy. *)
THEOREM Invariance == Spec => []IInv
<1>1. Init => IInv
  BY TypeInit DEF Init, IInv, SearchInv, Idle
<1>2. IInv /\ [Next]_vars => IInv'
  BY TypeNext, SearchNext DEF IInv
<1> QED BY <1>1, <1>2, PTL DEF Spec

(* Every state of the proxy is well typed. *)
THEOREM TypeCorrect == Spec => []TypeOK
<1>1. IInv => TypeOK
  BY DEF IInv
<1> QED BY <1>1, Invariance, PTL

(* The rule with the most slashes that ServeHTTP takes is the longest      *)
(* match, in whatever order the map is gone through and however it changes *)
(* meanwhile.                                                              *)
THEOREM LongestMatch == Spec => []LongestMatchServes
<1>1. IInv => LongestMatchServes
  <2> SUFFICES ASSUME IInv, NEW x \in Request, req[x].pc = "done",
                      NEW e \in req[x].stable, Matches(e[2].matcher, req[x].path)
               PROVE  /\ req[x].best # NoRule
                      /\ Len(e[2].matcher) <= Len(req[x].best.matcher)
                      /\ Len(e[2].matcher) = Len(req[x].best.matcher) =>
                           e[2].matcher = req[x].best.matcher
    BY DEF LongestMatchServes, IInv, SearchInv, BestSoFar
  <2>1. req[x].best # NoRule /\ Rank(e[2]) <= Rank(req[x].best)
        /\ Matches(req[x].best.matcher, req[x].path)
    BY DEF IInv, SearchInv, BestSoFar
  <2>2. /\ e[2].matcher \in Seq(Segment) /\ req[x].best.matcher \in Seq(Segment)
        /\ req[x].path \in Seq(Segment)
    BY <2>1, ProxyAssumption, EmptySeq DEF IInv, TypeOK, Search
  <2>3. Len(e[2].matcher) <= Len(req[x].best.matcher)
    BY <2>1, <2>2, LenProperties DEF Rank
  <2> QED BY <2>1, <2>2, <2>3, SameRankSameMatcher
<1> QED BY <1>1, Invariance, PTL
=============================================================================
