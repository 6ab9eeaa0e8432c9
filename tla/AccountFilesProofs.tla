------------------------ MODULE AccountFilesProofs ------------------------
(***************************************************************************)
(* Proofs about AccountFiles, for any number of retained copies, rebuilds  *)
(* and loading threads: no conversion to Local Lock and no rebuild, however *)
(* they are interrupted and interleaved, loses the records of a generation *)
(* as long as the account is registered and no rebuild met a stray load,   *)
(* or leaves a database in plaintext once a session runs and no thread     *)
(* loads any more.                                                         *)
(*                                                                         *)
(* No step shrinks the set of generations that some file holds in full.    *)
(* What each step needs for that is in Pair and Chain, about the files     *)
(* alone, and in StepKnows, about the step a thread is at.  Behind the     *)
(* load in the foreground a database is in plaintext only while a thread   *)
(* is at the step that converts it (Cared, Watched).                       *)
(***************************************************************************)
EXTENDS AccountFiles, TLAPS, NaturalsInduction, WellFoundedInduction

Intact == registered /\ ~raced

Converting == {"exporting", "exported", "aside", "installed"}
Conversion == {"list", "check", "export"} \cup Converting
InHand(l, d) == loader[l].pc \in Converting /\ Current(l) = d

\* What holds in every state, whatever happened to the account.
RemovingInv == ui = "removing" => ~registered
WorkspaceInv ==
    ui \in RebuildSteps => workspace # Absent /\ workspace.generation = generation + 1

\* What is not locked is whole, and a plaintext workspace is not locked.
FilesWhole ==
    \A d \in Databases :
        /\ file[d] # Absent /\ ~file[d].locked => file[d].whole
        /\ plaintext[d] # Absent => plaintext[d].whole /\ ~plaintext[d].locked

\* Two workspaces of a database hold the same.
Pair ==
    \A d \in Databases : plaintext[d] # Absent /\ encrypted[d] # Absent =>
        /\ encrypted[d].whole /\ encrypted[d].locked
        /\ encrypted[d].generation = plaintext[d].generation

\* A plaintext workspace that is alone is a duplicate of the converted file.
Chain ==
    \A d \in Databases : plaintext[d] # Absent /\ encrypted[d] = Absent =>
        /\ file[d] # Absent /\ file[d].locked /\ file[d].whole
        /\ file[d].generation = plaintext[d].generation

HeldAt(d, g) == Holds(file[d], g) \/ Holds(encrypted[d], g) \/ Holds(plaintext[d], g)
Kept == \A g \in 1..generation : \E d \in Databases : HeldAt(d, g)

FilesInv == FilesWhole /\ Pair /\ Chain /\ Kept

\* Conversions run under Local Lock, migrations without it.
Threads ==
    \A l \in Loaders :
        /\ loader[l].pc \in Conversion => lock
        /\ loader[l].pc \in {"backup", "migrate"} => ~lock
        /\ loader[l].pc \in {"export"} \cup Converting => loader[l].todo # {}
        /\ loader[l].pc = "backup" => \E b \in Backups : loader[l].todo = {b}

\* No two threads have the same database in hand.
Exclusive ==
    \A l, m \in Loaders : \A d \in Databases : InHand(l, d) /\ InHand(m, d) => l = m
BackupsDiffer ==
    \A l, m \in Loaders :
        loader[l].pc = "backup" /\ loader[m].pc = "backup" /\ Current(l) = Current(m) => l = m

\* What a thread may rely on at its step.
Knows(pc, d) ==
    /\ pc \in {"exporting", "exported"} =>
          /\ encrypted[d] # Absent /\ plaintext[d] = Absent
          /\ file[d] # Absent /\ ~file[d].locked
          /\ encrypted[d].locked /\ encrypted[d].generation = file[d].generation
    /\ pc = "exported" => encrypted[d].whole
    /\ pc = "aside" =>
          IF encrypted[d] # Absent
          THEN plaintext[d] # Absent /\ (file[d] # Absent => ~file[d].whole)
          ELSE file[d] # Absent /\ file[d].locked
    /\ pc = "installed" => encrypted[d] = Absent /\ file[d] # Absent /\ file[d].locked
    /\ pc = "backup" => file[d] # Absent /\ ~file[d].whole
StepKnows == \A l \in Loaders : \A d \in Databases : Current(l) = d => Knows(loader[l].pc, d)

ThreadsInv == Threads /\ Exclusive /\ BackupsDiffer /\ StepKnows

\* While a rebuild runs no thread loads the account, and the database it will
\* replace is the one it read.
RebuildAlone == ui \in RebuildSteps => \A l \in Loaders : loader[l] = Idle
Rebuilding ==
    /\ ui \in {"creating", "created"} =>
          file[Main] # Absent /\ file[Main].locked = lock /\ file[Main].whole
    /\ ui \in {"created", "preserved"} => workspace.whole
    /\ ui = "preserved" => file[Main] = Absent

\* A load that has converted the database leaves no plaintext of it behind,
\* unless another thread is about to remove it.
Passed(pc, todo) == \/ pc \in Conversion \ {"list"} /\ Main \notin todo
                    \/ pc \in {"open", "backup", "migrate"}
Recovering == ui \in {"recovery", "retrying", "creating", "created"}
Tending(pc, todo) == pc \in {"check", "installed"} /\ Main \in todo
Alone == plaintext[Main] # Absent /\ encrypted[Main] = Absent
Tended ==
    lock /\ Alone /\ (Recovering \/ \E m \in Loaders : Passed(loader[m].pc, loader[m].todo))
    => \E l \in Loaders : Tending(loader[l].pc, loader[l].todo)

RebuildInv == RebuildAlone /\ Rebuilding /\ Tended

AlwaysInv == FilesTypeOK /\ RemovingInv /\ WorkspaceInv
AccountInv == AlwaysInv /\ (Intact => FilesInv /\ ThreadsInv /\ RebuildInv)

-----------------------------------------------------------------------------
USE FilesAssumption, AbsentAssumption

\* The least of a set of names is in it.
LEMMA LeastIn ==
    ASSUME NEW S \in SUBSET Nat, S # {}
    PROVE  Least(S) \in S /\ \A n \in S : Least(S) <= n
<1>1. PICK x \in S : \A y \in S : ~(<<y, x>> \in OpToRel(<, Nat))
  BY WFMin, NatLessThanWellFounded
<1>2. \A y \in S : x <= y
  <2> SUFFICES ASSUME NEW y \in S PROVE x <= y
    OBVIOUS
  <2>1. x \in Nat /\ y \in Nat /\ ~(y < x)
    BY <1>1 DEF OpToRel
  <2> QED
    BY <2>1
<1> QED
  BY <1>2 DEF Least

LEMMA DatabasesNat == Databases \subseteq Nat /\ Main \in Databases /\ Backups \subseteq Databases
                      /\ Main \notin Backups
BY DEF Databases, Main, Backups

LEMMA CurrentIn ==
    ASSUME FilesTypeOK, NEW l \in Loaders, loader[l].todo # {}
    PROVE  /\ Current(l) \in loader[l].todo /\ Current(l) \in Databases
           /\ Main \in loader[l].todo => Current(l) = Main
<1>1. loader[l].todo \in SUBSET Databases
  BY DEF FilesTypeOK
<1>2. Current(l) \in loader[l].todo /\ \A n \in loader[l].todo : Current(l) <= n
  BY <1>1, LeastIn, DatabasesNat DEF Current
<1>3. Current(l) \in Nat
  BY <1>1, <1>2, DatabasesNat
<1> QED
  BY <1>1, <1>2, <1>3 DEF Main

LEMMA NextBackupFree ==
    ASSUME FreeBackups # {}
    PROVE  NextBackup \in Backups /\ file[NextBackup] = Absent
<1>1. FreeBackups \in SUBSET Nat
  BY DatabasesNat DEF FreeBackups
<1> QED
  BY <1>1, LeastIn DEF NextBackup, FreeBackups

LEMMA ReservedContent ==
    Reserved \in Contents /\ Reserved # Absent /\ Reserved.locked /\ ~Reserved.whole
<1>1. Fresh(0, TRUE) \in Contents
  BY DEF Fresh, Contents
<1>2. Reserved \in Contents /\ Reserved.locked /\ ~Reserved.whole
  BY <1>1 DEF Reserved, Contents, Fresh
<1> QED
  BY <1>2

-----------------------------------------------------------------------------
(* Types, and what holds in every state.                                    *)

LEMMA AlwaysInit == ASSUME Init PROVE AlwaysInv
<1>1. Main \in Databases
  BY DatabasesNat
<1> QED
  BY <1>1 DEF Init, AlwaysInv, FilesTypeOK, RemovingInv, WorkspaceInv, Fresh, Contents, Idle,
              LoadSteps, RebuildSteps

\* Ends of a load leave the types alone.
LEMMA FinishAlways ==
    ASSUME AlwaysInv, NEW l \in Loaders, loader[l].pc # "idle",
           NEW outcome \in {"error", "session", "recovery"}, Finish(l, outcome),
           file' \in [Databases -> Contents \cup {Absent}],
           encrypted' \in [Databases -> Contents \cup {Absent}],
           plaintext' \in [Databases -> Contents \cup {Absent}],
           UNCHANGED <<workspace, abandoned, generation, original>>
    PROVE  AlwaysInv'
<1> USE DEF AlwaysInv, FilesTypeOK, RemovingInv, WorkspaceInv, RebuildSteps, LoadSteps, Idle
<1>1. CASE awaited # l
  BY <1>1 DEF Finish
<1>2. CASE awaited = l /\ outcome = "error"
  BY <1>2 DEF Finish, Halt
<1>3. CASE awaited = l /\ outcome # "error"
  BY <1>3 DEF Finish
<1> QED
  BY <1>1, <1>2, <1>3

\* A step of a thread that goes on.
LEMMA QuietAlways ==
    ASSUME AlwaysInv, NEW l \in Loaders, loader[l].pc # "idle",
           NEW pc \in LoadSteps \ {"idle"}, NEW todo \in SUBSET Databases,
           loader' = [loader EXCEPT ![l] = [pc |-> pc, todo |-> todo]], Quiet,
           file' \in [Databases -> Contents \cup {Absent}],
           encrypted' \in [Databases -> Contents \cup {Absent}],
           plaintext' \in [Databases -> Contents \cup {Absent}],
           UNCHANGED <<workspace, abandoned, generation, original>>
    PROVE  AlwaysInv'
BY DEF AlwaysInv, FilesTypeOK, RemovingInv, WorkspaceInv, RebuildSteps, LoadSteps, Idle, Quiet

LEMMA GoIs ==
    ASSUME FilesTypeOK, NEW l \in Loaders, NEW pc, Go(l, pc)
    PROVE  /\ loader' = [loader EXCEPT ![l] = [pc |-> pc, todo |-> loader[l].todo]]
           /\ loader[l].todo \in SUBSET Databases
<1>1. loader \in [Loaders -> [pc : LoadSteps, todo : SUBSET Databases]]
  BY DEF FilesTypeOK
<1>2. [loader[l] EXCEPT !.pc = pc] = [pc |-> pc, todo |-> loader[l].todo]
  BY <1>1
<1>3. loader' = [loader EXCEPT ![l] = [loader[l] EXCEPT !.pc = pc]]
  BY <1>1 DEF Go
<1> QED
  BY <1>1, <1>2, <1>3

LEMMA DoneIs ==
    ASSUME FilesTypeOK, NEW l \in Loaders, Done(l)
    PROVE  \E todo \in SUBSET Databases :
              loader' = [loader EXCEPT ![l] = [pc |-> "check", todo |-> todo]]
<1>1. loader[l].todo \ {Current(l)} \in SUBSET Databases
  BY DEF FilesTypeOK
<1> QED
  BY <1>1 DEF Done

LEMMA LoadAlways ==
    ASSUME AlwaysInv, NEW l \in Loaders, Load(l)
    PROVE  AlwaysInv'
<1>0. /\ FilesTypeOK
      /\ file \in [Databases -> Contents \cup {Absent}]
      /\ encrypted \in [Databases -> Contents \cup {Absent}]
      /\ plaintext \in [Databases -> Contents \cup {Absent}]
      /\ loader[l].todo \in SUBSET Databases /\ Main \in Databases
  BY DatabasesNat DEF AlwaysInv, FilesTypeOK
<1>1. CASE List(l)
  <2>1. loader[l].pc # "idle"
    BY <1>1 DEF List, Step
  <2> QED
    BY <1>0, <1>1, <2>1, QuietAlways DEF List, disk, LoadSteps
<1>2. CASE AllConverted(l)
  <2>1. loader[l].pc # "idle" /\ UNCHANGED disk /\ Quiet
        /\ loader' = [loader EXCEPT ![l] = [pc |-> "open", todo |-> loader[l].todo]]
    BY <1>0, <1>2, GoIs DEF AllConverted, Step
  <2> QED
    BY <1>0, <2>1, QuietAlways DEF disk, LoadSteps
<1>3. CASE Check(l)
  <2> DEFINE d == Current(l)
  <2>1. loader[l].pc = "check" /\ d \in Databases
    BY <1>0, <1>3, CurrentIn DEF Check, Step
  <2>2. CASE Reinstall(l, d)
    <3>1. /\ loader' = [loader EXCEPT ![l] = [pc |-> "check", todo |-> loader[l].todo]] /\ Quiet
          /\ file' \in [Databases -> Contents \cup {Absent}]
          /\ encrypted' \in [Databases -> Contents \cup {Absent}]
          /\ UNCHANGED <<plaintext, workspace, abandoned, generation, original>>
      BY <1>0, <2>1, <2>2 DEF Reinstall, FilesTypeOK
    <3> QED
      BY <1>0, <2>1, <3>1, QuietAlways DEF LoadSteps
  <2>3. CASE CleanUp(l, d)
    <3>1. plaintext' \in [Databases -> Contents \cup {Absent}]
      BY <1>0, <2>1, <2>3 DEF CleanUp
    <3> QED
      BY <1>0, <2>1, <2>3, <3>1, DoneIs, QuietAlways DEF CleanUp, LoadSteps
  <2>4. CASE WorkspaceExists(l, d)
    BY <1>0, <2>1, <2>4, FinishAlways DEF WorkspaceExists, disk
  <2>5. CASE ConvertOrSkip(l, d) /\ Go(l, "export")
    <3>1. Quiet /\ UNCHANGED disk
      BY <2>5 DEF ConvertOrSkip
    <3>2. loader' = [loader EXCEPT ![l] = [pc |-> "export", todo |-> loader[l].todo]]
      BY <1>0, <2>5, GoIs
    <3> QED
      BY <1>0, <2>1, <3>1, <3>2, QuietAlways DEF disk, LoadSteps
  <2>6. CASE ConvertOrSkip(l, d) /\ Done(l)
    <3>1. Quiet /\ UNCHANGED disk
      BY <2>6 DEF ConvertOrSkip
    <3> QED
      BY <1>0, <2>1, <2>6, <3>1, DoneIs, QuietAlways DEF disk, LoadSteps
  <2>7. ConvertOrSkip(l, d) => Go(l, "export") \/ Done(l)
    BY DEF ConvertOrSkip
  <2>8. Reinstall(l, d) \/ CleanUp(l, d) \/ WorkspaceExists(l, d) \/ ConvertOrSkip(l, d)
    BY <1>3 DEF Check
  <2> QED
    BY <2>2, <2>3, <2>4, <2>5, <2>6, <2>7, <2>8
<1>4. CASE ExportStarts(l)
  <2> DEFINE d == Current(l)
             source == IF file[d] = Absent THEN Fresh(0, FALSE) ELSE file[d]
  <2>1. CASE Finish(l, "error") /\ UNCHANGED disk
    BY <1>0, <1>4, <2>1, FinishAlways DEF ExportStarts, Step, disk
  <2>2. CASE ~(Finish(l, "error") /\ UNCHANGED disk)
    <3>1. /\ loader[l].pc = "export"
          /\ file' = [file EXCEPT ![d] = source]
          /\ encrypted' = [encrypted EXCEPT ![d] = [source EXCEPT !.whole = FALSE, !.locked = TRUE]]
          /\ Go(l, "exporting") /\ Quiet
          /\ UNCHANGED <<plaintext, workspace, abandoned, generation, original>>
      BY <1>4, <2>2 DEF ExportStarts, Step
    <3>2. d \in Databases => source \in Contents
      BY <1>0 DEF Fresh, Contents
    <3>3. /\ file' \in [Databases -> Contents \cup {Absent}]
          /\ d \in Databases => [source EXCEPT !.whole = FALSE, !.locked = TRUE] \in Contents
      BY <1>0, <3>1, <3>2 DEF Contents
    <3>4. encrypted' \in [Databases -> Contents \cup {Absent}]
      BY <1>0, <3>1, <3>3
    <3>5. loader' = [loader EXCEPT ![l] = [pc |-> "exporting", todo |-> loader[l].todo]]
      BY <1>0, <3>1, GoIs
    <3> QED
      BY <1>0, <3>1, <3>3, <3>4, <3>5, QuietAlways DEF LoadSteps
  <2> QED
    BY <2>1, <2>2
<1>5. CASE ExportEnds(l)
  <2>1. CASE Finish(l, "error") /\ UNCHANGED disk
    BY <1>0, <1>5, <2>1, FinishAlways DEF ExportEnds, Step, disk
  <2>2. CASE ~(Finish(l, "error") /\ UNCHANGED disk)
    <3>1. /\ loader[l].pc = "exporting" /\ Go(l, "exported") /\ Quiet
          /\ encrypted[Current(l)] # Absent
          /\ encrypted' = [encrypted EXCEPT ![Current(l)].whole = TRUE]
          /\ UNCHANGED <<file, plaintext, workspace, abandoned, generation, original>>
      BY <1>5, <2>2 DEF ExportEnds, Step
    <3>2. loader' = [loader EXCEPT ![l] = [pc |-> "exported", todo |-> loader[l].todo]]
      BY <1>0, <3>1, GoIs
    <3>3. encrypted' \in [Databases -> Contents \cup {Absent}]
      BY <1>0, <3>1 DEF Contents
    <3> QED
      BY <1>0, <3>1, <3>2, <3>3, QuietAlways DEF LoadSteps
  <2> QED
    BY <2>1, <2>2
<1>6. CASE MoveAside(l)
  <2>1. CASE Finish(l, "error") /\ UNCHANGED disk
    BY <1>0, <1>6, <2>1, FinishAlways DEF MoveAside, Step, disk
  <2>2. CASE ~(Finish(l, "error") /\ UNCHANGED disk)
    <3>1. /\ loader[l].pc = "exported" /\ Go(l, "aside") /\ Quiet
          /\ plaintext' = [plaintext EXCEPT ![Current(l)] = file[Current(l)]]
          /\ file' = [file EXCEPT ![Current(l)] = Absent]
          /\ UNCHANGED <<encrypted, workspace, abandoned, generation, original>>
      BY <1>6, <2>2 DEF MoveAside, Step
    <3>2. loader' = [loader EXCEPT ![l] = [pc |-> "aside", todo |-> loader[l].todo]]
      BY <1>0, <3>1, GoIs
    <3>3. /\ file' \in [Databases -> Contents \cup {Absent}]
          /\ plaintext' \in [Databases -> Contents \cup {Absent}]
      BY <1>0, <3>1
    <3> QED
      BY <1>0, <3>1, <3>2, <3>3, QuietAlways DEF LoadSteps
  <2> QED
    BY <2>1, <2>2
<1>7. CASE Install(l)
  <2> DEFINE d == Current(l)
  <2>0. loader[l].pc = "aside"
    BY <1>7 DEF Install, Step
  <2>1. CASE encrypted[d] = Absent
    <3>1. /\ Finish(l, "error")
          /\ UNCHANGED <<encrypted, workspace, abandoned, generation, original>>
      BY <1>7, <2>1 DEF Install
    <3>2. /\ file' \in [Databases -> Contents \cup {Absent}]
          /\ plaintext' \in [Databases -> Contents \cup {Absent}]
      BY <1>0, <1>7, <2>1 DEF Install
    <3> QED
      BY <1>0, <2>0, <3>1, <3>2, FinishAlways
  <2>2. CASE encrypted[d] # Absent
    <3>1. /\ Go(l, "installed") /\ Quiet
          /\ file' = [file EXCEPT ![d] = encrypted[d]]
          /\ encrypted' = [encrypted EXCEPT ![d] = Absent]
          /\ UNCHANGED <<plaintext, workspace, abandoned, generation, original>>
      BY <1>7, <2>2 DEF Install
    <3>2. loader' = [loader EXCEPT ![l] = [pc |-> "installed", todo |-> loader[l].todo]]
      BY <1>0, <3>1, GoIs
    <3>3. /\ file' \in [Databases -> Contents \cup {Absent}]
          /\ encrypted' \in [Databases -> Contents \cup {Absent}]
      BY <1>0, <3>1
    <3> QED
      BY <1>0, <2>0, <3>1, <3>2, <3>3, QuietAlways DEF LoadSteps
  <2> QED
    BY <2>1, <2>2
<1>8. CASE DropPlaintext(l)
  <2>1. CASE Finish(l, "error") /\ UNCHANGED disk
    BY <1>0, <1>8, <2>1, FinishAlways DEF DropPlaintext, Step, disk
  <2>2. CASE ~(Finish(l, "error") /\ UNCHANGED disk)
    <3>1. /\ loader[l].pc = "installed" /\ Done(l) /\ Quiet
          /\ plaintext' = [plaintext EXCEPT ![Current(l)] = Absent]
          /\ UNCHANGED <<file, encrypted, workspace, abandoned, generation, original>>
      BY <1>8, <2>2 DEF DropPlaintext, Step
    <3>2. plaintext' \in [Databases -> Contents \cup {Absent}]
      BY <1>0, <3>1
    <3> QED
      BY <1>0, <3>1, <3>2, DoneIs, QuietAlways DEF LoadSteps
  <2> QED
    BY <2>1, <2>2
<1>9. CASE Open(l)
  <2>0. loader[l].pc = "open"
    BY <1>9 DEF Open, Step
  <2>1. CASE UNCHANGED disk
    <3>1. CASE FreeBackups = {}
      <4>1. \E o \in {"error", "session", "recovery"} : Finish(l, o)
        BY <1>9, <3>1, <1>0 DEF Open
      <4> QED
        BY <1>0, <2>0, <2>1, <4>1, FinishAlways DEF disk
    <3>2. CASE FreeBackups # {}
      <4>1. NextBackup \in Databases /\ file[NextBackup] = Absent
        BY <3>2, NextBackupFree, DatabasesNat
      <4>2. file' # [file EXCEPT ![NextBackup] = Reserved]
        BY <1>0, <2>1, <4>1, ReservedContent DEF disk
      <4>3. \E o \in {"error", "session", "recovery"} : Finish(l, o)
        BY <1>9, <3>2, <4>2 DEF Open
      <4> QED
        BY <1>0, <2>0, <2>1, <4>3, FinishAlways DEF disk
    <3> QED
      BY <3>1, <3>2
  <2>2. CASE ~UNCHANGED disk
    <3>1. /\ FreeBackups # {} /\ UNCHANGED temporary
          /\ file' = [file EXCEPT ![NextBackup] = Reserved]
          /\ \/ Finish(l, "recovery")
             \/ /\ loader' = [loader EXCEPT ![l] = [pc |-> "backup", todo |-> {NextBackup}]]
                /\ Quiet
      BY <1>9, <2>2 DEF Open
    <3>2. NextBackup \in Databases
      BY <3>1, NextBackupFree, DatabasesNat
    <3>4. file' \in [Databases -> Contents \cup {Absent}]
      BY <1>0, <3>1, ReservedContent
    <3>5. CASE Finish(l, "recovery")
      BY <1>0, <2>0, <3>1, <3>4, <3>5, FinishAlways DEF temporary
    <3>6. CASE ~Finish(l, "recovery")
      <4>1. {NextBackup} \in SUBSET Databases
        BY <3>2
      <4>2. UNCHANGED <<encrypted, plaintext, workspace, abandoned, generation, original>>
        BY <3>1 DEF temporary
      <4> QED
        BY <1>0, <2>0, <3>1, <3>4, <3>6, <4>1, <4>2, QuietAlways DEF LoadSteps
    <3> QED
      BY <3>5, <3>6
  <2> QED
    BY <2>1, <2>2
<1>10. CASE Backup(l)
  <2>1. CASE Finish(l, "recovery") /\ UNCHANGED disk
    BY <1>0, <1>10, <2>1, FinishAlways DEF Backup, Step, disk
  <2>2. CASE ~(Finish(l, "recovery") /\ UNCHANGED disk)
    <3>1. /\ loader[l].pc = "backup" /\ Go(l, "migrate") /\ Quiet
          /\ file' = [file EXCEPT ![Current(l)] = file[Main]]
          /\ UNCHANGED temporary
      BY <1>10, <2>2 DEF Backup, Step
    <3>2. loader' = [loader EXCEPT ![l] = [pc |-> "migrate", todo |-> loader[l].todo]]
      BY <1>0, <3>1, GoIs
    <3>3. file' \in [Databases -> Contents \cup {Absent}]
      BY <1>0, <3>1
    <3> QED
      BY <1>0, <3>1, <3>2, <3>3, QuietAlways DEF LoadSteps, temporary
  <2> QED
    BY <2>1, <2>2
<1>11. CASE Migrate(l)
  <2>1. loader[l].pc = "migrate"
    BY <1>11 DEF Migrate, Step
  <2>2. file' \in [Databases -> Contents \cup {Absent}]
    <3>1. CASE file[Main] = Absent
      BY <1>0, <1>11, <3>1 DEF Migrate
    <3>2. CASE file[Main] # Absent
      <4>1. [file[Main] EXCEPT !.outdated = FALSE] \in Contents
        BY <1>0, <3>2 DEF Contents
      <4>2. file' = [file EXCEPT ![Main] = [file[Main] EXCEPT !.outdated = FALSE]]
        BY <1>0, <1>11, <3>2 DEF Migrate
      <4> QED
        BY <1>0, <4>1, <4>2
    <3> QED
      BY <3>1, <3>2
  <2>3. UNCHANGED <<encrypted, plaintext, workspace, abandoned, generation, original>> /\ Quiet
        /\ loader' = [loader EXCEPT ![l] = [pc |-> "open", todo |-> {}]]
    BY <1>11 DEF Migrate, temporary
  <2>4. {} \in SUBSET Databases
    OBVIOUS
  <2> QED
    BY <1>0, <2>1, <2>2, <2>3, <2>4, QuietAlways DEF LoadSteps
<1> QED
  BY <1>1, <1>2, <1>3, <1>4, <1>5, <1>6, <1>7, <1>8, <1>9, <1>10, <1>11 DEF Load, Convert

LEMMA AlwaysStep ==
    ASSUME AlwaysInv, [Next]_vars
    PROVE  AlwaysInv'
<1> USE DEF AlwaysInv, FilesTypeOK, RemovingInv, WorkspaceInv
<1>0. Main \in Databases /\ Backups \subseteq Databases /\ Main \notin Backups
  BY DatabasesNat
<1>1. CASE Start
  BY <1>1 DEF Start, disk, RebuildSteps
<1>2. CASE Leave
  BY <1>2 DEF Leave, disk, RebuildSteps
<1>3. CASE Stop
  <2>1. /\ ui' = "off" /\ awaited' = Nobody /\ doomed' = {} /\ workspace' = Absent
        /\ loader' = [l \in Loaders |-> Idle] /\ original' = Main
        /\ abandoned' = abandoned \cup ({workspace} \ {Absent})
        /\ UNCHANGED <<file, encrypted, plaintext, generation, registered, lock>>
    BY <1>3 DEF Stop, Halt
  <2>2. loader' \in [Loaders -> [pc : LoadSteps, todo : SUBSET Databases]]
    BY <2>1 DEF Idle, LoadSteps
  <2> QED
    BY <1>0, <2>1, <2>2 DEF RebuildSteps
<1>4. CASE Remove
  BY <1>4 DEF Remove, disk, RebuildSteps
<1>5. CASE Removed
  BY <1>5 DEF Removed, disk, RebuildSteps
<1>6. ASSUME NEW l \in Loaders, Select(l) PROVE AlwaysInv'
  BY <1>6 DEF Select, disk, RebuildSteps, LoadSteps, Idle
<1>7. ASSUME NEW l \in Loaders, Retry(l) PROVE AlwaysInv'
  BY <1>7 DEF Retry, Go, disk, RebuildSteps, LoadSteps, Idle
<1>8. ASSUME NEW d \in Databases, RemoveFile(d) PROVE AlwaysInv'
  <2>1. CASE file[d] = Absent
    BY <1>8, <2>1 DEF RemoveFile, Halt, disk, Idle, LoadSteps, RebuildSteps
  <2>2. CASE file[d] # Absent
    BY <1>8, <2>2 DEF RemoveFile, temporary, RebuildSteps
  <2> QED
    BY <2>1, <2>2
<1>9. CASE Rebuild
  <2>1. Fresh(generation + 1, lock) \in Contents
    BY <1>9 DEF Rebuild, Fresh, Contents
  <2>2. /\ [Fresh(generation + 1, lock) EXCEPT !.whole = FALSE] \in Contents
        /\ [Fresh(generation + 1, lock) EXCEPT !.whole = FALSE].generation = generation + 1
    BY <2>1 DEF Contents, Fresh
  <2> QED
    BY <1>9, <2>2 DEF Rebuild, RebuildSteps
<1>10. CASE CopyUniqueRecords
  <2>1. workspace \in Contents /\ workspace.generation = generation + 1
    BY <1>10 DEF CopyUniqueRecords, RebuildSteps
  <2>2. /\ [workspace EXCEPT !.whole = TRUE] \in Contents
        /\ [workspace EXCEPT !.whole = TRUE].generation = generation + 1
    BY <2>1 DEF Contents
  <2> QED
    BY <1>10, <2>2 DEF CopyUniqueRecords, RebuildSteps
<1>11. CASE Preserve
  <2>1. CASE FreeBackups = {} \/ file[Main] = Absent
    <3>1. /\ ui' = "off" /\ awaited' = Nobody /\ doomed' = {} /\ workspace' = Absent
          /\ loader' = [l \in Loaders |-> Idle]
          /\ UNCHANGED <<file, original, encrypted, plaintext, abandoned, generation,
                         registered, lock>>
      BY <1>11, <2>1 DEF Preserve, Halt
    <3>2. original = Main
      BY <1>11 DEF Preserve
    <3>3. loader' \in [Loaders -> [pc : LoadSteps, todo : SUBSET Databases]]
      BY <3>1 DEF Idle, LoadSteps
    <3> QED
      BY <3>1, <3>2, <3>3 DEF RebuildSteps
  <2>2. CASE ~(FreeBackups = {} \/ file[Main] = Absent)
    <3>1. NextBackup \in Databases /\ NextBackup # Main
      BY <1>0, <2>2, NextBackupFree
    <3> QED
      BY <1>0, <1>11, <2>2, <3>1 DEF Preserve, RebuildSteps
  <2> QED
    BY <2>1, <2>2
<1>12. CASE InstallRebuilt
  <2>1. workspace \in Contents /\ workspace.generation = generation + 1
    BY <1>12 DEF InstallRebuilt, RebuildSteps
  <2>2. generation + 1 \in 1..MaxGenerations
    BY <2>1 DEF Contents
  <2>3. CASE file[Main] = Absent
    BY <1>0, <1>12, <2>1, <2>2, <2>3 DEF InstallRebuilt, RebuildSteps
  <2>4. CASE file[Main] # Absent
    BY <1>0, <1>12, <2>4 DEF InstallRebuilt, Halt, Idle, LoadSteps, RebuildSteps
  <2> QED
    BY <2>3, <2>4
<1>13. CASE Damage
  <2>0. file[Main] \in Contents
    BY <1>0, <1>13 DEF Damage
  <2>1. [file[Main] EXCEPT !.sound = FALSE] \in Contents
    BY <2>0 DEF Contents
  <2> QED
    BY <1>0, <1>13, <2>1 DEF Damage, temporary, RebuildSteps
<1>14. CASE Upgrade
  <2>0. file[Main] \in Contents
    BY <1>0, <1>14 DEF Upgrade
  <2>1. [file[Main] EXCEPT !.outdated = TRUE] \in Contents
    BY <2>0 DEF Contents
  <2> QED
    BY <1>0, <1>14, <2>1 DEF Upgrade, temporary, RebuildSteps
<1>15. CASE UNCHANGED vars
  BY <1>15 DEF vars, disk
<1> QED
  BY <1>1, <1>2, <1>3, <1>4, <1>5, <1>6, <1>7, <1>8, <1>9, <1>10, <1>11, <1>12, <1>13, <1>14,
     <1>15, LoadAlways DEF Next

\* The types of AccountFiles are right, whatever is interrupted or overtaken.
THEOREM FilesTypeCorrect == FilesSpec => []FilesTypeOK
<1>1. Init => AlwaysInv
  BY AlwaysInit
<1>2. AlwaysInv /\ [Next]_vars => AlwaysInv'
  BY AlwaysStep
<1>3. AlwaysInv => FilesTypeOK
  BY DEF AlwaysInv
<1> QED
  BY <1>1, <1>2, <1>3, PTL DEF FilesSpec

-----------------------------------------------------------------------------
(* The files: what is whole, which copies agree, and that each generation  *)
(* is held.                                                                 *)

LEMMA DiskUnchanged ==
    ASSUME FilesInv, UNCHANGED <<file, encrypted, plaintext, generation>>
    PROVE  FilesInv'
BY DEF FilesInv, FilesWhole, Pair, Chain, Kept, HeldAt, Holds

LEMMA KeptStep ==
    ASSUME Kept, generation' = generation,
           \A d \in Databases : \A g \in 1..generation : HeldAt(d, g) => HeldAt(d, g)'
    PROVE  Kept'
BY DEF Kept

\* A step that changes the files of one database only.
LEMMA OneDatabase ==
    ASSUME FilesInv, FilesTypeOK, NEW d \in Databases, generation' = generation,
           \A e \in Databases \ {d} : /\ file'[e] = file[e] /\ encrypted'[e] = encrypted[e]
                                      /\ plaintext'[e] = plaintext[e],
           file'[d] # Absent /\ ~file'[d].locked => file'[d].whole,
           plaintext'[d] # Absent => plaintext'[d].whole /\ ~plaintext'[d].locked,
           plaintext'[d] # Absent /\ encrypted'[d] # Absent =>
              /\ encrypted'[d].whole /\ encrypted'[d].locked
              /\ encrypted'[d].generation = plaintext'[d].generation,
           plaintext'[d] # Absent /\ encrypted'[d] = Absent =>
              /\ file'[d] # Absent /\ file'[d].locked /\ file'[d].whole
              /\ file'[d].generation = plaintext'[d].generation,
           \A g \in 1..generation : HeldAt(d, g) => HeldAt(d, g)'
    PROVE  FilesInv'
<1>1. FilesWhole'
  BY DEF FilesInv, FilesWhole
<1>2. Pair'
  BY DEF FilesInv, Pair
<1>3. Chain'
  BY DEF FilesInv, Chain
<1>4. \A e \in Databases : \A g \in 1..generation : HeldAt(e, g) => HeldAt(e, g)'
  BY DEF HeldAt, Holds
<1> QED
  BY <1>1, <1>2, <1>3, <1>4, KeptStep DEF FilesInv

\* What the types and the invariant say of one database and one thread.
LEMMA FilesOf ==
    ASSUME FilesTypeOK, FilesInv, NEW d \in Databases
    PROVE  /\ file[d] \in Contents \cup {Absent} /\ encrypted[d] \in Contents \cup {Absent}
           /\ plaintext[d] \in Contents \cup {Absent}
           /\ file[d] # Absent /\ ~file[d].locked => file[d].whole
           /\ plaintext[d] # Absent => plaintext[d].whole /\ ~plaintext[d].locked
           /\ plaintext[d] # Absent /\ encrypted[d] # Absent =>
                 /\ encrypted[d].whole /\ encrypted[d].locked
                 /\ encrypted[d].generation = plaintext[d].generation
           /\ plaintext[d] # Absent /\ encrypted[d] = Absent =>
                 /\ file[d] # Absent /\ file[d].locked /\ file[d].whole
                 /\ file[d].generation = plaintext[d].generation
BY DEF FilesTypeOK, FilesInv, FilesWhole, Pair, Chain

LEMMA ReinstallFiles ==
    ASSUME AlwaysInv, FilesInv, NEW l \in Loaders, NEW d \in Databases, Reinstall(l, d)
    PROVE  FilesInv'
<1>1. FilesTypeOK /\ FilesInv /\ generation' = generation
  BY DEF AlwaysInv, Reinstall
<1>2. /\ file' = [file EXCEPT ![d] = encrypted[d]]
      /\ encrypted' = [encrypted EXCEPT ![d] = Absent]
      /\ plaintext' = plaintext
      /\ plaintext[d] # Absent /\ file[d] = Absent /\ encrypted[d] # Absent
  BY DEF Reinstall
<1>3. /\ file'[d] = encrypted[d] /\ encrypted'[d] = Absent /\ plaintext'[d] = plaintext[d]
      /\ \A e \in Databases \ {d} : /\ file'[e] = file[e] /\ encrypted'[e] = encrypted[e]
                                    /\ plaintext'[e] = plaintext[e]
  BY <1>1, <1>2 DEF FilesTypeOK
<1>4. \A g \in 1..generation : HeldAt(d, g) => HeldAt(d, g)'
  BY <1>2, <1>3 DEF HeldAt, Holds
<1> QED
  BY <1>1, <1>2, <1>3, <1>4, FilesOf, OneDatabase

LEMMA CleanUpFiles ==
    ASSUME AlwaysInv, FilesInv, NEW l \in Loaders, NEW d \in Databases, CleanUp(l, d)
    PROVE  FilesInv'
<1>1. FilesTypeOK /\ FilesInv /\ generation' = generation
  BY DEF AlwaysInv, CleanUp
<1>2. /\ plaintext' = [plaintext EXCEPT ![d] = Absent]
      /\ file' = file /\ encrypted' = encrypted
      /\ plaintext[d] # Absent /\ encrypted[d] = Absent
  BY DEF CleanUp
<1>3. /\ file'[d] = file[d] /\ encrypted'[d] = Absent /\ plaintext'[d] = Absent
      /\ \A e \in Databases \ {d} : /\ file'[e] = file[e] /\ encrypted'[e] = encrypted[e]
                                    /\ plaintext'[e] = plaintext[e]
  BY <1>1, <1>2 DEF FilesTypeOK
<1>4. \A g \in 1..generation : HeldAt(d, g) => HeldAt(d, g)'
  BY <1>1, <1>2, <1>3, FilesOf DEF HeldAt, Holds
<1> QED
  BY <1>1, <1>2, <1>3, <1>4, FilesOf, OneDatabase

\* StepKnows for the database a thread has in hand.
LEMMA KnownTo ==
    ASSUME AccountInv, Intact, NEW l \in Loaders, loader[l].todo # {}
    PROVE  Current(l) \in Databases /\ Knows(loader[l].pc, Current(l))
<1>1. Current(l) \in Databases
  BY CurrentIn DEF AccountInv, AlwaysInv
<1> QED
  BY <1>1 DEF AccountInv, ThreadsInv, StepKnows

LEMMA ExportStartsFiles ==
    ASSUME AccountInv, Intact, NEW l \in Loaders, ExportStarts(l)
    PROVE  FilesInv'
<1>1. FilesTypeOK /\ FilesInv /\ loader[l].pc = "export"
  BY DEF AccountInv, AlwaysInv, ExportStarts, Step
<1>d. PICK d \in Databases : d = Current(l)
  BY <1>1, CurrentIn DEF AccountInv, ThreadsInv, Threads
<1> DEFINE source == IF file[d] = Absent THEN Fresh(0, FALSE) ELSE file[d]
<1>2. CASE UNCHANGED disk
  BY <1>1, <1>2, DiskUnchanged DEF disk
<1>3. CASE ~UNCHANGED disk
  <2>1. /\ ~source.locked /\ encrypted[d] = Absent
        /\ file' = [file EXCEPT ![d] = source]
        /\ encrypted' = [encrypted EXCEPT ![d] = [source EXCEPT !.whole = FALSE, !.locked = TRUE]]
        /\ plaintext' = plaintext /\ generation' = generation
    BY <1>d, <1>3 DEF ExportStarts
  <2>3. /\ Fresh(0, FALSE) \in Contents /\ Fresh(0, FALSE).whole
        /\ source \in Contents /\ source # Absent /\ source.whole
    <3>1. Fresh(0, FALSE) \in Contents /\ Fresh(0, FALSE).whole
      BY DEF Fresh, Contents
    <3> QED
      BY <1>1, <2>1, <3>1, FilesOf
  <2>4. [source EXCEPT !.whole = FALSE, !.locked = TRUE] \in Contents
    BY <2>3 DEF Contents
  <2>5. plaintext[d] = Absent
    BY <1>1, <2>1, FilesOf
  <2>6. /\ file'[d] = source /\ encrypted'[d] # Absent /\ plaintext'[d] = Absent
        /\ \A e \in Databases \ {d} : /\ file'[e] = file[e] /\ encrypted'[e] = encrypted[e]
                                      /\ plaintext'[e] = plaintext[e]
    BY <1>1, <2>1, <2>4, <2>5 DEF FilesTypeOK
  <2>7. \A g \in 1..generation : HeldAt(d, g) => HeldAt(d, g)'
    BY <2>1, <2>5, <2>6 DEF HeldAt, Holds
  <2> QED
    BY <1>1, <2>1, <2>3, <2>6, <2>7, OneDatabase
<1> QED
  BY <1>2, <1>3

LEMMA ExportEndsFiles ==
    ASSUME AccountInv, Intact, NEW l \in Loaders, ExportEnds(l)
    PROVE  FilesInv'
<1>1. FilesTypeOK /\ FilesInv /\ loader[l].pc = "exporting"
  BY DEF AccountInv, AlwaysInv, ExportEnds, Step
<1>t. loader[l].todo # {}
  BY <1>1 DEF AccountInv, ThreadsInv, Threads, Converting
<1>d. PICK d \in Databases : d = Current(l)
  BY <1>1, <1>t, CurrentIn
<1>2. CASE UNCHANGED disk
  BY <1>1, <1>2, DiskUnchanged DEF disk
<1>3. CASE ~UNCHANGED disk
  <2>1. /\ encrypted' = [encrypted EXCEPT ![d] = [encrypted[d] EXCEPT !.whole = TRUE]]
        /\ file' = file /\ plaintext' = plaintext /\ generation' = generation
    BY <1>d, <1>3 DEF ExportEnds
  <2>3. d \in Databases /\ encrypted[d] # Absent /\ plaintext[d] = Absent
    BY <1>1, <1>t, <1>d, KnownTo DEF Knows
  <2>4. encrypted[d] \in Contents
    BY <1>1, <2>3, FilesOf
  <2>5. /\ [encrypted[d] EXCEPT !.whole = TRUE] \in Contents
        /\ [encrypted[d] EXCEPT !.whole = TRUE].whole
        /\ [encrypted[d] EXCEPT !.whole = TRUE].generation = encrypted[d].generation
    BY <2>4 DEF Contents
  <2>6. /\ file'[d] = file[d] /\ plaintext'[d] = Absent
        /\ encrypted'[d] = [encrypted[d] EXCEPT !.whole = TRUE]
        /\ \A e \in Databases \ {d} : /\ file'[e] = file[e] /\ encrypted'[e] = encrypted[e]
                                      /\ plaintext'[e] = plaintext[e]
    BY <1>1, <2>1, <2>3 DEF FilesTypeOK
  <2>7. \A g \in 1..generation : HeldAt(d, g) => HeldAt(d, g)'
    BY <2>3, <2>5, <2>6 DEF HeldAt, Holds
  <2> QED
    BY <1>1, <2>1, <2>3, <2>6, <2>7, FilesOf, OneDatabase
<1> QED
  BY <1>2, <1>3

LEMMA MoveAsideFiles ==
    ASSUME AccountInv, Intact, NEW l \in Loaders, MoveAside(l)
    PROVE  FilesInv'
<1>1. FilesTypeOK /\ FilesInv /\ loader[l].pc = "exported"
  BY DEF AccountInv, AlwaysInv, MoveAside, Step
<1>t. loader[l].todo # {}
  BY <1>1 DEF AccountInv, ThreadsInv, Threads, Converting
<1>d. PICK d \in Databases : d = Current(l)
  BY <1>1, <1>t, CurrentIn
<1>2. CASE UNCHANGED disk
  BY <1>1, <1>2, DiskUnchanged DEF disk
<1>3. CASE ~UNCHANGED disk
  <2>1. /\ plaintext' = [plaintext EXCEPT ![d] = file[d]]
        /\ file' = [file EXCEPT ![d] = Absent]
        /\ encrypted' = encrypted /\ generation' = generation
    BY <1>d, <1>3 DEF MoveAside
  <2>3. /\ d \in Databases /\ encrypted[d] # Absent /\ plaintext[d] = Absent
        /\ file[d] # Absent /\ ~file[d].locked /\ encrypted[d].whole /\ encrypted[d].locked
        /\ encrypted[d].generation = file[d].generation
    BY <1>1, <1>t, <1>d, KnownTo DEF Knows
  <2>4. /\ file'[d] = Absent /\ plaintext'[d] = file[d] /\ encrypted'[d] = encrypted[d]
        /\ \A e \in Databases \ {d} : /\ file'[e] = file[e] /\ encrypted'[e] = encrypted[e]
                                      /\ plaintext'[e] = plaintext[e]
    BY <1>1, <2>1, <2>3 DEF FilesTypeOK
  <2>5. \A g \in 1..generation : HeldAt(d, g) => HeldAt(d, g)'
    BY <2>3, <2>4 DEF HeldAt, Holds
  <2> QED
    BY <1>1, <2>1, <2>3, <2>4, <2>5, FilesOf, OneDatabase
<1> QED
  BY <1>2, <1>3

\* The rename that takes a failed installation back restores a duplicate.
LEMMA InstallFiles ==
    ASSUME AccountInv, Intact, NEW l \in Loaders, Install(l)
    PROVE  FilesInv'
<1>1. FilesTypeOK /\ FilesInv /\ loader[l].pc = "aside"
  BY DEF AccountInv, AlwaysInv, Install, Step
<1>t. loader[l].todo # {}
  BY <1>1 DEF AccountInv, ThreadsInv, Threads, Converting
<1>d. PICK d \in Databases : d = Current(l)
  BY <1>1, <1>t, CurrentIn
<1>3. /\ d \in Databases
      /\ IF encrypted[d] # Absent
         THEN plaintext[d] # Absent /\ (file[d] # Absent => ~file[d].whole)
         ELSE file[d] # Absent /\ file[d].locked
  BY <1>1, <1>t, <1>d, KnownTo DEF Knows
<1>4. CASE encrypted[d] # Absent
  <2>1. /\ file' = [file EXCEPT ![d] = encrypted[d]]
        /\ encrypted' = [encrypted EXCEPT ![d] = Absent]
        /\ plaintext' = plaintext /\ generation' = generation
    BY <1>d, <1>4 DEF Install
  <2>2. /\ file'[d] = encrypted[d] /\ encrypted'[d] = Absent /\ plaintext'[d] = plaintext[d]
        /\ \A e \in Databases \ {d} : /\ file'[e] = file[e] /\ encrypted'[e] = encrypted[e]
                                      /\ plaintext'[e] = plaintext[e]
    BY <1>1, <1>3, <2>1 DEF FilesTypeOK
  <2>3. \A g \in 1..generation : HeldAt(d, g) => HeldAt(d, g)'
    BY <1>3, <1>4, <2>2 DEF HeldAt, Holds
  <2> QED
    BY <1>1, <1>3, <1>4, <2>1, <2>2, <2>3, FilesOf, OneDatabase
<1>5. CASE encrypted[d] = Absent /\ plaintext[d] # Absent
  <2>1. /\ file' = [file EXCEPT ![d] = plaintext[d]]
        /\ plaintext' = [plaintext EXCEPT ![d] = Absent]
        /\ encrypted' = encrypted /\ generation' = generation
    BY <1>d, <1>5 DEF Install
  <2>2. /\ file'[d] = plaintext[d] /\ encrypted'[d] = Absent /\ plaintext'[d] = Absent
        /\ \A e \in Databases \ {d} : /\ file'[e] = file[e] /\ encrypted'[e] = encrypted[e]
                                      /\ plaintext'[e] = plaintext[e]
    BY <1>1, <1>3, <1>5, <2>1 DEF FilesTypeOK
  <2>3. /\ plaintext[d].whole /\ file[d].generation = plaintext[d].generation
    BY <1>1, <1>3, <1>5, FilesOf
  <2>4. \A g \in 1..generation : HeldAt(d, g) => HeldAt(d, g)'
    BY <1>3, <1>5, <2>2, <2>3 DEF HeldAt, Holds
  <2> QED
    BY <1>1, <1>3, <1>5, <2>1, <2>2, <2>3, <2>4, OneDatabase
<1>6. CASE encrypted[d] = Absent /\ plaintext[d] = Absent
  BY <1>1, <1>d, <1>6, DiskUnchanged DEF Install
<1> QED
  BY <1>4, <1>5, <1>6

LEMMA DropPlaintextFiles ==
    ASSUME AccountInv, Intact, NEW l \in Loaders, DropPlaintext(l)
    PROVE  FilesInv'
<1>1. FilesTypeOK /\ FilesInv /\ loader[l].pc = "installed"
  BY DEF AccountInv, AlwaysInv, DropPlaintext, Step
<1>t. loader[l].todo # {}
  BY <1>1 DEF AccountInv, ThreadsInv, Threads, Converting
<1>d. PICK d \in Databases : d = Current(l)
  BY <1>1, <1>t, CurrentIn
<1>2. CASE UNCHANGED disk
  BY <1>1, <1>2, DiskUnchanged DEF disk
<1>3. CASE ~UNCHANGED disk
  <2>1. /\ plaintext' = [plaintext EXCEPT ![d] = Absent] /\ plaintext[d] # Absent
        /\ file' = file /\ encrypted' = encrypted /\ generation' = generation
    BY <1>d, <1>3 DEF DropPlaintext
  <2>3. d \in Databases /\ encrypted[d] = Absent
    BY <1>1, <1>t, <1>d, KnownTo DEF Knows
  <2>4. /\ file'[d] = file[d] /\ plaintext'[d] = Absent /\ encrypted'[d] = Absent
        /\ \A e \in Databases \ {d} : /\ file'[e] = file[e] /\ encrypted'[e] = encrypted[e]
                                      /\ plaintext'[e] = plaintext[e]
    BY <1>1, <2>1, <2>3 DEF FilesTypeOK
  <2>5. \A g \in 1..generation : HeldAt(d, g) => HeldAt(d, g)'
    BY <1>1, <2>1, <2>3, <2>4, FilesOf DEF HeldAt, Holds
  <2> QED
    BY <1>1, <2>1, <2>3, <2>4, <2>5, FilesOf, OneDatabase
<1> QED
  BY <1>2, <1>3

\* A name that is reserved for a copy was free.
LEMMA OpenFiles ==
    ASSUME AccountInv, Intact, NEW l \in Loaders, Open(l)
    PROVE  FilesInv'
<1>1. FilesTypeOK /\ FilesInv
  BY DEF AccountInv, AlwaysInv
<1>2. CASE UNCHANGED disk
  BY <1>1, <1>2, DiskUnchanged DEF disk
<1>3. CASE ~UNCHANGED disk
  <2>1. /\ FreeBackups # {} /\ file' = [file EXCEPT ![NextBackup] = Reserved]
        /\ encrypted' = encrypted /\ plaintext' = plaintext /\ generation' = generation
    BY <1>3 DEF Open, temporary
  <2>2. PICK b \in Databases : b = NextBackup /\ file[b] = Absent
    BY <2>1, NextBackupFree, DatabasesNat
  <2>3. /\ file'[b] = Reserved /\ encrypted'[b] = encrypted[b] /\ plaintext'[b] = plaintext[b]
        /\ \A e \in Databases \ {b} : /\ file'[e] = file[e] /\ encrypted'[e] = encrypted[e]
                                      /\ plaintext'[e] = plaintext[e]
    BY <1>1, <2>1, <2>2 DEF FilesTypeOK
  <2>4. \A g \in 1..generation : HeldAt(b, g) => HeldAt(b, g)'
    BY <2>2, <2>3 DEF HeldAt, Holds
  <2> QED
    BY <1>1, <2>1, <2>2, <2>3, <2>4, FilesOf, OneDatabase, ReservedContent
<1> QED
  BY <1>2, <1>3

LEMMA BackupFiles ==
    ASSUME AccountInv, Intact, NEW l \in Loaders, Backup(l)
    PROVE  FilesInv'
<1>1. FilesTypeOK /\ FilesInv /\ loader[l].pc = "backup"
  BY DEF AccountInv, AlwaysInv, Backup, Step
<1>2. CASE UNCHANGED disk
  BY <1>1, <1>2, DiskUnchanged DEF disk
<1>3. CASE ~UNCHANGED disk
  <2>1. loader[l].todo # {}
    BY <1>1 DEF AccountInv, ThreadsInv, Threads
  <2>2. PICK d \in Databases : d = Current(l)
    BY <1>1, <2>1, CurrentIn
  <2>3. /\ file' = [file EXCEPT ![d] = file[Main]]
        /\ encrypted' = encrypted /\ plaintext' = plaintext /\ generation' = generation
    BY <1>3, <2>2 DEF Backup, temporary
  <2>4. file[d] # Absent /\ ~file[d].whole
    BY <1>1, <2>1, <2>2, KnownTo DEF Knows
  <2>5. /\ file'[d] = file[Main] /\ encrypted'[d] = encrypted[d] /\ plaintext'[d] = plaintext[d]
        /\ \A e \in Databases \ {d} : /\ file'[e] = file[e] /\ encrypted'[e] = encrypted[e]
                                      /\ plaintext'[e] = plaintext[e]
    BY <1>1, <2>2, <2>3 DEF FilesTypeOK
  <2>6. \A g \in 1..generation : HeldAt(d, g) => HeldAt(d, g)'
    BY <2>4, <2>5 DEF HeldAt, Holds
  <2>7. ~(plaintext[d] # Absent /\ encrypted[d] = Absent)
    BY <1>1, <2>4, FilesOf
  <2>8. Main \in Databases
    BY DatabasesNat
  <2> QED
    BY <1>1, <2>3, <2>5, <2>6, <2>7, <2>8, FilesOf, OneDatabase
<1> QED
  BY <1>2, <1>3

\* Damage, an upgrade of the program and a migration change neither the records
\* nor the encryption.
LEMMA MainRewritten ==
    ASSUME FilesTypeOK, FilesInv, NEW content \in Contents, file[Main] # Absent,
           file' = [file EXCEPT ![Main] = content],
           content.whole = file[Main].whole, content.locked = file[Main].locked,
           content.generation = file[Main].generation,
           UNCHANGED <<encrypted, plaintext, generation>>
    PROVE  FilesInv'
<1>1. PICK d \in Databases : d = Main
  BY DatabasesNat
<1>2. /\ file'[d] = content /\ encrypted'[d] = encrypted[d] /\ plaintext'[d] = plaintext[d]
      /\ \A e \in Databases \ {d} : /\ file'[e] = file[e] /\ encrypted'[e] = encrypted[e]
                                    /\ plaintext'[e] = plaintext[e]
  BY <1>1 DEF FilesTypeOK
<1>3. \A g \in 1..generation : HeldAt(d, g) => HeldAt(d, g)'
  BY <1>1, <1>2 DEF HeldAt, Holds
<1> QED
  BY <1>1, <1>2, <1>3, FilesOf, OneDatabase

LEMMA RewriteOf ==
    ASSUME NEW content \in Contents
    PROVE  /\ [content EXCEPT !.outdated = FALSE] \in Contents
           /\ [content EXCEPT !.outdated = TRUE] \in Contents
           /\ [content EXCEPT !.sound = FALSE] \in Contents
           /\ \A rewritten \in {[content EXCEPT !.outdated = FALSE],
                                [content EXCEPT !.outdated = TRUE],
                                [content EXCEPT !.sound = FALSE]} :
                 /\ rewritten.whole = content.whole /\ rewritten.locked = content.locked
                 /\ rewritten.generation = content.generation
BY DEF Contents

LEMMA MigrateFiles ==
    ASSUME AccountInv, Intact, NEW l \in Loaders, Migrate(l)
    PROVE  FilesInv'
<1>1. FilesTypeOK /\ FilesInv /\ Main \in Databases
  BY DatabasesNat DEF AccountInv, AlwaysInv
<1>2. CASE file[Main] = Absent
  BY <1>1, <1>2, DiskUnchanged DEF Migrate, temporary
<1>3. CASE file[Main] # Absent
  <2>1. file[Main] \in Contents
    BY <1>1, <1>3, FilesOf
  <2>2. /\ file' = [file EXCEPT ![Main] = [file[Main] EXCEPT !.outdated = FALSE]]
        /\ UNCHANGED <<encrypted, plaintext, generation>>
    BY <1>3 DEF Migrate, temporary
  <2> QED
    BY <1>1, <1>3, <2>1, <2>2, RewriteOf, MainRewritten
<1> QED
  BY <1>2, <1>3

LEMMA EnvironmentFiles ==
    ASSUME AccountInv, Intact, Damage \/ Upgrade
    PROVE  FilesInv'
<1>1. FilesTypeOK /\ FilesInv /\ Main \in Databases /\ file[Main] # Absent
  BY DatabasesNat DEF AccountInv, AlwaysInv, Damage, Upgrade
<1>2. file[Main] \in Contents
  BY <1>1, FilesOf
<1>3. /\ \/ file' = [file EXCEPT ![Main] = [file[Main] EXCEPT !.sound = FALSE]]
         \/ file' = [file EXCEPT ![Main] = [file[Main] EXCEPT !.outdated = TRUE]]
      /\ UNCHANGED <<encrypted, plaintext, generation>>
  BY DEF Damage, Upgrade, temporary
<1> QED
  BY <1>1, <1>2, <1>3, RewriteOf, MainRewritten

LEMMA LoadFiles ==
    ASSUME AccountInv, Intact, NEW l \in Loaders, Load(l)
    PROVE  FilesInv'
<1>1. AlwaysInv /\ FilesTypeOK /\ FilesInv
  BY DEF AccountInv, AlwaysInv
<1>2. CASE List(l) \/ AllConverted(l)
  BY <1>1, <1>2, DiskUnchanged DEF List, AllConverted, disk
<1>3. CASE Check(l)
  <2>1. PICK d \in Databases : d = Current(l)
    BY <1>1, <1>3, CurrentIn DEF Check
  <2>2. Reinstall(l, d) \/ CleanUp(l, d) \/ UNCHANGED disk
    BY <1>3, <2>1 DEF Check, WorkspaceExists, ConvertOrSkip
  <2> QED
    BY <1>1, <2>2, ReinstallFiles, CleanUpFiles, DiskUnchanged DEF disk
<1> QED
  BY <1>2, <1>3, ExportStartsFiles, ExportEndsFiles, MoveAsideFiles, InstallFiles,
     DropPlaintextFiles, OpenFiles, BackupFiles, MigrateFiles DEF Load, Convert

\* The database a rebuild moves away is not the duplicate that a plaintext
\* workspace needs.
LEMMA NoPlaintextAlone ==
    ASSUME AccountInv, Intact, ui = "created"
    PROVE  /\ file[Main] # Absent /\ file[Main].whole
           /\ ~(plaintext[Main] # Absent /\ encrypted[Main] = Absent)
<1>1. /\ file[Main] # Absent /\ file[Main].locked = lock /\ file[Main].whole
      /\ \A l \in Loaders : loader[l] = Idle
  BY DEF AccountInv, RebuildInv, RebuildAlone, Rebuilding, RebuildSteps
<1>2. FilesTypeOK /\ FilesInv /\ Main \in Databases
  BY DatabasesNat DEF AccountInv, AlwaysInv
<1>3. ASSUME plaintext[Main] # Absent, encrypted[Main] = Absent PROVE FALSE
  <2>1. lock
    BY <1>1, <1>2, <1>3, FilesOf
  <2>2. \E l \in Loaders : loader[l].pc \in {"check", "installed"}
    BY <1>3, <2>1 DEF AccountInv, RebuildInv, Tended, Alone, Recovering, Tending
  <2> QED
    BY <1>1, <2>2 DEF Idle
<1> QED
  BY <1>1, <1>3

LEMMA PreserveFiles ==
    ASSUME AccountInv, Intact, Preserve
    PROVE  FilesInv'
<1>1. FilesTypeOK /\ FilesInv /\ Main \in Databases /\ ui = "created"
  BY DatabasesNat DEF AccountInv, AlwaysInv, Preserve
<1>2. CASE FreeBackups = {} \/ file[Main] = Absent
  BY <1>1, <1>2, DiskUnchanged DEF Preserve
<1>3. CASE ~(FreeBackups = {} \/ file[Main] = Absent)
  <2>1. PICK b \in Databases : b = NextBackup /\ file[b] = Absent /\ b # Main
    BY <1>3, NextBackupFree, DatabasesNat
  <2>2. /\ file' = [file EXCEPT ![b] = file[Main], ![Main] = Absent]
        /\ UNCHANGED <<encrypted, plaintext, generation>>
    BY <1>3, <2>1 DEF Preserve
  <2>3. /\ file'[b] = file[Main] /\ file'[Main] = Absent
        /\ \A e \in Databases \ {b, Main} : file'[e] = file[e]
    BY <1>1, <2>1, <2>2 DEF FilesTypeOK
  <2>4. FilesWhole'
    BY <1>1, <2>1, <2>2, <2>3 DEF FilesInv, FilesWhole
  <2>5. Pair'
    BY <1>1, <2>2 DEF FilesInv, Pair
  <2>6. Chain'
    BY <1>1, <2>1, <2>2, <2>3, NoPlaintextAlone DEF FilesInv, Chain
  <2>7. Kept'
    <3> SUFFICES ASSUME NEW g \in 1..generation
                 PROVE  \E d \in Databases : HeldAt(d, g)'
      BY <2>2 DEF Kept
    <3>1. PICK d \in Databases : HeldAt(d, g)
      BY <1>1 DEF FilesInv, Kept
    <3>2. CASE d = Main /\ Holds(file[Main], g)
      BY <2>1, <2>3, <3>2 DEF HeldAt, Holds
    <3>3. CASE ~(d = Main /\ Holds(file[Main], g))
      BY <2>1, <2>2, <2>3, <3>1, <3>3 DEF HeldAt, Holds
    <3> QED
      BY <3>2, <3>3
  <2> QED
    BY <2>4, <2>5, <2>6, <2>7 DEF FilesInv
<1> QED
  BY <1>2, <1>3

LEMMA InstallRebuiltFiles ==
    ASSUME AccountInv, Intact, InstallRebuilt
    PROVE  FilesInv'
<1>1. /\ FilesTypeOK /\ FilesInv /\ Main \in Databases
      /\ workspace # Absent /\ workspace.generation = generation + 1
      /\ workspace.whole /\ file[Main] = Absent
  BY DatabasesNat DEF AccountInv, AlwaysInv, WorkspaceInv, RebuildInv, Rebuilding,
                      InstallRebuilt, RebuildSteps
<1>2. /\ file' = [file EXCEPT ![Main] = workspace] /\ generation' = generation + 1
      /\ UNCHANGED <<encrypted, plaintext>>
  BY <1>1 DEF InstallRebuilt
<1>3. file'[Main] = workspace /\ \A e \in Databases \ {Main} : file'[e] = file[e]
  BY <1>1, <1>2 DEF FilesTypeOK
<1>4. FilesWhole'
  BY <1>1, <1>2, <1>3 DEF FilesInv, FilesWhole
<1>5. Pair'
  BY <1>1, <1>2 DEF FilesInv, Pair
<1>6. Chain'
  BY <1>1, <1>2, <1>3 DEF FilesInv, Chain
<1>7. Kept'
  <2> SUFFICES ASSUME NEW g \in 1..generation'
               PROVE  \E d \in Databases : HeldAt(d, g)'
    BY DEF Kept
  <2>1. generation \in Nat
    BY <1>1 DEF FilesTypeOK
  <2>2. CASE g = generation + 1
    BY <1>1, <1>3, <2>2 DEF HeldAt, Holds
  <2>3. CASE g # generation + 1
    <3>1. g \in 1..generation
      BY <1>2, <2>1, <2>3
    <3>2. PICK d \in Databases : HeldAt(d, g)
      BY <1>1, <3>1 DEF FilesInv, Kept
    <3> QED
      BY <1>1, <1>2, <1>3, <3>2 DEF HeldAt, Holds
  <2> QED
    BY <2>2, <2>3
<1> QED
  BY <1>4, <1>5, <1>6, <1>7 DEF FilesInv

\* An account that is removed, or met by a rebuild, stays so.
LEMMA IntactBefore ==
    ASSUME [Next]_vars, Intact'
    PROVE  Intact
<1> USE DEF Intact, Quiet, Finish, Halt
<1>1. ASSUME NEW l \in Loaders, Load(l) PROVE registered' = registered
  <2>1. CASE Convert(l)
    BY <2>1 DEF Convert, List, AllConverted, Check, Reinstall, CleanUp, WorkspaceExists,
                ConvertOrSkip, ExportStarts, ExportEnds, MoveAside, Install, DropPlaintext
  <2>2. CASE Open(l) \/ Backup(l) \/ Migrate(l)
    BY <2>2 DEF Open, Backup, Migrate
  <2> QED
    BY <1>1, <2>1, <2>2 DEF Load
<1>2. ASSUME NEW l \in Loaders, Select(l) \/ Retry(l) PROVE registered' = registered
  BY <1>2 DEF Select, Retry
<1>3. ASSUME Start \/ Leave \/ Stop \/ Removed \/ CopyUniqueRecords \/ Preserve \/ InstallRebuilt
             \/ Damage \/ Upgrade \/ Rebuild
      PROVE  registered' = registered
  BY <1>3 DEF Start, Leave, Stop, Removed, CopyUniqueRecords, Preserve, InstallRebuilt,
              Damage, Upgrade, Rebuild
<1>4. ~Remove
  BY DEF Remove
<1>5. ASSUME NEW d \in Databases, RemoveFile(d) PROVE registered' = registered
  BY <1>5 DEF RemoveFile
<1>6. CASE UNCHANGED vars
  BY <1>6 DEF vars
<1>7. CASE Next
  <2>1. registered' = registered
    BY <1>1, <1>2, <1>3, <1>4, <1>5, <1>7 DEF Next
  <2>2. raced => raced'
    BY <1>7 DEF Next, RebuildMeets
  <2> QED
    BY <2>1, <2>2
<1> QED
  BY <1>6, <1>7

LEMMA FilesStep ==
    ASSUME AccountInv, [Next]_vars, Intact'
    PROVE  FilesInv'
<1>1. Intact /\ FilesInv /\ FilesTypeOK /\ RemovingInv
  BY IntactBefore DEF AccountInv, AlwaysInv
<1>2. CASE Start \/ Leave \/ Remove \/ Removed \/ Stop \/ Rebuild \/ CopyUniqueRecords
           \/ UNCHANGED vars
  BY <1>1, <1>2, DiskUnchanged DEF Start, Leave, Remove, Removed, Stop, Rebuild,
                                   CopyUniqueRecords, disk, vars
<1>3. ASSUME NEW l \in Loaders, Select(l) \/ Retry(l) PROVE FilesInv'
  BY <1>1, <1>3, DiskUnchanged DEF Select, Retry, disk
<1>4. \A d \in Databases : ~RemoveFile(d)
  BY <1>1 DEF RemoveFile, RemovingInv, Intact
<1> QED
  BY <1>1, <1>2, <1>3, <1>4, LoadFiles, PreserveFiles, InstallRebuiltFiles, EnvironmentFiles
     DEF Next

-----------------------------------------------------------------------------
(* The threads: who has a database in hand, and what that thread knows.     *)

\* Which steps belong to a conversion, and which have a database in hand.
LEMMA Steps ==
    /\ {"idle", "open", "backup", "migrate"} \cap Conversion = {}
    /\ {"idle", "list", "check", "export", "open", "migrate"} \cap (Converting \cup {"backup"}) = {}
    /\ {"idle", "list", "check", "open"} \cap {"export", "backup", "migrate"} = {}
BY DEF Conversion, Converting

LEMMA HaltThreads ==
    ASSUME loader' = [l \in Loaders |-> Idle]
    PROVE  ThreadsInv'
BY DEF ThreadsInv, Threads, Exclusive, BackupsDiffer, StepKnows, Knows, InHand, Idle,
       Conversion, Converting

\* One thread takes a step and the files of one database change.
LEMMA OneThread ==
    ASSUME FilesTypeOK, ThreadsInv, NEW l \in Loaders, NEW d \in Databases, NEW pc, NEW todo,
           loader' = [loader EXCEPT ![l] = [pc |-> pc, todo |-> todo]], lock' = lock,
           \A e \in Databases \ {d} : /\ file'[e] = file[e] /\ encrypted'[e] = encrypted[e]
                                      /\ plaintext'[e] = plaintext[e],
           pc \in Conversion => lock,
           pc \in {"backup", "migrate"} => ~lock,
           pc \in {"export"} \cup Converting => todo # {},
           pc = "backup" => \E b \in Backups : todo = {b},
           pc \in Converting \cup {"backup"} => Least(todo) = d /\ Knows(pc, d)',
           pc \in Converting => InHand(l, d) \/ \A m \in Loaders : ~InHand(m, d),
           pc = "backup" => \A m \in Loaders : loader[m].pc = "backup" => Current(m) # d,
           \A m \in Loaders \ {l} : Current(m) = d => Knows(loader[m].pc, d)'
    PROVE  ThreadsInv'
<1>1. /\ loader'[l].pc = pc /\ loader'[l].todo = todo
      /\ \A m \in Loaders \ {l} : loader'[m] = loader[m]
  BY DEF FilesTypeOK
<1>2. Current(l)' = Least(todo) /\ \A m \in Loaders \ {l} : Current(m)' = Current(m)
  BY <1>1 DEF Current
<1>3. Threads'
  BY <1>1 DEF ThreadsInv, Threads
<1>4. Exclusive'
  BY <1>1, <1>2 DEF ThreadsInv, Exclusive, InHand
<1>5. BackupsDiffer'
  BY <1>1, <1>2 DEF ThreadsInv, BackupsDiffer
<1>6. StepKnows'
  <2> SUFFICES ASSUME NEW m \in Loaders, NEW e \in Databases, Current(m)' = e
               PROVE  Knows(loader[m].pc, e)'
    BY DEF StepKnows
  <2>1. CASE m = l /\ pc \in Converting \cup {"backup"}
    BY <1>1, <1>2, <2>1
  <2>2. CASE m = l /\ pc \notin Converting \cup {"backup"}
    BY <1>1, <2>2 DEF Knows, Converting
  <2>3. CASE m # l /\ e = d
    BY <1>2, <2>3
  <2>4. CASE m # l /\ e # d
    <3>1. Knows(loader[m].pc, e)
      BY <1>2, <2>4 DEF ThreadsInv, StepKnows
    <3> QED
      BY <1>1, <2>4, <3>1 DEF Knows
  <2> QED
    BY <2>1, <2>2, <2>3, <2>4
<1> QED
  BY <1>3, <1>4, <1>5, <1>6 DEF ThreadsInv

LEMMA FinishThreads ==
    ASSUME FilesTypeOK, ThreadsInv, NEW l \in Loaders, NEW d \in Databases, NEW outcome,
           Finish(l, outcome),
           \A e \in Databases \ {d} : /\ file'[e] = file[e] /\ encrypted'[e] = encrypted[e]
                                      /\ plaintext'[e] = plaintext[e],
           \A m \in Loaders \ {l} : Current(m) = d => Knows(loader[m].pc, d)'
    PROVE  ThreadsInv'
<1>1. CASE loader' = [m \in Loaders |-> Idle]
  BY <1>1, HaltThreads
<1>2. CASE loader' = [loader EXCEPT ![l] = [pc |-> "idle", todo |-> {}]]
  BY <1>2, OneThread DEF Finish, Conversion, Converting
<1> QED
  BY <1>1, <1>2 DEF Finish, Halt, Idle

\* A step of one thread that changes no file and takes nothing in hand.
LEMMA ThreadMoves ==
    ASSUME FilesTypeOK, ThreadsInv, NEW l \in Loaders, NEW pc, NEW todo,
           loader' = [loader EXCEPT ![l] = [pc |-> pc, todo |-> todo]], lock' = lock,
           UNCHANGED <<file, encrypted, plaintext>>,
           pc \notin Converting \cup {"backup"},
           pc \in Conversion => lock, pc = "migrate" => ~lock, pc = "export" => todo # {}
    PROVE  ThreadsInv'
<1>1. \A m \in Loaders : Current(m) = Main => Knows(loader[m].pc, Main)
  BY DatabasesNat DEF ThreadsInv, StepKnows
<1>2. \A m \in Loaders \ {l} : Current(m) = Main => Knows(loader[m].pc, Main)'
  <2> SUFFICES ASSUME NEW m \in Loaders \ {l}, Current(m) = Main
               PROVE  Knows(loader[m].pc, Main)'
    OBVIOUS
  <2>1. loader'[m] = loader[m]
    BY DEF FilesTypeOK
  <2> QED
    BY <1>1, <2>1 DEF Knows
<1> QED
  BY <1>2, OneThread, DatabasesNat DEF Conversion, Converting

LEMMA FinishMoves ==
    ASSUME FilesTypeOK, ThreadsInv, NEW l \in Loaders, NEW outcome, Finish(l, outcome),
           UNCHANGED <<file, encrypted, plaintext>>
    PROVE  ThreadsInv'
<1>1. CASE loader' = [m \in Loaders |-> Idle]
  BY <1>1, HaltThreads
<1>2. CASE loader' = [loader EXCEPT ![l] = [pc |-> "idle", todo |-> {}]]
  <2>1. lock' = lock
    BY DEF Finish
  <2> QED
    BY <1>2, <2>1, Steps, ThreadMoves
<1> QED
  BY <1>1, <1>2 DEF Finish, Halt, Idle

\* Steps that a thread other than l may be at with database d.
Possible(step, l, d) ==
    /\ step \in Converting => lock /\ ~InHand(l, d)
    /\ step = "backup" => ~lock /\ ~(loader[l].pc = "backup" /\ Current(l) = d)

\* What another thread knows of the database survives a step that changes it.
LEMMA OthersKnow ==
    ASSUME FilesTypeOK, ThreadsInv, NEW l \in Loaders, NEW d \in Databases, NEW pc, NEW todo,
           \/ loader' = [loader EXCEPT ![l] = [pc |-> pc, todo |-> todo]]
           \/ loader' = [m \in Loaders |-> Idle],
           \A step \in LoadSteps :
              Knows(step, d) /\ Possible(step, l, d) => Knows(step, d)'
    PROVE  \A m \in Loaders \ {l} : Current(m) = d => Knows(loader[m].pc, d)'
<1> SUFFICES ASSUME NEW m \in Loaders \ {l}, Current(m) = d
             PROVE  Knows(loader[m].pc, d)'
  OBVIOUS
<1>1. loader'[m].pc \in {loader[m].pc, "idle"}
  BY DEF FilesTypeOK, Idle
<1>2. Knows("idle", d)'
  BY DEF Knows
<1>3. loader[m].pc \in LoadSteps /\ Knows(loader[m].pc, d)
  BY DEF FilesTypeOK, ThreadsInv, StepKnows
<1>4. Possible(loader[m].pc, l, d)
  <2>1. loader[m].pc \in Converting => lock /\ ~InHand(l, d)
    BY DEF InHand, ThreadsInv, Exclusive, Threads, Conversion
  <2>2. loader[m].pc = "backup" => ~lock /\ ~(loader[l].pc = "backup" /\ Current(l) = d)
    BY DEF ThreadsInv, BackupsDiffer, Threads
  <2> QED
    BY <2>1, <2>2 DEF Possible
<1>5. Knows(loader[m].pc, d) => \A step \in LoadSteps : step = loader[m].pc => Knows(step, d)'
  BY <1>3, <1>4
<1> QED
  BY <1>1, <1>2, <1>3, <1>5

LEMMA CheckThreads ==
    ASSUME AccountInv, Intact, NEW l \in Loaders, Check(l)
    PROVE  ThreadsInv'
<1>1. FilesTypeOK /\ FilesInv /\ ThreadsInv /\ loader[l].pc = "check" /\ lock
  BY DEF AccountInv, AlwaysInv, Check, Step, ThreadsInv, Threads, Conversion
<1>2. PICK d \in Databases : d = Current(l)
  BY <1>1, CurrentIn DEF Check
<1>3. CASE Reinstall(l, d)
  <2>1. /\ file' = [file EXCEPT ![d] = encrypted[d]]
        /\ encrypted' = [encrypted EXCEPT ![d] = Absent]
        /\ plaintext' = plaintext /\ loader' = loader /\ lock' = lock
        /\ plaintext[d] # Absent /\ file[d] = Absent /\ encrypted[d] # Absent
    BY <1>3 DEF Reinstall, Quiet
  <2>2. /\ file'[d] = encrypted[d] /\ encrypted'[d] = Absent /\ plaintext'[d] = plaintext[d]
        /\ \A e \in Databases \ {d} : /\ file'[e] = file[e] /\ encrypted'[e] = encrypted[e]
                                      /\ plaintext'[e] = plaintext[e]
    BY <1>1, <2>1 DEF FilesTypeOK
  <2>3. loader' = [loader EXCEPT ![l] = [pc |-> "check", todo |-> loader[l].todo]]
    BY <1>1, <2>1 DEF FilesTypeOK
  <2>4. \A step \in LoadSteps : Knows(step, d) => Knows(step, d)'
    BY <1>1, <2>1, <2>2, FilesOf DEF Knows
  <2>5. \A m \in Loaders \ {l} : Current(m) = d => Knows(loader[m].pc, d)'
    BY <1>1, <2>3, <2>4, OthersKnow
  <2> QED
    <3>1. \A e \in Databases \ {d} : /\ file'[e] = file[e] /\ encrypted'[e] = encrypted[e]
                                     /\ plaintext'[e] = plaintext[e]
      BY <2>2
    <3>2. lock' = lock
      BY <2>1
    <3> QED
      BY <1>1, <2>3, <2>5, <3>1, <3>2, Steps, OneThread
<1>4. CASE CleanUp(l, d)
  <2>1. /\ plaintext' = [plaintext EXCEPT ![d] = Absent]
        /\ file' = file /\ encrypted' = encrypted /\ lock' = lock
        /\ loader' = [loader EXCEPT ![l] = [pc |-> "check", todo |-> loader[l].todo \ {Current(l)}]]
        /\ plaintext[d] # Absent /\ encrypted[d] = Absent
    BY <1>4 DEF CleanUp, Quiet, Done
  <2>2. /\ plaintext'[d] = Absent
        /\ \A e \in Databases \ {d} : /\ file'[e] = file[e] /\ encrypted'[e] = encrypted[e]
                                      /\ plaintext'[e] = plaintext[e]
    BY <1>1, <2>1 DEF FilesTypeOK
  <2>3. \A step \in LoadSteps : Knows(step, d) => Knows(step, d)'
    BY <2>1, <2>2 DEF Knows
  <2>4. \A m \in Loaders \ {l} : Current(m) = d => Knows(loader[m].pc, d)'
    BY <1>1, <2>1, <2>3, OthersKnow
  <2> QED
    BY <1>1, <2>1, <2>2, <2>4, OneThread DEF Conversion, Converting
<1>5. CASE WorkspaceExists(l, d)
  BY <1>1, <1>5, FinishMoves DEF WorkspaceExists, disk
<1>6. CASE ConvertOrSkip(l, d)
  <2>1. UNCHANGED <<file, encrypted, plaintext>> /\ lock' = lock
    BY <1>6 DEF ConvertOrSkip, disk, Quiet
  <2>2. CASE Go(l, "export")
    <3>1. loader[l].todo # {}
      BY DEF Check
    <3>2. loader' = [loader EXCEPT ![l] = [pc |-> "export", todo |-> loader[l].todo]]
      BY <1>1, <2>2, GoIs
    <3> QED
      BY <1>1, <2>1, <3>1, <3>2, Steps, ThreadMoves
  <2>3. CASE Done(l)
    <3>1. loader' = [loader EXCEPT ![l] = [pc |-> "check", todo |-> loader[l].todo \ {Current(l)}]]
      BY <2>3 DEF Done
    <3> QED
      BY <1>1, <2>1, <3>1, ThreadMoves DEF Conversion, Converting
  <2> QED
    BY <1>6, <2>2, <2>3 DEF ConvertOrSkip
<1> QED
  BY <1>2, <1>3, <1>4, <1>5, <1>6 DEF Check

\* OneThread for a step of a thread that has the database in hand after it.
LEMMA ConvertingThread ==
    ASSUME FilesTypeOK, ThreadsInv, NEW l \in Loaders, NEW d \in Databases, NEW pc \in Converting,
           loader' = [loader EXCEPT ![l] = [pc |-> pc, todo |-> loader[l].todo]],
           lock, lock' = lock, loader[l].todo # {}, Current(l) = d,
           \A e \in Databases \ {d} : /\ file'[e] = file[e] /\ encrypted'[e] = encrypted[e]
                                      /\ plaintext'[e] = plaintext[e],
           Knows(pc, d)', InHand(l, d) \/ \A m \in Loaders : ~InHand(m, d),
           \A m \in Loaders \ {l} : Current(m) = d => Knows(loader[m].pc, d)'
    PROVE  ThreadsInv'
<1> DEFINE todo == loader[l].todo
<1>1. Least(todo) = d /\ todo # {}
  BY DEF Current
<1>2. pc \notin {"backup", "migrate"}
  BY DEF Converting
<1>3. loader' = [loader EXCEPT ![l] = [pc |-> pc, todo |-> todo]]
  OBVIOUS
<1> HIDE DEF todo
<1> QED
  BY <1>1, <1>2, <1>3, OneThread

LEMMA ExportStartsThreads ==
    ASSUME AccountInv, Intact, NEW l \in Loaders, ExportStarts(l)
    PROVE  ThreadsInv'
<1>1. /\ FilesTypeOK /\ FilesInv /\ ThreadsInv /\ loader[l].pc = "export" /\ lock
      /\ loader[l].todo # {}
  BY DEF AccountInv, AlwaysInv, ExportStarts, Step, ThreadsInv, Threads, Conversion
<1>2. PICK d \in Databases : d = Current(l)
  BY <1>1, CurrentIn
<1> DEFINE source == IF file[d] = Absent THEN Fresh(0, FALSE) ELSE file[d]
<1>3. CASE Finish(l, "error") /\ UNCHANGED disk
  BY <1>1, <1>3, FinishMoves DEF disk
<1>4. CASE ~(Finish(l, "error") /\ UNCHANGED disk)
  <2>1. /\ ~source.locked /\ encrypted[d] = Absent
        /\ file' = [file EXCEPT ![d] = source]
        /\ encrypted' = [encrypted EXCEPT ![d] = [source EXCEPT !.whole = FALSE, !.locked = TRUE]]
        /\ plaintext' = plaintext /\ lock' = lock /\ Go(l, "exporting")
    BY <1>2, <1>4 DEF ExportStarts, Quiet
  <2>2. Fresh(0, FALSE) \in Contents
    BY DEF Fresh, Contents
  <2>3. source \in Contents /\ source # Absent
    BY <1>1, <2>2, FilesOf
  <2>4. /\ [source EXCEPT !.whole = FALSE, !.locked = TRUE] \in Contents
        /\ [source EXCEPT !.whole = FALSE, !.locked = TRUE].locked
        /\ [source EXCEPT !.whole = FALSE, !.locked = TRUE].generation = source.generation
    BY <2>3 DEF Contents
  <2>5. plaintext[d] = Absent
    BY <1>1, <2>1, FilesOf
  <2>6. /\ file'[d] = source /\ plaintext'[d] = Absent
        /\ encrypted'[d] = [source EXCEPT !.whole = FALSE, !.locked = TRUE]
        /\ \A e \in Databases \ {d} : /\ file'[e] = file[e] /\ encrypted'[e] = encrypted[e]
                                      /\ plaintext'[e] = plaintext[e]
    BY <1>1, <2>1, <2>5 DEF FilesTypeOK
  <2>7. Knows("exporting", d)'
    <3>1. encrypted'[d] # Absent /\ encrypted'[d].locked
      BY <2>4, <2>6
    <3>2. /\ file'[d] # Absent /\ ~file'[d].locked
          /\ encrypted'[d].generation = file'[d].generation
      BY <2>1, <2>3, <2>4, <2>6
    <3> QED
      BY <2>6, <3>1, <3>2 DEF Knows
  <2>8. loader' = [loader EXCEPT ![l] = [pc |-> "exporting", todo |-> loader[l].todo]]
    BY <1>1, <2>1, GoIs
  <2>9. \A step \in LoadSteps : Knows(step, d) /\ Possible(step, l, d) => Knows(step, d)'
    BY <2>1, <2>6 DEF Knows
  <2>10. \A m \in Loaders \ {l} : Current(m) = d => Knows(loader[m].pc, d)'
    BY <1>1, <2>8, <2>9, OthersKnow
  <2>11. \A m \in Loaders : ~InHand(m, d)
    <3> SUFFICES ASSUME NEW m \in Loaders, InHand(m, d) PROVE FALSE
      OBVIOUS
    <3>1. Knows(loader[m].pc, d)
      BY <1>1 DEF InHand, ThreadsInv, StepKnows
    <3> QED
      BY <2>1, <3>1 DEF InHand, Knows, Converting
  <2>12. lock' = lock /\ "exporting" \in Converting
    BY <2>1 DEF Converting
  <2>13. \A e \in Databases \ {d} : /\ file'[e] = file[e] /\ encrypted'[e] = encrypted[e]
                                    /\ plaintext'[e] = plaintext[e]
    BY <2>6
  <2> QED
    BY <1>1, <1>2, <2>7, <2>8, <2>10, <2>11, <2>12, <2>13, ConvertingThread
<1> QED
  BY <1>3, <1>4

LEMMA ExportEndsThreads ==
    ASSUME AccountInv, Intact, NEW l \in Loaders, ExportEnds(l)
    PROVE  ThreadsInv'
<1>1. FilesTypeOK /\ FilesInv /\ ThreadsInv /\ loader[l].pc = "exporting"
  BY DEF AccountInv, AlwaysInv, ExportEnds, Step
<1>2. lock /\ loader[l].todo # {} /\ "exporting" \in Converting
  BY <1>1 DEF ThreadsInv, Threads, Conversion, Converting
<1>3. PICK d \in Databases : d = Current(l)
  BY <1>1, <1>2, CurrentIn
<1>4. CASE Finish(l, "error") /\ UNCHANGED disk
  BY <1>1, <1>4, FinishMoves DEF disk
<1>5. CASE ~(Finish(l, "error") /\ UNCHANGED disk)
  <2>1. /\ encrypted' = [encrypted EXCEPT ![d] = [encrypted[d] EXCEPT !.whole = TRUE]]
        /\ encrypted[d] # Absent
        /\ file' = file /\ plaintext' = plaintext /\ lock' = lock /\ Go(l, "exported")
    BY <1>3, <1>5 DEF ExportEnds, Quiet
  <2>2. Knows("exporting", d) /\ InHand(l, d)
    BY <1>1, <1>2, <1>3 DEF ThreadsInv, StepKnows, InHand
  <2>3. encrypted[d] \in Contents
    BY <1>1, <2>1, FilesOf
  <2>4. /\ [encrypted[d] EXCEPT !.whole = TRUE] \in Contents
        /\ [encrypted[d] EXCEPT !.whole = TRUE].whole
        /\ [encrypted[d] EXCEPT !.whole = TRUE].locked = encrypted[d].locked
        /\ [encrypted[d] EXCEPT !.whole = TRUE].generation = encrypted[d].generation
    BY <2>3 DEF Contents
  <2>5. /\ encrypted'[d] = [encrypted[d] EXCEPT !.whole = TRUE]
        /\ \A e \in Databases \ {d} : /\ file'[e] = file[e] /\ encrypted'[e] = encrypted[e]
                                      /\ plaintext'[e] = plaintext[e]
    BY <1>1, <2>1 DEF FilesTypeOK
  <2>6. Knows("exported", d)'
    BY <2>1, <2>2, <2>4, <2>5 DEF Knows
  <2>7. loader' = [loader EXCEPT ![l] = [pc |-> "exported", todo |-> loader[l].todo]]
    BY <1>1, <2>1, GoIs
  <2>8. \A step \in LoadSteps : Knows(step, d) /\ Possible(step, l, d) => Knows(step, d)'
    BY <1>2, <2>1, <2>2 DEF Knows, Possible, Converting
  <2>9. \A m \in Loaders \ {l} : Current(m) = d => Knows(loader[m].pc, d)'
    BY <1>1, <2>7, <2>8, OthersKnow
  <2>10. lock' = lock /\ "exported" \in Converting
    BY <2>1 DEF Converting
  <2>11. \A e \in Databases \ {d} : /\ file'[e] = file[e] /\ encrypted'[e] = encrypted[e]
                                    /\ plaintext'[e] = plaintext[e]
    BY <2>5
  <2> QED
    BY <1>1, <1>2, <1>3, <2>2, <2>6, <2>7, <2>9, <2>10, <2>11, ConvertingThread
<1> QED
  BY <1>4, <1>5

LEMMA MoveAsideThreads ==
    ASSUME AccountInv, Intact, NEW l \in Loaders, MoveAside(l)
    PROVE  ThreadsInv'
<1>1. FilesTypeOK /\ FilesInv /\ ThreadsInv /\ loader[l].pc = "exported"
  BY DEF AccountInv, AlwaysInv, MoveAside, Step
<1>2. lock /\ loader[l].todo # {} /\ "exported" \in Converting
  BY <1>1 DEF ThreadsInv, Threads, Conversion, Converting
<1>3. PICK d \in Databases : d = Current(l)
  BY <1>1, <1>2, CurrentIn
<1>4. CASE Finish(l, "error") /\ UNCHANGED disk
  BY <1>1, <1>4, FinishMoves DEF disk
<1>5. CASE ~(Finish(l, "error") /\ UNCHANGED disk)
  <2>1. /\ plaintext' = [plaintext EXCEPT ![d] = file[d]]
        /\ file' = [file EXCEPT ![d] = Absent]
        /\ encrypted' = encrypted /\ lock' = lock /\ Go(l, "aside")
    BY <1>3, <1>5 DEF MoveAside, Quiet
  <2>2. Knows("exported", d) /\ InHand(l, d)
    BY <1>1, <1>2, <1>3 DEF ThreadsInv, StepKnows, InHand
  <2>3. /\ file'[d] = Absent /\ plaintext'[d] = file[d]
        /\ \A e \in Databases \ {d} : /\ file'[e] = file[e] /\ encrypted'[e] = encrypted[e]
                                      /\ plaintext'[e] = plaintext[e]
    BY <1>1, <2>1 DEF FilesTypeOK
  <2>4. Knows("aside", d)'
    BY <2>1, <2>2, <2>3 DEF Knows
  <2>5. loader' = [loader EXCEPT ![l] = [pc |-> "aside", todo |-> loader[l].todo]]
    BY <1>1, <2>1, GoIs
  <2>6. \A step \in LoadSteps : Knows(step, d) /\ Possible(step, l, d) => Knows(step, d)'
    BY <1>2, <2>2 DEF Knows, Possible, Converting
  <2>7. \A m \in Loaders \ {l} : Current(m) = d => Knows(loader[m].pc, d)'
    BY <1>1, <2>5, <2>6, OthersKnow
  <2>8. lock' = lock /\ "aside" \in Converting
    BY <2>1 DEF Converting
  <2>9. \A e \in Databases \ {d} : /\ file'[e] = file[e] /\ encrypted'[e] = encrypted[e]
                                   /\ plaintext'[e] = plaintext[e]
    BY <2>3
  <2> QED
    BY <1>1, <1>2, <1>3, <2>2, <2>4, <2>5, <2>7, <2>8, <2>9, ConvertingThread
<1> QED
  BY <1>4, <1>5

LEMMA InstallThreads ==
    ASSUME AccountInv, Intact, NEW l \in Loaders, Install(l)
    PROVE  ThreadsInv'
<1>1. FilesTypeOK /\ FilesInv /\ ThreadsInv /\ loader[l].pc = "aside"
  BY DEF AccountInv, AlwaysInv, Install, Step
<1>2. lock /\ loader[l].todo # {} /\ "aside" \in Converting
  BY <1>1 DEF ThreadsInv, Threads, Conversion, Converting
<1>3. PICK d \in Databases : d = Current(l)
  BY <1>1, <1>2, CurrentIn
<1>4. Knows("aside", d) /\ InHand(l, d)
  BY <1>1, <1>2, <1>3 DEF ThreadsInv, StepKnows, InHand
<1>5. \A step \in LoadSteps : Knows(step, d) /\ Possible(step, l, d) => Knows(step, d)'
  BY <1>2, <1>4 DEF Knows, Possible, Converting
<1>6. CASE encrypted[d] # Absent
  <2>1. /\ file' = [file EXCEPT ![d] = encrypted[d]]
        /\ encrypted' = [encrypted EXCEPT ![d] = Absent]
        /\ plaintext' = plaintext /\ lock' = lock /\ Go(l, "installed")
    BY <1>3, <1>6 DEF Install, Quiet
  <2>2. /\ file'[d] = encrypted[d] /\ encrypted'[d] = Absent
        /\ \A e \in Databases \ {d} : /\ file'[e] = file[e] /\ encrypted'[e] = encrypted[e]
                                      /\ plaintext'[e] = plaintext[e]
    BY <1>1, <2>1 DEF FilesTypeOK
  <2>3. encrypted[d].locked
    BY <1>1, <1>4, <1>6, FilesOf DEF Knows
  <2>4. Knows("installed", d)'
    BY <1>6, <2>2, <2>3 DEF Knows
  <2>5. loader' = [loader EXCEPT ![l] = [pc |-> "installed", todo |-> loader[l].todo]]
    BY <1>1, <2>1, GoIs
  <2>6. \A m \in Loaders \ {l} : Current(m) = d => Knows(loader[m].pc, d)'
    BY <1>1, <1>5, <2>5, OthersKnow
  <2>7. lock' = lock /\ "installed" \in Converting
    BY <2>1 DEF Converting
  <2>8. \A e \in Databases \ {d} : /\ file'[e] = file[e] /\ encrypted'[e] = encrypted[e]
                                   /\ plaintext'[e] = plaintext[e]
    BY <2>2
  <2> QED
    BY <1>1, <1>2, <1>3, <1>4, <2>4, <2>5, <2>6, <2>7, <2>8, ConvertingThread
<1>7. CASE encrypted[d] = Absent
  <2>1. Finish(l, "error") /\ encrypted' = encrypted
    BY <1>3, <1>7 DEF Install
  <2>2. \/ file' = file /\ plaintext' = plaintext
        \/ /\ file' = [file EXCEPT ![d] = plaintext[d]]
           /\ plaintext' = [plaintext EXCEPT ![d] = Absent]
    BY <1>3, <1>7 DEF Install
  <2>3. \A e \in Databases \ {d} : /\ file'[e] = file[e] /\ encrypted'[e] = encrypted[e]
                                   /\ plaintext'[e] = plaintext[e]
    BY <1>1, <2>1, <2>2 DEF FilesTypeOK
  <2>4. \/ loader' = [loader EXCEPT ![l] = [pc |-> "idle", todo |-> {}]]
        \/ loader' = [m \in Loaders |-> Idle]
    BY <2>1 DEF Finish, Halt, Idle
  <2>5. \A m \in Loaders \ {l} : Current(m) = d => Knows(loader[m].pc, d)'
    BY <1>1, <1>5, <2>4, OthersKnow
  <2> QED
    BY <1>1, <2>1, <2>3, <2>5, FinishThreads
<1> QED
  BY <1>6, <1>7

LEMMA DropPlaintextThreads ==
    ASSUME AccountInv, Intact, NEW l \in Loaders, DropPlaintext(l)
    PROVE  ThreadsInv'
<1>1. FilesTypeOK /\ FilesInv /\ ThreadsInv /\ loader[l].pc = "installed"
  BY DEF AccountInv, AlwaysInv, DropPlaintext, Step
<1>2. lock /\ loader[l].todo # {} /\ "installed" \in Converting
  BY <1>1 DEF ThreadsInv, Threads, Conversion, Converting
<1>3. PICK d \in Databases : d = Current(l)
  BY <1>1, <1>2, CurrentIn
<1>4. CASE Finish(l, "error") /\ UNCHANGED disk
  BY <1>1, <1>4, FinishMoves DEF disk
<1>5. CASE ~(Finish(l, "error") /\ UNCHANGED disk)
  <2>1. /\ plaintext' = [plaintext EXCEPT ![d] = Absent]
        /\ file' = file /\ encrypted' = encrypted /\ lock' = lock
    BY <1>3, <1>5 DEF DropPlaintext, Quiet
  <2>2. \A e \in Databases \ {d} : /\ file'[e] = file[e] /\ encrypted'[e] = encrypted[e]
                                   /\ plaintext'[e] = plaintext[e]
    BY <1>1, <2>1 DEF FilesTypeOK
  <2>3. InHand(l, d)
    BY <1>1, <1>2, <1>3 DEF InHand
  <2>4. \A step \in LoadSteps : Knows(step, d) /\ Possible(step, l, d) => Knows(step, d)'
    BY <1>2, <2>3 DEF Knows, Possible, Converting
  <2>5. PICK todo : loader' = [loader EXCEPT ![l] = [pc |-> "check", todo |-> todo]]
    BY <1>5 DEF DropPlaintext, Done
  <2>6. \A m \in Loaders \ {l} : Current(m) = d => Knows(loader[m].pc, d)'
    BY <1>1, <2>4, <2>5, OthersKnow
  <2>7. lock' = lock
    BY <2>1
  <2> QED
    BY <1>1, <1>2, <2>2, <2>5, <2>6, <2>7, Steps, OneThread
<1> QED
  BY <1>4, <1>5

LEMMA OpenThreads ==
    ASSUME AccountInv, Intact, NEW l \in Loaders, Open(l)
    PROVE  ThreadsInv'
<1>1. FilesTypeOK /\ FilesInv /\ ThreadsInv /\ loader[l].pc = "open"
  BY DEF AccountInv, AlwaysInv, Open, Step
<1>2. CASE file' = file
  <2>1. (\E o \in {"error", "session", "recovery"} : Finish(l, o)) /\ UNCHANGED disk
    <3>1. CASE FreeBackups = {}
      BY <1>1, <1>2, <3>1 DEF Open
    <3>2. CASE FreeBackups # {}
      <4>1. NextBackup \in Databases /\ file[NextBackup] = Absent
        BY <3>2, NextBackupFree, DatabasesNat
      <4>2. file' # [file EXCEPT ![NextBackup] = Reserved]
        BY <1>1, <1>2, <4>1, ReservedContent DEF FilesTypeOK
      <4> QED
        BY <1>1, <3>2, <4>2 DEF Open
    <3> QED
      BY <3>1, <3>2
  <2> QED
    BY <1>1, <2>1, FinishMoves DEF disk
<1>3. CASE file' # file
  <2>1. /\ FreeBackups # {} /\ file' = [file EXCEPT ![NextBackup] = Reserved]
        /\ encrypted' = encrypted /\ plaintext' = plaintext
        /\ \/ Finish(l, "recovery")
           \/ /\ loader' = [loader EXCEPT ![l] = [pc |-> "backup", todo |-> {NextBackup}]]
              /\ lock' = lock /\ ~lock
    BY <1>3 DEF Open, temporary, disk, Quiet
  <2>2. PICK b \in Databases : b = NextBackup /\ b \in Backups /\ file[b] = Absent
    BY <2>1, NextBackupFree, DatabasesNat
  <2>3. /\ file'[b] = Reserved /\ encrypted'[b] = encrypted[b] /\ plaintext'[b] = plaintext[b]
        /\ \A e \in Databases \ {b} : /\ file'[e] = file[e] /\ encrypted'[e] = encrypted[e]
                                      /\ plaintext'[e] = plaintext[e]
    BY <1>1, <2>1, <2>2 DEF FilesTypeOK
  <2>4. \A step \in LoadSteps : Knows(step, b) => Knows(step, b)'
    BY <2>2, <2>3, ReservedContent DEF Knows
  <2>5. \A e \in Databases \ {b} : /\ file'[e] = file[e] /\ encrypted'[e] = encrypted[e]
                                   /\ plaintext'[e] = plaintext[e]
    BY <2>3
  <2>6. CASE Finish(l, "recovery")
    <3>1. \/ loader' = [loader EXCEPT ![l] = [pc |-> "idle", todo |-> {}]]
          \/ loader' = [m \in Loaders |-> Idle]
      BY <2>6 DEF Finish, Halt, Idle
    <3>2. \A m \in Loaders \ {l} : Current(m) = b => Knows(loader[m].pc, b)'
      BY <1>1, <2>4, <3>1, OthersKnow
    <3> QED
      BY <1>1, <2>5, <2>6, <3>2, FinishThreads
  <2>7. CASE ~Finish(l, "recovery")
    <3>1. loader' = [loader EXCEPT ![l] = [pc |-> "backup", todo |-> {b}]] /\ lock' = lock /\ ~lock
      BY <2>1, <2>2, <2>7
    <3>2. \A m \in Loaders \ {l} : Current(m) = b => Knows(loader[m].pc, b)'
      BY <1>1, <2>4, <3>1, OthersKnow
    <3>3. Least({b}) = b
      <4>1. {b} \in SUBSET Nat
        BY DatabasesNat
      <4> QED
        BY <4>1, LeastIn
    <3>4. Knows("backup", b)'
      BY <2>3, ReservedContent DEF Knows
    <3>5. \A m \in Loaders : loader[m].pc = "backup" => Current(m) # b
      BY <1>1, <2>2 DEF ThreadsInv, StepKnows, Knows
    <3>6. "backup" \notin Conversion \cup {"export"} \cup Converting
      BY DEF Conversion, Converting
    <3>7. \E n \in Backups : {b} = {n}
      BY <2>2
    <3> QED
      BY <1>1, <2>5, <3>1, <3>2, <3>3, <3>4, <3>5, <3>6, <3>7, OneThread
  <2> QED
    BY <2>6, <2>7
<1> QED
  BY <1>2, <1>3

LEMMA BackupThreads ==
    ASSUME AccountInv, Intact, NEW l \in Loaders, Backup(l)
    PROVE  ThreadsInv'
<1>1. FilesTypeOK /\ FilesInv /\ ThreadsInv /\ loader[l].pc = "backup"
  BY DEF AccountInv, AlwaysInv, Backup, Step
<1>2. ~lock /\ loader[l].todo # {}
  BY <1>1 DEF ThreadsInv, Threads
<1>3. PICK d \in Databases : d = Current(l)
  BY <1>1, <1>2, CurrentIn
<1>4. CASE Finish(l, "recovery") /\ UNCHANGED disk
  BY <1>1, <1>4, FinishMoves DEF disk
<1>5. CASE ~(Finish(l, "recovery") /\ UNCHANGED disk)
  <2>1. /\ file' = [file EXCEPT ![d] = file[Main]]
        /\ encrypted' = encrypted /\ plaintext' = plaintext /\ lock' = lock /\ Go(l, "migrate")
    BY <1>3, <1>5 DEF Backup, temporary, Quiet
  <2>2. \A e \in Databases \ {d} : /\ file'[e] = file[e] /\ encrypted'[e] = encrypted[e]
                                   /\ plaintext'[e] = plaintext[e]
    BY <1>1, <2>1 DEF FilesTypeOK
  <2>3. loader' = [loader EXCEPT ![l] = [pc |-> "migrate", todo |-> loader[l].todo]]
    BY <1>1, <2>1, GoIs
  <2>4. \A step \in LoadSteps : Possible(step, l, d) => Knows(step, d)'
    BY <1>1, <1>2, <1>3 DEF Knows, Possible, Converting
  <2>5. \A m \in Loaders \ {l} : Current(m) = d => Knows(loader[m].pc, d)'
    BY <1>1, <2>3, <2>4, OthersKnow
  <2>6. "migrate" \notin Conversion \cup {"export", "backup"} \cup Converting
    BY DEF Conversion, Converting
  <2>7. lock' = lock
    BY <2>1
  <2> QED
    BY <1>1, <1>2, <2>2, <2>3, <2>5, <2>6, <2>7, OneThread
<1> QED
  BY <1>4, <1>5

LEMMA MigrateThreads ==
    ASSUME AccountInv, Intact, NEW l \in Loaders, Migrate(l)
    PROVE  ThreadsInv'
<1>1. FilesTypeOK /\ FilesInv /\ ThreadsInv /\ loader[l].pc = "migrate" /\ Main \in Databases
  BY DatabasesNat DEF AccountInv, AlwaysInv, Migrate, Step
<1>2. /\ ~lock /\ lock' = lock /\ encrypted' = encrypted /\ plaintext' = plaintext
      /\ loader' = [loader EXCEPT ![l] = [pc |-> "open", todo |-> {}]]
  BY <1>1 DEF ThreadsInv, Threads, Migrate, temporary, Quiet
<1>3. /\ \A e \in Databases \ {Main} : file'[e] = file[e]
      /\ file[Main] = Absent => file'[Main] = Absent
      /\ file[Main] # Absent => /\ file'[Main] # Absent
                                /\ file'[Main].whole = file[Main].whole
                                /\ file'[Main].locked = file[Main].locked
  <2>1. CASE file[Main] = Absent
    BY <2>1 DEF Migrate
  <2>2. CASE file[Main] # Absent
    <3>1. file[Main] \in Contents
      BY <1>1, <2>2, FilesOf
    <3>2. file' = [file EXCEPT ![Main] = [file[Main] EXCEPT !.outdated = FALSE]]
      BY <2>2 DEF Migrate
    <3> QED
      BY <1>1, <2>2, <3>1, <3>2, RewriteOf DEF FilesTypeOK
  <2> QED
    BY <2>1, <2>2
<1>4. \A step \in LoadSteps : Knows(step, Main) /\ Possible(step, l, Main) => Knows(step, Main)'
  BY <1>2, <1>3 DEF Knows, Possible, Converting
<1>5. \A m \in Loaders \ {l} : Current(m) = Main => Knows(loader[m].pc, Main)'
  BY <1>1, <1>2, <1>4, OthersKnow
<1>6. "open" \notin Conversion \cup {"export", "backup", "migrate"} \cup Converting
  BY DEF Conversion, Converting
<1> QED
  BY <1>1, <1>2, <1>3, <1>5, <1>6, OneThread

LEMMA IdleThreads ==
    ASSUME \A l \in Loaders : loader'[l] = Idle
    PROVE  ThreadsInv'
BY DEF ThreadsInv, Threads, Exclusive, BackupsDiffer, StepKnows, Knows, InHand, Idle,
       Conversion, Converting

LEMMA ThreadsUnchanged ==
    ASSUME ThreadsInv, UNCHANGED <<loader, lock, file, encrypted, plaintext>>
    PROVE  ThreadsInv'
BY DEF ThreadsInv, Threads, Exclusive, BackupsDiffer, StepKnows, Knows, InHand, Current

LEMMA LoadThreads ==
    ASSUME AccountInv, Intact, NEW l \in Loaders, Load(l)
    PROVE  ThreadsInv'
<1>1. FilesTypeOK /\ ThreadsInv
  BY DEF AccountInv, AlwaysInv
<1>2. CASE List(l)
  <2>1. lock /\ lock' = lock /\ UNCHANGED <<file, encrypted, plaintext>>
    BY <1>1, <1>2 DEF List, Step, Quiet, disk, ThreadsInv, Threads, Conversion
  <2>2. PICK todo : loader' = [loader EXCEPT ![l] = [pc |-> "check", todo |-> todo]]
    BY <1>2 DEF List
  <2> QED
    BY <1>1, <2>1, <2>2, Steps, ThreadMoves
<1>3. CASE AllConverted(l)
  <2>1. lock' = lock /\ UNCHANGED <<file, encrypted, plaintext>> /\ Go(l, "open")
    BY <1>3 DEF AllConverted, Quiet, disk
  <2>2. loader' = [loader EXCEPT ![l] = [pc |-> "open", todo |-> loader[l].todo]]
    BY <1>1, <2>1, GoIs
  <2> QED
    BY <1>1, <2>1, <2>2, Steps, ThreadMoves
<1> QED
  BY <1>2, <1>3, CheckThreads, ExportStartsThreads, ExportEndsThreads, MoveAsideThreads,
     InstallThreads, DropPlaintextThreads, OpenThreads, BackupThreads, MigrateThreads
     DEF Load, Convert

LEMMA ThreadsStep ==
    ASSUME AccountInv, [Next]_vars, Intact'
    PROVE  ThreadsInv'
<1>1. Intact /\ ThreadsInv /\ FilesTypeOK /\ RemovingInv /\ RebuildAlone
  BY IntactBefore DEF AccountInv, AlwaysInv, RebuildInv
<1>2. CASE Leave \/ Remove \/ Removed \/ Rebuild \/ CopyUniqueRecords \/ UNCHANGED vars
  BY <1>1, <1>2, ThreadsUnchanged DEF Leave, Remove, Removed, Rebuild, CopyUniqueRecords,
                                      disk, vars
<1>3. CASE Start \/ Damage \/ Upgrade
  <2>1. \A l \in Loaders : loader'[l] = Idle
    BY <1>1, <1>3 DEF FilesTypeOK, Start, Damage, Upgrade
  <2> QED
    BY <2>1, IdleThreads
<1>4. CASE Stop
  BY <1>4, HaltThreads DEF Stop, Halt
<1>5. CASE Preserve \/ InstallRebuilt
  <2>1. \A l \in Loaders : loader'[l] = Idle
    BY <1>1, <1>5 DEF Preserve, InstallRebuilt, Halt, RebuildAlone, RebuildSteps
  <2> QED
    BY <2>1, IdleThreads
<1>6. ASSUME NEW l \in Loaders, Select(l) PROVE ThreadsInv'
  <2>1. lock' = lock /\ UNCHANGED <<file, encrypted, plaintext>>
    BY <1>6 DEF Select, disk
  <2>2. CASE lock
    <3>1. loader' = [loader EXCEPT ![l] = [pc |-> "list", todo |-> loader[l].todo]]
      BY <1>1, <1>6, <2>2, GoIs DEF Select, Go
    <3> QED
      BY <1>1, <2>1, <2>2, <3>1, Steps, ThreadMoves
  <2>3. CASE ~lock
    <3>1. loader' = [loader EXCEPT ![l] = [pc |-> "open", todo |-> loader[l].todo]]
      BY <1>1, <1>6, <2>3, GoIs DEF Select, Go
    <3> QED
      BY <1>1, <2>1, <2>3, <3>1, Steps, ThreadMoves
  <2> QED
    BY <2>2, <2>3
<1>7. ASSUME NEW l \in Loaders, Retry(l) PROVE ThreadsInv'
  <2>1. lock' = lock /\ UNCHANGED <<file, encrypted, plaintext>> /\ Go(l, "open")
    BY <1>7 DEF Retry, disk
  <2>2. loader' = [loader EXCEPT ![l] = [pc |-> "open", todo |-> loader[l].todo]]
    BY <1>1, <2>1, GoIs
  <2> QED
    BY <1>1, <2>1, <2>2, Steps, ThreadMoves
<1>8. \A d \in Databases : ~RemoveFile(d)
  BY <1>1 DEF RemoveFile, RemovingInv, Intact
<1> QED
  BY <1>1, <1>2, <1>3, <1>4, <1>5, <1>6, <1>7, <1>8, LoadThreads DEF Next

-----------------------------------------------------------------------------
(* The rebuild, and the plaintext of the database it replaces.              *)

LEMMA TendedFrame ==
    ASSUME FilesTypeOK, Tended, NEW l \in Loaders, NEW pc, NEW todo,
           loader' = [loader EXCEPT ![l] = [pc |-> pc, todo |-> todo]], lock' = lock,
           Alone' => Alone,
           Recovering' => Recovering \/ Passed(loader[l].pc, loader[l].todo),
           Passed(pc, todo) => Passed(loader[l].pc, loader[l].todo),
           Alone /\ Tending(loader[l].pc, loader[l].todo) => Tending(pc, todo)
    PROVE  Tended'
<1>1. /\ loader'[l].pc = pc /\ loader'[l].todo = todo
      /\ \A m \in Loaders \ {l} : loader'[m] = loader[m]
  BY DEF FilesTypeOK
<1> SUFFICES ASSUME lock', Alone',
                    Recovering' \/ \E m \in Loaders : Passed(loader'[m].pc, loader'[m].todo)
             PROVE  \E m \in Loaders : Tending(loader'[m].pc, loader'[m].todo)
  BY DEF Tended, Alone, Recovering, Tending, Passed
<1>2. Recovering \/ \E m \in Loaders : Passed(loader[m].pc, loader[m].todo)
  BY <1>1
<1>3. PICK k \in Loaders : Tending(loader[k].pc, loader[k].todo)
  BY <1>2 DEF Tended
<1>4. CASE k = l
  BY <1>1, <1>3, <1>4
<1>5. CASE k # l
  BY <1>1, <1>3, <1>5
<1> QED
  BY <1>4, <1>5

LEMMA TendedHalt ==
    ASSUME Halt
    PROVE  Tended' /\ RebuildAlone' /\ Rebuilding'
BY DEF Halt, Tended, Recovering, Passed, Idle, Conversion, Converting, RebuildAlone, Rebuilding,
       RebuildSteps

LEMMA TendedFinish ==
    ASSUME FilesTypeOK, Tended, NEW l \in Loaders, NEW outcome, Finish(l, outcome),
           outcome = "error" \/ Passed(loader[l].pc, loader[l].todo),
           Alone' => Alone,
           ~(Alone /\ Tending(loader[l].pc, loader[l].todo))
    PROVE  Tended'
<1>1. CASE Halt
  BY <1>1, TendedHalt
<1>2. CASE loader' = [loader EXCEPT ![l] = [pc |-> "idle", todo |-> {}]] /\ ~Halt
  <2>1. ~Passed("idle", {})
    BY DEF Passed, Conversion, Converting
  <2>2. lock' = lock /\ (Recovering' => Recovering \/ Passed(loader[l].pc, loader[l].todo))
    BY <1>2 DEF Finish, Recovering
  <2> QED
    BY <1>2, <2>1, <2>2, TendedFrame
<1> QED
  BY <1>1, <1>2 DEF Finish, Idle

\* What the steps of a conversion need to know of the database.
LEMMA ConversionContext ==
    ASSUME AccountInv, Intact, NEW l \in Loaders, loader[l].todo # {}
    PROVE  /\ FilesTypeOK /\ Tended /\ Chain /\ Current(l) \in Databases /\ Main \in Databases
           /\ Knows(loader[l].pc, Current(l)) /\ Current(l) \in loader[l].todo
           /\ Main \in loader[l].todo => Current(l) = Main
BY CurrentIn, KnownTo, DatabasesNat DEF AccountInv, AlwaysInv, RebuildInv, FilesInv

LEMMA CheckTended ==
    ASSUME AccountInv, Intact, NEW l \in Loaders, Check(l)
    PROVE  Tended'
<1>1. loader[l].pc = "check" /\ loader[l].todo # {}
  BY DEF Check, Step
<1>2. /\ FilesTypeOK /\ Tended /\ Chain /\ Current(l) \in loader[l].todo /\ Main \in Databases
      /\ Main \in loader[l].todo => Current(l) = Main
  BY <1>1, ConversionContext
<1>3. PICK d \in Databases : d = Current(l)
  BY <1>1, ConversionContext
<1>4. CASE Reinstall(l, d)
  <2>1. loader' = [loader EXCEPT ![l] = [pc |-> "check", todo |-> loader[l].todo]]
    BY <1>1, <1>2, <1>4 DEF Reinstall, FilesTypeOK
  <2>2. CASE d = Main
    <3>1. Tending(loader'[l].pc, loader'[l].todo)
      BY <1>1, <1>2, <1>3, <1>4, <2>2 DEF Reinstall, Tending
    <3> QED
      BY <3>1 DEF Tended
  <2>3. CASE d # Main
    <3>1. Alone' => Alone
      BY <1>2, <1>4, <2>3 DEF Reinstall, Alone, FilesTypeOK
    <3>2. lock' = lock /\ (Recovering' => Recovering)
      BY <1>4 DEF Reinstall, Quiet, Recovering
    <3> QED
      BY <1>1, <1>2, <2>1, <3>1, <3>2, TendedFrame
  <2> QED
    BY <2>2, <2>3
<1>5. ASSUME Done(l), Alone' => Alone /\ d # Main, Quiet PROVE Tended'
  <2>1. PICK todo : /\ todo = loader[l].todo \ {Current(l)}
                    /\ loader' = [loader EXCEPT ![l] = [pc |-> "check", todo |-> todo]]
    BY <1>5 DEF Done
  <2>2. CASE ~Alone'
    BY <2>2 DEF Tended
  <2>3. CASE d # Main
    <3>1. Main \in todo <=> Main \in loader[l].todo
      BY <1>3, <2>1, <2>3
    <3>2. /\ Passed("check", todo) => Passed(loader[l].pc, loader[l].todo)
          /\ Tending(loader[l].pc, loader[l].todo) => Tending("check", todo)
      BY <1>1, <3>1 DEF Passed, Tending
    <3>3. lock' = lock /\ (Recovering' => Recovering)
      BY <1>5 DEF Quiet, Recovering
    <3> QED
      BY <1>2, <1>5, <2>1, <3>2, <3>3, TendedFrame
  <2> QED
    BY <1>5, <2>2, <2>3
<1>6. CASE CleanUp(l, d)
  <2>1. Alone' => Alone /\ d # Main
    BY <1>2, <1>6 DEF CleanUp, Alone, FilesTypeOK
  <2> QED
    BY <1>5, <1>6, <2>1 DEF CleanUp
<1>7. CASE WorkspaceExists(l, d)
  <2>1. ~(Alone /\ Tending(loader[l].pc, loader[l].todo))
    BY <1>2, <1>3, <1>7 DEF WorkspaceExists, Alone, Tending, Chain
  <2>2. Alone' => Alone
    BY <1>7 DEF WorkspaceExists, Alone, disk
  <2> QED
    BY <1>2, <1>7, <2>1, <2>2, TendedFinish DEF WorkspaceExists
<1>8. CASE ConvertOrSkip(l, d)
  <2>1. Alone' => Alone /\ d # Main
    BY <1>8 DEF ConvertOrSkip, Alone, disk
  <2>2. CASE Done(l)
    BY <1>5, <1>8, <2>1, <2>2 DEF ConvertOrSkip
  <2>3. CASE Go(l, "export")
    <3>1. loader' = [loader EXCEPT ![l] = [pc |-> "export", todo |-> loader[l].todo]]
      BY <1>2, <2>3, GoIs
    <3>2. lock' = lock /\ (Recovering' => Recovering)
      BY <1>8 DEF ConvertOrSkip, Quiet, Recovering
    <3>3. Passed("export", loader[l].todo) => Passed(loader[l].pc, loader[l].todo)
      BY <1>1 DEF Passed, Conversion
    <3>4. CASE ~Alone'
      BY <3>4 DEF Tended
    <3>5. CASE Alone'
      <4>1. ~Tending(loader[l].pc, loader[l].todo)
        BY <1>2, <1>3, <2>1, <3>5 DEF Tending
      <4> QED
        BY <1>2, <2>1, <3>1, <3>2, <3>3, <4>1, TendedFrame
    <3> QED
      BY <3>4, <3>5
  <2> QED
    BY <1>8, <2>2, <2>3 DEF ConvertOrSkip
<1> QED
  BY <1>3, <1>4, <1>6, <1>7, <1>8 DEF Check

\* A step of a conversion with its database in hand.
LEMMA AdvanceTended ==
    ASSUME FilesTypeOK, Tended, NEW l \in Loaders, NEW pc \in Converting,
           loader[l].pc \in {"export", "exporting", "exported", "aside"}, Go(l, pc), Quiet,
           Alone' => Alone \/ Tending(pc, loader[l].todo)
    PROVE  Tended'
<1>1. loader' = [loader EXCEPT ![l] = [pc |-> pc, todo |-> loader[l].todo]]
  BY GoIs
<1>2. CASE Tending(pc, loader[l].todo)
  <2>1. Tending(loader'[l].pc, loader'[l].todo)
    BY <1>1, <1>2 DEF FilesTypeOK
  <2> QED
    BY <2>1 DEF Tended
<1>3. CASE ~Tending(pc, loader[l].todo)
  <2>1. lock' = lock /\ (Recovering' => Recovering)
    BY DEF Quiet, Recovering
  <2>2. Passed(pc, loader[l].todo) => Passed(loader[l].pc, loader[l].todo)
    BY DEF Passed, Conversion, Converting
  <2>3. ~Tending(loader[l].pc, loader[l].todo)
    BY DEF Tending
  <2> QED
    BY <1>1, <1>3, <2>1, <2>2, <2>3, TendedFrame
<1> QED
  BY <1>2, <1>3

LEMMA ExportTended ==
    ASSUME AccountInv, Intact, NEW l \in Loaders,
           ExportStarts(l) \/ ExportEnds(l) \/ MoveAside(l)
    PROVE  Tended'
<1>1. loader[l].pc \in {"export", "exporting", "exported"}
  BY DEF ExportStarts, ExportEnds, MoveAside, Step
<1>2. loader[l].todo # {}
  BY <1>1 DEF AccountInv, ThreadsInv, Threads, Converting
<1>3. /\ FilesTypeOK /\ Tended /\ Main \in Databases
      /\ Main \in loader[l].todo => Current(l) = Main
  BY <1>2, ConversionContext
<1>4. PICK d \in Databases : d = Current(l) /\ Knows(loader[l].pc, d)
  BY <1>2, ConversionContext
<1>5. ~Tending(loader[l].pc, loader[l].todo)
  BY <1>1 DEF Tending
<1>6. CASE Finish(l, "error") /\ UNCHANGED disk
  BY <1>3, <1>5, <1>6, TendedFinish DEF Alone, disk
<1>7. CASE ~(Finish(l, "error") /\ UNCHANGED disk)
  <2>1. CASE ExportStarts(l)
    <3>1. Go(l, "exporting") /\ Quiet /\ loader[l].pc = "export"
      BY <1>7, <2>1 DEF ExportStarts, Step
    <3>2. /\ plaintext' = plaintext
          /\ \E content \in Contents : encrypted' = [encrypted EXCEPT ![d] = content]
      <4> DEFINE source == IF file[d] = Absent THEN Fresh(0, FALSE) ELSE file[d]
      <4>1. Fresh(0, FALSE) \in Contents
        BY DEF Fresh, Contents
      <4>2. source \in Contents
        BY <1>3, <4>1 DEF FilesTypeOK
      <4>3. [source EXCEPT !.whole = FALSE, !.locked = TRUE] \in Contents
        BY <4>2 DEF Contents
      <4> QED
        BY <1>4, <1>7, <2>1, <4>3 DEF ExportStarts
    <3>3. Alone' => Alone
      BY <1>3, <3>2 DEF Alone, FilesTypeOK
    <3> QED
      BY <1>3, <3>1, <3>3, AdvanceTended DEF Converting
  <2>2. CASE ExportEnds(l)
    <3>1. Go(l, "exported") /\ Quiet /\ loader[l].pc = "exporting"
      BY <1>7, <2>2 DEF ExportEnds, Step
    <3>2. /\ plaintext' = plaintext /\ encrypted[d] # Absent
          /\ encrypted' = [encrypted EXCEPT ![d] = [encrypted[d] EXCEPT !.whole = TRUE]]
      BY <1>4, <1>7, <2>2 DEF ExportEnds
    <3>3. [encrypted[d] EXCEPT !.whole = TRUE] \in Contents
      <4>1. encrypted[d] \in Contents
        BY <1>3, <3>2 DEF FilesTypeOK
      <4> QED
        BY <4>1 DEF Contents
    <3>4. Alone' => Alone
      BY <1>3, <3>2, <3>3 DEF Alone, FilesTypeOK
    <3> QED
      BY <1>3, <3>1, <3>4, AdvanceTended DEF Converting
  <2>3. CASE MoveAside(l)
    <3>1. Go(l, "aside") /\ Quiet /\ loader[l].pc = "exported"
      BY <1>7, <2>3 DEF MoveAside, Step
    <3>2. /\ plaintext' = [plaintext EXCEPT ![d] = file[d]] /\ encrypted' = encrypted
          /\ encrypted[d] # Absent
      BY <1>4, <1>7, <2>3, <3>1 DEF MoveAside, Knows
    <3>3. Alone' => Alone
      BY <1>3, <3>2 DEF Alone, FilesTypeOK
    <3> QED
      BY <1>3, <3>1, <3>3, AdvanceTended DEF Converting
  <2> QED
    BY <2>1, <2>2, <2>3
<1> QED
  BY <1>6, <1>7

LEMMA InstallTended ==
    ASSUME AccountInv, Intact, NEW l \in Loaders, Install(l)
    PROVE  Tended'
<1>1. loader[l].pc = "aside"
  BY DEF Install, Step
<1>2. loader[l].todo # {}
  BY <1>1 DEF AccountInv, ThreadsInv, Threads, Converting
<1>3. /\ FilesTypeOK /\ Tended /\ Main \in Databases /\ Current(l) \in loader[l].todo
      /\ Main \in loader[l].todo => Current(l) = Main
  BY <1>2, ConversionContext
<1>4. PICK d \in Databases : d = Current(l)
  BY <1>2, ConversionContext
<1>5. CASE encrypted[d] = Absent
  <2>1. Finish(l, "error") /\ encrypted' = encrypted
    BY <1>4, <1>5 DEF Install
  <2>2. plaintext' \in {plaintext, [plaintext EXCEPT ![d] = Absent]}
    BY <1>4, <1>5 DEF Install
  <2>3. Alone' => Alone
    BY <1>3, <2>1, <2>2 DEF Alone, FilesTypeOK
  <2>4. ~Tending(loader[l].pc, loader[l].todo)
    BY <1>1 DEF Tending
  <2> QED
    BY <1>3, <2>1, <2>3, <2>4, TendedFinish
<1>6. CASE encrypted[d] # Absent
  <2>1. /\ Go(l, "installed") /\ Quiet /\ plaintext' = plaintext
        /\ encrypted' = [encrypted EXCEPT ![d] = Absent]
    BY <1>4, <1>6 DEF Install
  <2>2. Alone' => Alone \/ Tending("installed", loader[l].todo)
    BY <1>3, <1>4, <2>1 DEF Alone, Tending, FilesTypeOK
  <2> QED
    BY <1>1, <1>3, <2>1, <2>2, AdvanceTended DEF Converting
<1> QED
  BY <1>5, <1>6

LEMMA DropPlaintextTended ==
    ASSUME AccountInv, Intact, NEW l \in Loaders, DropPlaintext(l)
    PROVE  Tended'
<1>1. loader[l].pc = "installed"
  BY DEF DropPlaintext, Step
<1>2. loader[l].todo # {}
  BY <1>1 DEF AccountInv, ThreadsInv, Threads, Converting
<1>3. /\ FilesTypeOK /\ Tended /\ Main \in Databases
      /\ Main \in loader[l].todo => Current(l) = Main
  BY <1>2, ConversionContext
<1>4. PICK d \in Databases : d = Current(l)
  BY <1>2, ConversionContext
<1>5. CASE plaintext[d] = Absent
  <2>1. Finish(l, "error") /\ UNCHANGED disk
    BY <1>4, <1>5 DEF DropPlaintext
  <2>2. ~(Alone /\ Tending(loader[l].pc, loader[l].todo))
    BY <1>3, <1>4, <1>5 DEF Alone, Tending
  <2>3. Alone' => Alone
    BY <2>1 DEF Alone, disk
  <2> QED
    BY <1>3, <2>1, <2>2, <2>3, TendedFinish
<1>6. CASE plaintext[d] # Absent
  <2>1. /\ plaintext' = [plaintext EXCEPT ![d] = Absent] /\ encrypted' = encrypted
        /\ lock' = lock /\ (Recovering' => Recovering)
    BY <1>4, <1>6 DEF DropPlaintext, Quiet, Recovering
  <2>2. PICK todo : /\ todo = loader[l].todo \ {Current(l)}
                    /\ loader' = [loader EXCEPT ![l] = [pc |-> "check", todo |-> todo]]
    BY <1>4, <1>6 DEF DropPlaintext, Done
  <2>3. CASE d = Main
    BY <1>3, <2>1, <2>3 DEF Tended, Alone, FilesTypeOK
  <2>4. CASE d # Main
    <3>1. Alone' => Alone
      BY <1>3, <2>1, <2>4 DEF Alone, FilesTypeOK
    <3>2. Main \notin loader[l].todo
      BY <1>3, <1>4, <2>4
    <3>3. /\ Passed("check", todo) => Passed(loader[l].pc, loader[l].todo)
          /\ ~Tending(loader[l].pc, loader[l].todo)
      BY <1>1, <3>2 DEF Passed, Tending, Conversion, Converting
    <3>4. lock' = lock /\ (Recovering' => Recovering)
      BY <2>1
    <3> QED
      BY <1>3, <2>2, <3>1, <3>3, <3>4, TendedFrame
  <2> QED
    BY <2>3, <2>4
<1> QED
  BY <1>5, <1>6

LEMMA OpenTended ==
    ASSUME AccountInv, Intact, NEW l \in Loaders, Open(l)
    PROVE  Tended'
<1>1. FilesTypeOK /\ Tended /\ loader[l].pc = "open"
  BY DEF AccountInv, AlwaysInv, RebuildInv, Open, Step
<1>2. encrypted' = encrypted /\ plaintext' = plaintext
  BY DEF Open, disk, temporary
<1>3. (\E o \in {"error", "session", "recovery"} : Finish(l, o)) \/ (~lock /\ lock' = lock)
  BY DEF Open, Quiet
<1>4. Passed(loader[l].pc, loader[l].todo) /\ ~Tending(loader[l].pc, loader[l].todo)
  BY <1>1 DEF Passed, Tending
<1>5. Alone' => Alone
  BY <1>2 DEF Alone
<1>6. CASE ~lock /\ lock' = lock
  BY <1>6 DEF Tended
<1> QED
  BY <1>1, <1>3, <1>4, <1>5, <1>6, TendedFinish

LEMMA LoadTended ==
    ASSUME AccountInv, Intact, NEW l \in Loaders, Load(l)
    PROVE  Tended'
<1>1. FilesTypeOK /\ Tended /\ Chain /\ Main \in Databases
  BY DatabasesNat DEF AccountInv, AlwaysInv, RebuildInv, FilesInv
<1>2. CASE List(l)
  <2>1. /\ loader' = [loader EXCEPT ![l] =
                        [pc |-> "check", todo |-> {d \in Databases : file[d] # Absent}]]
        /\ UNCHANGED disk
    BY <1>2 DEF List
  <2>2. CASE ~Alone
    BY <2>1, <2>2 DEF Tended, Alone, disk
  <2>3. CASE Alone
    <3>1. loader'[l].pc = "check" /\ loader'[l].todo = {d \in Databases : file[d] # Absent}
      BY <1>1, <2>1 DEF FilesTypeOK
    <3>2. Tending(loader'[l].pc, loader'[l].todo)
      BY <1>1, <2>3, <3>1 DEF Tending, Alone, Chain
    <3> QED
      BY <3>2 DEF Tended
  <2> QED
    BY <2>2, <2>3
<1>3. CASE AllConverted(l)
  <2>1. /\ loader[l].pc = "check" /\ Main \notin loader[l].todo
        /\ lock' = lock /\ (Recovering' => Recovering) /\ (Alone' => Alone)
        /\ Go(l, "open")
    BY <1>3 DEF AllConverted, Step, Quiet, Recovering, Alone, disk
  <2>2. loader' = [loader EXCEPT ![l] = [pc |-> "open", todo |-> loader[l].todo]]
    BY <1>1, <2>1, GoIs
  <2>3. Passed(loader[l].pc, loader[l].todo) /\ ~Tending(loader[l].pc, loader[l].todo)
    BY <2>1 DEF Passed, Tending, Conversion
  <2> QED
    BY <1>1, <2>1, <2>2, <2>3, TendedFrame
<1>4. CASE Backup(l) \/ Migrate(l)
  <2>1. ~lock /\ lock' = lock
    BY <1>4 DEF AccountInv, ThreadsInv, Threads, Backup, Migrate, Step, Finish, Quiet
  <2> QED
    BY <2>1 DEF Tended
<1> QED
  BY <1>2, <1>3, <1>4, CheckTended, ExportTended, InstallTended, DropPlaintextTended, OpenTended
     DEF Load, Convert

\* While a thread loads and is not stray, no rebuild runs.
LEMMA LoadNoRebuild ==
    ASSUME AccountInv, Intact, NEW l \in Loaders, Load(l)
    PROVE  RebuildAlone' /\ Rebuilding'
<1>1. loader[l].pc # "idle"
  BY DEF Load, Convert, List, AllConverted, Check, ExportStarts, ExportEnds, MoveAside, Install,
         DropPlaintext, Open, Backup, Migrate, Step
<1>2. ui \notin RebuildSteps
  BY <1>1 DEF AccountInv, RebuildInv, RebuildAlone, Idle
<1>3. ui' = ui \/ ui' \in {"off", "session", "recovery"}
  <2> USE DEF Finish, Halt, Quiet
  <2>1. CASE Convert(l)
    BY <2>1 DEF Convert, List, AllConverted, Check, Reinstall, CleanUp, WorkspaceExists,
                ConvertOrSkip, ExportStarts, ExportEnds, MoveAside, Install, DropPlaintext
  <2>2. CASE Open(l) \/ Backup(l) \/ Migrate(l)
    BY <2>2 DEF Open, Backup, Migrate
  <2> QED
    BY <2>1, <2>2 DEF Load
<1>4. ui' \notin RebuildSteps
  BY <1>2, <1>3 DEF RebuildSteps
<1> QED
  BY <1>4 DEF RebuildAlone, Rebuilding, RebuildSteps

LEMMA RebuildStep ==
    ASSUME AccountInv, [Next]_vars, Intact'
    PROVE  RebuildInv'
<1>1. /\ Intact /\ FilesTypeOK /\ RemovingInv /\ WorkspaceInv
      /\ RebuildAlone /\ Rebuilding /\ Tended /\ Main \in Databases
  BY IntactBefore, DatabasesNat DEF AccountInv, AlwaysInv, RebuildInv
<1> USE DEF RebuildInv
<1>2. CASE Start
  <2>1. \A l \in Loaders : loader'[l] = Idle /\ ui' = "elsewhere"
    BY <1>1, <1>2 DEF FilesTypeOK, Start
  <2>2. ui' = "elsewhere"
    BY <1>2 DEF Start
  <2> QED
    BY <2>1, <2>2 DEF RebuildAlone, Rebuilding, Tended, Recovering, Passed, Idle, RebuildSteps,
                      Conversion, Converting
<1>3. CASE Leave \/ Remove \/ Removed \/ UNCHANGED vars
  <2>1. UNCHANGED <<disk, lock, loader>> /\ (ui' = ui \/ ui' \in {"elsewhere", "removing"})
    BY <1>3 DEF Leave, Remove, Removed, vars
  <2> QED
    BY <1>1, <2>1 DEF RebuildAlone, Rebuilding, Tended, Recovering, Alone, RebuildSteps, disk
<1>4. CASE Stop
  BY <1>4, TendedHalt DEF Stop
<1>5. ASSUME NEW l \in Loaders, Select(l) PROVE RebuildInv'
  <2>1. /\ UNCHANGED <<disk, lock>> /\ ui' = "loading" /\ loader[l] = Idle
        /\ Go(l, IF lock THEN "list" ELSE "open")
    BY <1>5 DEF Select, Go
  <2>2. CASE ~lock
    BY <2>1, <2>2 DEF RebuildAlone, Rebuilding, Tended, RebuildSteps
  <2>3. CASE lock
    <3>1. loader' = [loader EXCEPT ![l] = [pc |-> "list", todo |-> loader[l].todo]]
      BY <1>1, <2>1, <2>3, GoIs
    <3>2. ~Passed("list", loader[l].todo) /\ ~Tending(loader[l].pc, loader[l].todo)
      BY <2>1 DEF Passed, Tending, Idle
    <3>3. ~Recovering' /\ (Alone' => Alone) /\ lock' = lock
      BY <2>1 DEF Recovering, Alone, disk
    <3>4. Tended'
      BY <1>1, <3>1, <3>2, <3>3, TendedFrame
    <3> QED
      BY <2>1, <3>4 DEF RebuildAlone, Rebuilding, RebuildSteps
  <2> QED
    BY <2>2, <2>3
<1>6. ASSUME NEW l \in Loaders, Retry(l) PROVE RebuildInv'
  <2>1. /\ UNCHANGED <<disk, lock>> /\ ui = "recovery" /\ ui' = "retrying" /\ loader[l] = Idle
        /\ Go(l, "open")
    BY <1>6 DEF Retry
  <2>2. loader' = [loader EXCEPT ![l] = [pc |-> "open", todo |-> loader[l].todo]]
    BY <1>1, <2>1, GoIs
  <2>3. Recovering /\ ~Tending(loader[l].pc, loader[l].todo)
    BY <2>1 DEF Recovering, Tending, Idle
  <2>4. lock' = lock /\ (Alone' => Alone)
    BY <2>1 DEF Alone, disk
  <2>5. Tended'
    <3>1. /\ loader'[l].pc = "open" /\ \A m \in Loaders \ {l} : loader'[m] = loader[m]
      BY <1>1, <2>2 DEF FilesTypeOK
    <3> SUFFICES ASSUME lock', Alone'
                 PROVE  \E m \in Loaders : Tending(loader'[m].pc, loader'[m].todo)
      BY DEF Tended
    <3>2. PICK k \in Loaders : Tending(loader[k].pc, loader[k].todo)
      BY <1>1, <2>3, <2>4 DEF Tended
    <3> QED
      BY <2>3, <3>1, <3>2
  <2> QED
    BY <2>1, <2>5 DEF RebuildAlone, Rebuilding, RebuildSteps
<1>7. \A d \in Databases : ~RemoveFile(d)
  BY <1>1 DEF RemoveFile, RemovingInv, Intact
<1>8. CASE Rebuild /\ RebuildMeets
  <2>1. RebuildAlone'
    BY <1>8 DEF Rebuild, RebuildMeets, RebuildAlone, Intact
  <2>2. Rebuilding'
    BY <1>8 DEF Rebuild, Rebuilding
  <2>3. Tended'
    BY <1>1, <1>8 DEF Rebuild, Tended, Recovering, Alone
  <2> QED
    BY <2>1, <2>2, <2>3
<1>9. CASE CopyUniqueRecords
  <2>1. UNCHANGED <<file, encrypted, plaintext, lock, loader>> /\ ui = "creating" /\ ui' = "created"
    BY <1>9 DEF CopyUniqueRecords
  <2>2. workspace'.whole
    <3>1. workspace \in Contents
      BY <1>1, <2>1 DEF WorkspaceInv, FilesTypeOK, RebuildSteps
    <3> QED
      BY <1>9, <3>1 DEF CopyUniqueRecords, Contents
  <2> QED
    BY <1>1, <2>1, <2>2 DEF RebuildAlone, Rebuilding, RebuildSteps, Tended, Recovering, Alone
<1>10. CASE Preserve
  <2>1. CASE Halt
    BY <2>1, TendedHalt
  <2>2. CASE ~Halt
    <3>1. /\ ui = "created" /\ ui' = "preserved" /\ FreeBackups # {}
          /\ file' = [file EXCEPT ![NextBackup] = file[Main], ![Main] = Absent]
          /\ UNCHANGED <<encrypted, plaintext, workspace, loader, lock>>
      BY <1>10, <2>2 DEF Preserve
    <3>2. \A l \in Loaders : loader[l] = Idle
      BY <1>1, <3>1 DEF RebuildAlone, RebuildSteps
    <3>3. file'[Main] = Absent
      BY <1>1, <3>1 DEF FilesTypeOK
    <3>4. workspace'.whole
      BY <1>1, <3>1 DEF Rebuilding
    <3>5. Tended'
      BY <3>1, <3>2 DEF Tended, Recovering, Passed, Idle, Conversion, Converting
    <3> QED
      BY <3>1, <3>2, <3>3, <3>4, <3>5 DEF RebuildAlone, Rebuilding
  <2> QED
    BY <2>1, <2>2
<1>11. CASE InstallRebuilt
  <2>1. CASE Halt
    BY <2>1, TendedHalt
  <2>2. CASE ~Halt
    <3>1. ui = "preserved" /\ ui' = "session" /\ loader' = loader
      BY <1>11, <2>2 DEF InstallRebuilt
    <3>2. \A l \in Loaders : loader'[l] = Idle
      BY <1>1, <3>1 DEF RebuildAlone, RebuildSteps
    <3> QED
      BY <3>1, <3>2 DEF RebuildAlone, Rebuilding, Tended, Recovering, Passed, Idle, RebuildSteps,
                        Conversion, Converting
  <2> QED
    BY <2>1, <2>2
<1>12. CASE Damage \/ Upgrade
  <2>1. ui' = "off" /\ \A l \in Loaders : loader'[l] = Idle
    BY <1>1, <1>12 DEF FilesTypeOK, Damage, Upgrade
  <2> QED
    BY <2>1 DEF RebuildAlone, Rebuilding, Tended, Recovering, Passed, Idle, RebuildSteps,
                Conversion, Converting
<1> QED
  BY <1>1, <1>2, <1>3, <1>4, <1>5, <1>6, <1>7, <1>8, <1>9, <1>10, <1>11, <1>12, LoadTended,
     LoadNoRebuild DEF Next

LEMMA AccountInit == ASSUME Init PROVE AccountInv
<1>1. /\ file \in [Databases -> Contents \cup {Absent}] /\ Main \in Databases
      /\ \A d \in Databases : encrypted[d] = Absent /\ plaintext[d] = Absent
      /\ \A d \in Databases \ {Main} : file[d] = Absent
      /\ \A l \in Loaders : loader[l] = Idle
      /\ generation = 1 /\ ui = "off"
  BY AlwaysInit, DatabasesNat DEF AlwaysInv, FilesTypeOK, Init
<1>2. file[Main] # Absent /\ file[Main].whole /\ file[Main].generation = 1
  <2>1. PICK locked \in BOOLEAN : file[Main] = Fresh(1, locked)
    BY <1>1 DEF Init
  <2>2. /\ Fresh(1, locked) \in Contents
        /\ Fresh(1, locked).whole /\ Fresh(1, locked).generation = 1
    BY DEF Fresh, Contents
  <2> QED
    BY <2>1, <2>2
<1>3. FilesInv
  BY <1>1, <1>2 DEF FilesInv, FilesWhole, Pair, Chain, Kept, HeldAt, Holds
<1>4. ThreadsInv
  BY <1>1 DEF ThreadsInv, Threads, Exclusive, BackupsDiffer, StepKnows, Knows, InHand, Idle,
              Conversion, Converting
<1>5. RebuildInv
  BY <1>1 DEF RebuildInv, RebuildAlone, Rebuilding, Tended, Alone, RebuildSteps
<1> QED
  BY <1>3, <1>4, <1>5, AlwaysInit DEF AccountInv

\* Neither a conversion nor a rebuild, wherever it is interrupted, loses the
\* unique records of a database of a registered account that no rebuild met
\* while a stray thread still loaded it.
THEOREM GenerationsKeptAlways == FilesSpec => []GenerationsKept
<1>1. Init => AccountInv
  BY AccountInit
<1>2. AccountInv /\ [Next]_vars => AccountInv'
  BY AlwaysStep, FilesStep, ThreadsStep, RebuildStep DEF AccountInv
<1>3. AccountInv => GenerationsKept
  BY DEF AccountInv, Intact, GenerationsKept, FilesInv, Kept, HeldAt, Copies
<1> QED
  BY <1>1, <1>2, <1>3, PTL DEF FilesSpec

-----------------------------------------------------------------------------
(* Local Lock: what a session leaves in plaintext.                          *)

Readable(d) == file[d] # Absent /\ ~file[d].locked

\* A thread at one of these steps with this database.
At(m, steps, d) == loader[m].pc \in steps /\ loader[m].todo # {} /\ Current(m) = d

\* The load in the foreground is done with the database.
Past(pc, todo, d) == \/ pc \in Conversion \ {"list"} /\ d \notin todo
                     \/ pc \in {"open", "backup", "migrate"}
Beyond(d) == \/ ui \in {"session", "recovery", "retrying"} \cup RebuildSteps
             \/ awaited # Nobody /\ Past(loader[awaited].pc, loader[awaited].todo, d)

\* A database is readable behind the load in the foreground only while a stray
\* thread is about to convert it, which no workspace keeps from doing so.
Cared(d) ==
    lock /\ Beyond(d) /\ Readable(d) =>
        /\ plaintext[d] = Absent
        /\ IF encrypted[d] = Absent
           THEN \E m \in Loaders : At(m, {"check", "export"}, d)
           ELSE \E m \in Loaders : At(m, {"exporting", "exported"}, d)

\* Whoever took the converted file from a thread that is about to install it checks
\* the database again, so that what the thread takes back is converted after all.
Watched(d) ==
    (\E b \in Loaders : At(b, {"aside"}, d)) /\ encrypted[d] = Absent /\ plaintext[d] # Absent
    => \E c \in Loaders : At(c, {"check"}, d)

RegisteredInv ==
    ui \in {"loading", "session", "recovery", "retrying"} \cup RebuildSteps => registered
EncryptedLocked == \A d \in Databases : encrypted[d] # Absent => encrypted[d].locked
WorkspaceLocked == ui \in RebuildSteps => workspace.locked = lock

LockInv == /\ AccountInv /\ RegisteredInv /\ EncryptedLocked /\ WorkspaceLocked
           /\ Intact => \A d \in Databases : Cared(d) /\ Watched(d)

\* Nobody loads the account, and it is not in the foreground.
LEMMA LockHalt ==
    ASSUME Halt, NEW d \in Databases
    PROVE  Cared(d)' /\ Watched(d)'
<1>1. ui' = "off" /\ awaited' = Nobody /\ \A m \in Loaders : loader'[m].pc = "idle"
  BY DEF Halt, Idle
<1> QED
  BY <1>1 DEF Cared, Beyond, Watched, At, RebuildSteps

\* One thread takes a step that leaves the workspaces of a database alone, was not
\* the one that cares for it, and does not leave it readable behind.
LEMMA LockFrame ==
    ASSUME FilesTypeOK, NEW d \in Databases, Cared(d), Watched(d),
           NEW l \in Loaders, NEW pc, NEW todo,
           loader' = [loader EXCEPT ![l] = [pc |-> pc, todo |-> todo]], lock' = lock,
           encrypted'[d] = encrypted[d], plaintext'[d] = plaintext[d],
           Readable(d)' => Readable(d),
           Beyond(d)' /\ Readable(d) => Beyond(d),
           Readable(d) /\ encrypted[d] = Absent => ~At(l, {"check", "export"}, d),
           Readable(d) /\ encrypted[d] # Absent => ~At(l, {"exporting", "exported"}, d),
           plaintext[d] # Absent /\ encrypted[d] = Absent => ~At(l, {"check"}, d),
           pc = "aside" => Least(todo) # d
    PROVE  Cared(d)' /\ Watched(d)'
<1>1. /\ loader'[l].pc = pc /\ loader'[l].todo = todo
      /\ \A m \in Loaders \ {l} : loader'[m] = loader[m]
  BY DEF FilesTypeOK
<1>2. \A m \in Loaders \ {l} : \A steps : At(m, steps, d)' <=> At(m, steps, d)
  BY <1>1 DEF At, Current
<1>3. Cared(d)'
  <2> SUFFICES ASSUME lock', Beyond(d)', Readable(d)'
               PROVE  /\ plaintext'[d] = Absent
                      /\ IF encrypted'[d] = Absent
                         THEN \E m \in Loaders : At(m, {"check", "export"}, d)'
                         ELSE \E m \in Loaders : At(m, {"exporting", "exported"}, d)'
    BY DEF Cared
  <2>1. /\ plaintext[d] = Absent
        /\ IF encrypted[d] = Absent
           THEN \E m \in Loaders : At(m, {"check", "export"}, d)
           ELSE \E m \in Loaders : At(m, {"exporting", "exported"}, d)
    BY DEF Cared
  <2>2. CASE encrypted[d] = Absent
    BY <1>2, <2>1, <2>2
  <2>3. CASE encrypted[d] # Absent
    BY <1>2, <2>1, <2>3
  <2> QED
    BY <2>2, <2>3
<1>4. Watched(d)'
  <2> SUFFICES ASSUME NEW b \in Loaders, At(b, {"aside"}, d)', encrypted'[d] = Absent,
                      plaintext'[d] # Absent
               PROVE  \E c \in Loaders : At(c, {"check"}, d)'
    BY DEF Watched
  <2>1. b # l
    BY <1>1 DEF At, Current
  <2>2. PICK c \in Loaders : At(c, {"check"}, d)
    BY <1>2, <2>1 DEF Watched
  <2>3. c # l
    BY <1>2, <2>1, <2>2
  <2> QED
    BY <1>2, <2>2, <2>3
<1> QED
  BY <1>3, <1>4

\* A thread that gives up.
LEMMA LockFinish ==
    ASSUME FilesTypeOK, NEW d \in Databases, Cared(d), Watched(d),
           NEW l \in Loaders, NEW outcome \in {"error", "session", "recovery"}, Finish(l, outcome),
           outcome = "error" \/ loader[l].pc \in {"open", "backup"},
           encrypted'[d] = encrypted[d], plaintext'[d] = plaintext[d],
           Readable(d)' => Readable(d),
           Readable(d) /\ encrypted[d] = Absent => ~At(l, {"check", "export"}, d),
           Readable(d) /\ encrypted[d] # Absent => ~At(l, {"exporting", "exported"}, d),
           plaintext[d] # Absent /\ encrypted[d] = Absent => ~At(l, {"check"}, d)
    PROVE  Cared(d)' /\ Watched(d)'
<1>1. CASE Halt
  BY <1>1, LockHalt
<1>2. CASE ~Halt
  <2>1. loader' = [loader EXCEPT ![l] = [pc |-> "idle", todo |-> {}]] /\ lock' = lock
    BY <1>2 DEF Finish, Idle
  <2>2. Beyond(d)' => Beyond(d)
    <3>1. CASE awaited = l
      <4>1. Past(loader[l].pc, loader[l].todo, d) /\ awaited # Nobody
        BY <1>2, <3>1 DEF Finish, Past
      <4> QED
        BY <3>1, <4>1 DEF Beyond
    <3>2. CASE awaited # l
      <4>1. UNCHANGED <<ui, awaited>> /\ (awaited # Nobody => loader'[awaited] = loader[awaited])
        BY <2>1, <3>2 DEF Finish, FilesTypeOK
      <4> QED
        BY <4>1 DEF Beyond
    <3> QED
      BY <3>1, <3>2
  <2>3. /\ Beyond(d)' /\ Readable(d) => Beyond(d)
        /\ "idle" = "aside" => Least({}) # d
    BY <2>2
  <2> QED
    BY <2>1, <2>3, LockFrame
<1> QED
  BY <1>1, <1>2

\* A thread that goes on, with no other file of the database changed by it.
LEMMA LockGoes ==
    ASSUME FilesTypeOK, NEW d \in Databases, Cared(d), Watched(d),
           NEW l \in Loaders, NEW pc, NEW todo, Quiet,
           loader' = [loader EXCEPT ![l] = [pc |-> pc, todo |-> todo]],
           encrypted'[d] = encrypted[d], plaintext'[d] = plaintext[d],
           Readable(d)' => Readable(d),
           Past(pc, todo, d) /\ Readable(d) => Past(loader[l].pc, loader[l].todo, d),
           Readable(d) /\ encrypted[d] = Absent => ~At(l, {"check", "export"}, d),
           Readable(d) /\ encrypted[d] # Absent => ~At(l, {"exporting", "exported"}, d),
           plaintext[d] # Absent /\ encrypted[d] = Absent => ~At(l, {"check"}, d),
           pc = "aside" => Least(todo) # d
    PROVE  Cared(d)' /\ Watched(d)'
<1>1. lock' = lock /\ UNCHANGED <<ui, awaited>>
  BY DEF Quiet
<1>2. Beyond(d)' /\ Readable(d) => Beyond(d)
  <2>1. CASE awaited = l
    BY <1>1, <2>1 DEF Beyond, FilesTypeOK
  <2>2. CASE awaited # l /\ awaited # Nobody
    <3>1. loader'[awaited] = loader[awaited]
      BY <2>2 DEF FilesTypeOK
    <3> QED
      BY <1>1, <3>1 DEF Beyond
  <2>3. CASE awaited = Nobody
    BY <1>1, <2>3 DEF Beyond
  <2> QED
    BY <2>1, <2>2, <2>3
<1> QED
  BY <1>1, <1>2, LockFrame

\* What the steps of a thread need to know.
LEMMA LockContext ==
    ASSUME LockInv, Intact
    PROVE  /\ FilesTypeOK /\ Chain /\ EncryptedLocked
           /\ \A d \in Databases : Cared(d) /\ Watched(d)
           /\ \A l \in Loaders :
                 /\ loader[l].pc \in {"export"} \cup Converting => loader[l].todo # {}
                 /\ loader[l].pc \in Conversion => lock
BY DEF LockInv, AccountInv, AlwaysInv, FilesInv, ThreadsInv, Threads

\* A thread that has the database in hand knows of its files; it alone has it.
LEMMA HandKnows ==
    ASSUME LockInv, Intact, NEW l \in Loaders, loader[l].pc \in Converting
    PROVE  /\ Current(l) \in Databases /\ Knows(loader[l].pc, Current(l))
           /\ \A b \in Loaders \ {l} : ~At(b, Converting, Current(l))
<1>1. AccountInv /\ loader[l].todo # {}
  BY LockContext DEF LockInv
<1>2. Current(l) \in Databases /\ Knows(loader[l].pc, Current(l))
  BY <1>1, ConversionContext
<1>3. \A b \in Loaders \ {l} : ~At(b, Converting, Current(l))
  BY <1>1, <1>2 DEF AccountInv, ThreadsInv, Exclusive, InHand, At
<1> QED
  BY <1>2, <1>3

LEMMA ListLock ==
    ASSUME LockInv, Intact, NEW l \in Loaders, List(l) \/ AllConverted(l), NEW d \in Databases
    PROVE  Cared(d)' /\ Watched(d)'
<1>1. FilesTypeOK /\ Cared(d) /\ Watched(d)
  BY LockContext
<1>2. UNCHANGED disk /\ Quiet
  BY DEF List, AllConverted
<1>3. CASE List(l)
  <2> DEFINE todo == {e \in Databases : file[e] # Absent}
  <2>1. loader[l].pc = "list" /\ loader' = [loader EXCEPT ![l] = [pc |-> "check", todo |-> todo]]
    BY <1>3 DEF List, Step
  <2>2. ~(Past("check", todo, d) /\ Readable(d))
    BY DEF Past, Readable
  <2> HIDE DEF todo
  <2>3. \A steps : "list" \notin steps => ~At(l, steps, d)
    BY <2>1 DEF At
  <2>4. /\ encrypted'[d] = encrypted[d] /\ plaintext'[d] = plaintext[d]
        /\ Readable(d)' => Readable(d)
        /\ Past("check", todo, d) /\ Readable(d) => Past(loader[l].pc, loader[l].todo, d)
        /\ "check" = "aside" => Least(todo) # d
    BY <1>2, <2>2 DEF disk, Readable
  <2> QED
    BY <1>1, <1>2, <2>1, <2>3, <2>4, LockGoes
<1>4. CASE AllConverted(l)
  <2>1. loader[l].pc = "check" /\ loader[l].todo = {}
    BY <1>4 DEF AllConverted, Step
  <2>2. loader' = [loader EXCEPT ![l] = [pc |-> "open", todo |-> {}]]
    BY <1>1, <1>4, <2>1, GoIs DEF AllConverted
  <2>3. Past(loader[l].pc, loader[l].todo, d)
    BY <2>1 DEF Past, Conversion
  <2>4. \A steps : ~At(l, steps, d)
    BY <2>1 DEF At
  <2>5. /\ encrypted'[d] = encrypted[d] /\ plaintext'[d] = plaintext[d]
        /\ Readable(d)' => Readable(d)
        /\ Past("open", {}, d) /\ Readable(d) => Past(loader[l].pc, loader[l].todo, d)
        /\ "open" = "aside" => Least({}) # d
    BY <1>2, <2>3 DEF disk, Readable
  <2> QED
    BY <1>1, <1>2, <2>2, <2>4, <2>5, LockGoes
<1> QED
  BY <1>3, <1>4

\* A conversion that checks one database does nothing to another.
LEMMA CheckLockElsewhere ==
    ASSUME LockInv, Intact, NEW l \in Loaders, Check(l), NEW d \in Databases, d # Current(l)
    PROVE  Cared(d)' /\ Watched(d)'
<1>1. FilesTypeOK /\ Cared(d) /\ Watched(d) /\ loader[l].pc = "check"
  BY LockContext DEF Check, Step
<1>2. \A steps : ~At(l, steps, d)
  BY DEF At
<1>3. /\ encrypted'[d] = encrypted[d] /\ plaintext'[d] = plaintext[d] /\ file'[d] = file[d]
      /\ \/ Finish(l, "error")
         \/ Quiet /\ (loader' = loader \/ Done(l) \/ Go(l, "export"))
  <2>1. \/ Reinstall(l, Current(l)) \/ CleanUp(l, Current(l))
        \/ WorkspaceExists(l, Current(l)) \/ ConvertOrSkip(l, Current(l))
    BY DEF Check
  <2> QED
    BY <1>1, <2>1 DEF Reinstall, CleanUp, WorkspaceExists, ConvertOrSkip, disk, FilesTypeOK
<1>4. Readable(d)' => Readable(d)
  BY <1>3 DEF Readable
<1>5. CASE Finish(l, "error")
  BY <1>1, <1>2, <1>3, <1>4, <1>5, LockFinish
<1>6. ASSUME NEW pc \in {"check", "export"}, NEW todo, Quiet,
             loader' = [loader EXCEPT ![l] = [pc |-> pc, todo |-> todo]],
             d \notin todo => d \notin loader[l].todo
      PROVE  Cared(d)' /\ Watched(d)'
  <2>1. Past(pc, todo, d) => Past(loader[l].pc, loader[l].todo, d)
    BY <1>1, <1>6 DEF Past, Conversion
  <2> QED
    BY <1>1, <1>2, <1>3, <1>4, <1>6, <2>1, LockGoes
<1>7. CASE Quiet /\ loader' = loader
  <2>1. loader' = [loader EXCEPT ![l] = [pc |-> "check", todo |-> loader[l].todo]]
    BY <1>1, <1>7 DEF FilesTypeOK
  <2> QED
    BY <1>6, <1>7, <2>1
<1>8. CASE Quiet /\ Done(l)
  BY <1>6, <1>8 DEF Done
<1>9. CASE Quiet /\ Go(l, "export")
  BY <1>1, <1>6, <1>9, GoIs
<1> QED
  BY <1>3, <1>5, <1>7, <1>8, <1>9

LEMMA CheckLock ==
    ASSUME LockInv, Intact, NEW l \in Loaders, Check(l), NEW d \in Databases, d = Current(l)
    PROVE  Cared(d)' /\ Watched(d)'
<1>1. /\ FilesTypeOK /\ Chain /\ EncryptedLocked /\ Cared(d) /\ Watched(d)
      /\ loader[l].pc = "check" /\ loader[l].todo # {}
  BY LockContext DEF Check, Step
<1>2. CASE Reinstall(l, d)
  <2>1. file'[d].locked /\ loader' = loader
    BY <1>1, <1>2 DEF Reinstall, EncryptedLocked, FilesTypeOK
  <2>2. At(l, {"check"}, d)'
    BY <1>1, <2>1 DEF At, Current
  <2> QED
    BY <2>1, <2>2 DEF Cared, Watched, Readable
<1>3. CASE CleanUp(l, d)
  <2>1. file'[d].locked /\ plaintext'[d] = Absent
    BY <1>1, <1>3 DEF CleanUp, FilesTypeOK
  <2> QED
    BY <2>1 DEF Cared, Watched, Readable
<1>4. CASE WorkspaceExists(l, d)
  <2>1. Finish(l, "error") /\ UNCHANGED <<file, encrypted, plaintext>>
    BY <1>4 DEF WorkspaceExists, disk
  <2>2. ~(plaintext[d] # Absent /\ encrypted[d] = Absent)
    BY <1>1, <1>4 DEF WorkspaceExists, Chain
  <2>3. plaintext[d] = Absent => encrypted[d] # Absent
    BY <1>4 DEF WorkspaceExists
  <2>4. ~At(l, {"exporting", "exported"}, d) /\ (Readable(d)' => Readable(d))
    BY <1>1, <2>1 DEF At, Readable
  <2> QED
    BY <1>1, <2>1, <2>2, <2>3, <2>4, LockFinish
<1>5. CASE ConvertOrSkip(l, d)
  <2>1. plaintext[d] = Absent /\ encrypted[d] = Absent /\ UNCHANGED <<file, encrypted, plaintext>>
    BY <1>5 DEF ConvertOrSkip, disk
  <2>2. Watched(d)'
    BY <2>1 DEF Watched
  <2>3. Cared(d)'
    <3>1. CASE Readable(d)
      <4>1. loader' = [loader EXCEPT ![l] = [pc |-> "export", todo |-> loader[l].todo]]
        BY <1>1, <1>5, <3>1, GoIs DEF ConvertOrSkip, Readable
      <4>2. At(l, {"check", "export"}, d)'
        BY <1>1, <4>1 DEF At, Current, FilesTypeOK
      <4> QED
        BY <2>1, <4>2 DEF Cared
    <3>2. CASE ~Readable(d)
      BY <2>1, <3>2 DEF Cared, Readable
    <3> QED
      BY <3>1, <3>2
  <2> QED
    BY <2>2, <2>3
<1> QED
  BY <1>2, <1>3, <1>4, <1>5 DEF Check

\* A conversion that has one database in hand does nothing to another.
LEMMA HandLockElsewhere ==
    ASSUME LockInv, Intact, NEW l \in Loaders, NEW d \in Databases, d # Current(l),
           ExportStarts(l) \/ ExportEnds(l) \/ MoveAside(l) \/ Install(l) \/ DropPlaintext(l)
    PROVE  Cared(d)' /\ Watched(d)'
<1>1. /\ FilesTypeOK /\ Cared(d) /\ Watched(d)
      /\ loader[l].pc \in {"export"} \cup Converting
  BY LockContext DEF ExportStarts, ExportEnds, MoveAside, Install, DropPlaintext, Step, Converting
<1>2. \A steps : ~At(l, steps, d)
  BY DEF At
<1>3. /\ encrypted'[d] = encrypted[d] /\ plaintext'[d] = plaintext[d] /\ file'[d] = file[d]
      /\ \/ Finish(l, "error")
         \/ Quiet /\ (Done(l) \/ \E pc \in Converting : Go(l, pc))
  BY <1>1 DEF ExportStarts, ExportEnds, MoveAside, Install, DropPlaintext, disk, FilesTypeOK,
              Converting
<1>4. Readable(d)' => Readable(d)
  BY <1>3 DEF Readable
<1>5. CASE Finish(l, "error")
  BY <1>1, <1>2, <1>3, <1>4, <1>5, LockFinish
<1>6. CASE Quiet /\ Done(l)
  <2> DEFINE todo == loader[l].todo \ {Current(l)}
  <2>1. loader' = [loader EXCEPT ![l] = [pc |-> "check", todo |-> todo]]
    BY <1>6 DEF Done
  <2>2. Past("check", todo, d) => Past(loader[l].pc, loader[l].todo, d)
    BY <1>1 DEF Past, Conversion, Converting
  <2> HIDE DEF todo
  <2>3. /\ Past("check", todo, d) /\ Readable(d) => Past(loader[l].pc, loader[l].todo, d)
        /\ "check" = "aside" => Least(todo) # d
    BY <2>2
  <2> QED
    BY <1>1, <1>2, <1>3, <1>4, <1>6, <2>1, <2>3, LockGoes
<1>7. ASSUME Quiet, NEW pc \in Converting, Go(l, pc) PROVE Cared(d)' /\ Watched(d)'
  <2>1. loader' = [loader EXCEPT ![l] = [pc |-> pc, todo |-> loader[l].todo]]
    BY <1>1, <1>7, GoIs
  <2>2. Past(pc, loader[l].todo, d) => Past(loader[l].pc, loader[l].todo, d)
    BY <1>1, <1>7 DEF Past, Conversion, Converting
  <2>3. Least(loader[l].todo) # d
    BY DEF Current
  <2> QED
    BY <1>1, <1>2, <1>3, <1>4, <1>7, <2>1, <2>2, <2>3, LockGoes
<1> QED
  BY <1>3, <1>5, <1>6, <1>7

LEMMA ExportLock ==
    ASSUME LockInv, Intact, NEW l \in Loaders, NEW d \in Databases, d = Current(l),
           ExportStarts(l) \/ ExportEnds(l) \/ MoveAside(l)
    PROVE  Cared(d)' /\ Watched(d)'
<1>1. /\ FilesTypeOK /\ Chain /\ Cared(d) /\ Watched(d) /\ loader[l].todo # {}
      /\ loader[l].pc \in {"export", "exporting", "exported"}
  BY LockContext DEF ExportStarts, ExportEnds, MoveAside, Step, Converting
<1>2. CASE ExportStarts(l)
  <2>1. loader[l].pc = "export"
    BY <1>2 DEF ExportStarts, Step
  <2> DEFINE source == IF file[d] = Absent THEN Fresh(0, FALSE) ELSE file[d]
  <2>2. CASE source.locked \/ encrypted[d] # Absent
    <3>1. Finish(l, "error") /\ UNCHANGED <<file, encrypted, plaintext>>
      BY <1>2, <2>2 DEF ExportStarts, disk
    <3>2. Readable(d) => encrypted[d] # Absent
      BY <2>2 DEF Readable
    <3>3. ~At(l, {"exporting", "exported"}, d) /\ ~At(l, {"check"}, d)
      BY <2>1 DEF At
    <3>4. Readable(d)' => Readable(d)
      BY <3>1 DEF Readable
    <3> HIDE DEF source
    <3> QED
      BY <1>1, <3>1, <3>2, <3>3, <3>4, LockFinish
  <2>3. CASE ~(source.locked \/ encrypted[d] # Absent)
    <3>1. /\ plaintext' = plaintext /\ Go(l, "exporting")
          /\ encrypted' = [encrypted EXCEPT ![d] = [source EXCEPT !.whole = FALSE, !.locked = TRUE]]
      BY <1>2, <2>3 DEF ExportStarts
    <3>2. [source EXCEPT !.whole = FALSE, !.locked = TRUE] \in Contents
      <4>1. Fresh(0, FALSE) \in Contents
        BY DEF Fresh, Contents
      <4>2. source \in Contents
        BY <1>1, <4>1 DEF FilesTypeOK
      <4> QED
        BY <4>2 DEF Contents
    <3>3. encrypted'[d] # Absent
      BY <1>1, <3>1, <3>2 DEF FilesTypeOK
    <3>4. plaintext'[d] = Absent
      BY <1>1, <2>3, <3>1 DEF Chain
    <3>5. At(l, {"exporting", "exported"}, d)'
      <4>1. loader' = [loader EXCEPT ![l] = [pc |-> "exporting", todo |-> loader[l].todo]]
        BY <1>1, <3>1, GoIs
      <4> QED
        BY <1>1, <4>1 DEF At, Current, FilesTypeOK
    <3> HIDE DEF source
    <3> QED
      BY <3>3, <3>4, <3>5 DEF Cared, Watched
  <2> QED
    BY <2>2, <2>3
<1>3. CASE ExportEnds(l)
  <2>1. loader[l].pc = "exporting"
    BY <1>3 DEF ExportEnds, Step
  <2>2. encrypted[d] # Absent /\ plaintext[d] = Absent
    BY <2>1, HandKnows DEF Knows, Converting
  <2>3. /\ plaintext' = plaintext /\ Go(l, "exported")
        /\ encrypted' = [encrypted EXCEPT ![d] = [encrypted[d] EXCEPT !.whole = TRUE]]
    BY <1>3, <2>2 DEF ExportEnds
  <2>4. encrypted'[d] # Absent
    <3>1. encrypted[d] \in Contents
      BY <1>1, <2>2 DEF FilesTypeOK
    <3>2. [encrypted[d] EXCEPT !.whole = TRUE] \in Contents
      BY <3>1 DEF Contents
    <3> QED
      BY <1>1, <2>3, <3>2 DEF FilesTypeOK
  <2>5. At(l, {"exporting", "exported"}, d)'
    <3>1. loader' = [loader EXCEPT ![l] = [pc |-> "exported", todo |-> loader[l].todo]]
      BY <1>1, <2>3, GoIs
    <3> QED
      BY <1>1, <3>1 DEF At, Current, FilesTypeOK
  <2> QED
    BY <2>2, <2>3, <2>4, <2>5 DEF Cared, Watched
<1>4. CASE MoveAside(l)
  <2>1. loader[l].pc = "exported"
    BY <1>4 DEF MoveAside, Step
  <2>2. encrypted[d] # Absent /\ file[d] # Absent
    BY <2>1, HandKnows DEF Knows, Converting
  <2>3. file'[d] = Absent /\ encrypted'[d] # Absent
    BY <1>1, <1>4, <2>2 DEF MoveAside, FilesTypeOK
  <2> QED
    BY <2>3 DEF Cared, Watched, Readable
<1> QED
  BY <1>2, <1>3, <1>4

LEMMA InstallLock ==
    ASSUME LockInv, Intact, NEW l \in Loaders, NEW d \in Databases, d = Current(l),
           Install(l) \/ DropPlaintext(l)
    PROVE  Cared(d)' /\ Watched(d)'
<1>1. /\ FilesTypeOK /\ EncryptedLocked /\ Cared(d) /\ Watched(d) /\ loader[l].todo # {}
      /\ loader[l].pc \in {"aside", "installed"} /\ Knows(loader[l].pc, d)
      /\ \A b \in Loaders \ {l} : ~At(b, Converting, d)
  BY LockContext, HandKnows DEF Install, DropPlaintext, Step, Converting
<1>2. CASE Install(l) /\ encrypted[d] = Absent
  <2>1. loader[l].pc = "aside" /\ Finish(l, "error") /\ encrypted' = encrypted
    BY <1>2 DEF Install, Step
  <2>2. plaintext'[d] = Absent
    BY <1>1, <1>2 DEF Install, FilesTypeOK
  <2>3. Watched(d)'
    BY <2>2 DEF Watched
  <2>4. Cared(d)'
    <3>1. CASE Halt
      BY <3>1, LockHalt
    <3>2. CASE plaintext[d] = Absent
      <4>1. file'[d] = file[d] /\ file[d].locked
        BY <1>1, <1>2, <2>1, <3>2 DEF Install, Knows
      <4> QED
        BY <4>1 DEF Cared, Readable
    <3>3. CASE plaintext[d] # Absent /\ ~Halt
      <4>1. At(l, {"aside"}, d)
        BY <1>1, <2>1 DEF At
      <4>2. PICK c \in Loaders : At(c, {"check"}, d)
        BY <1>1, <1>2, <3>3, <4>1 DEF Watched
      <4>3. c # l /\ loader' = [loader EXCEPT ![l] = Idle]
        BY <2>1, <3>3, <4>2 DEF At, Finish
      <4>4. At(c, {"check", "export"}, d)'
        BY <1>1, <4>2, <4>3 DEF At, Current, FilesTypeOK
      <4> QED
        BY <1>2, <2>1, <2>2, <4>4 DEF Cared
    <3> QED
      BY <3>1, <3>2, <3>3
  <2> QED
    BY <2>3, <2>4
<1>3. CASE Install(l) /\ encrypted[d] # Absent
  <2>1. /\ file'[d].locked
        /\ loader' = [loader EXCEPT ![l] = [pc |-> "installed", todo |-> loader[l].todo]]
    BY <1>1, <1>3, GoIs DEF Install, EncryptedLocked, FilesTypeOK
  <2>2. \A b \in Loaders : ~At(b, {"aside"}, d)'
    BY <1>1, <2>1 DEF At, Current, FilesTypeOK, Converting
  <2> QED
    BY <2>1, <2>2 DEF Cared, Watched, Readable
<1>4. CASE DropPlaintext(l)
  <2>1. file[d].locked
    BY <1>1, <1>4 DEF DropPlaintext, Step, Knows
  <2>2. file' = file /\ plaintext'[d] = Absent
    BY <1>1, <1>4 DEF DropPlaintext, disk, FilesTypeOK
  <2> QED
    BY <2>1, <2>2 DEF Cared, Watched, Readable
<1> QED
  BY <1>2, <1>3, <1>4

\* A load that opens the database under Local Lock reserves locked copies only.
LEMMA OpenLock ==
    ASSUME LockInv, Intact, NEW l \in Loaders, Open(l), NEW d \in Databases
    PROVE  Cared(d)' /\ Watched(d)'
<1>1. FilesTypeOK /\ Cared(d) /\ Watched(d) /\ loader[l].pc = "open"
  BY LockContext DEF Open, Step
<1>2. \A steps : "open" \notin steps => ~At(l, steps, d)
  BY <1>1 DEF At
<1>3. encrypted'[d] = encrypted[d] /\ plaintext'[d] = plaintext[d]
  BY DEF Open, disk, temporary
<1>4. Readable(d)' => Readable(d)
  <2>1. CASE UNCHANGED file
    BY <2>1 DEF Readable
  <2>2. CASE ~UNCHANGED file
    <3>1. file' = [file EXCEPT ![NextBackup] = Reserved]
      BY <2>2 DEF Open, disk
    <3>2. CASE d = NextBackup
      BY <1>1, <3>1, <3>2, ReservedContent DEF Readable, FilesTypeOK
    <3>3. CASE d # NextBackup
      BY <1>1, <3>1, <3>3 DEF Readable, FilesTypeOK
    <3> QED
      BY <3>2, <3>3
  <2> QED
    BY <2>1, <2>2
<1>5. \/ \E o \in {"error", "session", "recovery"} : Finish(l, o)
      \/ Quiet /\ loader' = [loader EXCEPT ![l] = [pc |-> "backup", todo |-> {NextBackup}]]
  BY DEF Open
<1>6. ASSUME NEW o \in {"error", "session", "recovery"}, Finish(l, o)
      PROVE  Cared(d)' /\ Watched(d)'
  BY <1>1, <1>2, <1>3, <1>4, <1>6, LockFinish
<1>7. CASE Quiet /\ loader' = [loader EXCEPT ![l] = [pc |-> "backup", todo |-> {NextBackup}]]
  <2>1. Past(loader[l].pc, loader[l].todo, d) /\ ("backup" = "aside" => Least({NextBackup}) # d)
    BY <1>1 DEF Past
  <2> QED
    BY <1>1, <1>2, <1>3, <1>4, <1>7, <2>1, LockGoes
<1> QED
  BY <1>5, <1>6, <1>7

LEMMA LoadLock ==
    ASSUME LockInv, Intact, NEW l \in Loaders, Load(l), ThreadsInv', NEW d \in Databases
    PROVE  Cared(d)' /\ Watched(d)'
<1>1. CASE Backup(l) \/ Migrate(l)
  <2>1. ~lock /\ lock' = lock
    BY <1>1 DEF LockInv, AccountInv, ThreadsInv, Threads, Backup, Migrate, Step, Finish, Quiet
  <2>2. \A b \in Loaders : ~At(b, {"aside"}, d)'
    BY <2>1 DEF At, ThreadsInv, Threads, Conversion, Converting
  <2> QED
    BY <2>1, <2>2 DEF Cared, Watched
<1>2. CASE d = Current(l)
  BY <1>1, <1>2, ListLock, CheckLock, ExportLock, InstallLock, OpenLock DEF Load, Convert
<1>3. CASE d # Current(l)
  BY <1>1, <1>3, ListLock, CheckLockElsewhere, HandLockElsewhere, OpenLock DEF Load, Convert
<1> QED
  BY <1>2, <1>3

\* What the foreground holds on to: the account is registered, converted files are
\* locked, and a rebuilt database is as locked as the one it replaces.
LEMMA HoldsOn ==
    ASSUME AlwaysInv, RegisteredInv, EncryptedLocked, WorkspaceLocked, [Next]_vars
    PROVE  RegisteredInv' /\ EncryptedLocked' /\ WorkspaceLocked'
<1>1. /\ FilesTypeOK /\ WorkspaceInv
      /\ encrypted \in [Databases -> Contents \cup {Absent}]
  BY DEF AlwaysInv, FilesTypeOK
<1>2. RegisteredInv'
  <2>1. ASSUME NEW l \in Loaders, NEW outcome \in {"error", "session", "recovery"},
               Finish(l, outcome)
        PROVE  RegisteredInv'
    <3>1. awaited = l => ui \in {"loading", "retrying"}
      BY <1>1 DEF FilesTypeOK
    <3> QED
      BY <2>1, <3>1 DEF Finish, Halt, RegisteredInv, RebuildSteps
  <2>2. ASSUME NEW l \in Loaders, Load(l) PROVE RegisteredInv'
    <3>1. \/ Quiet \/ \E outcome \in {"error", "session", "recovery"} : Finish(l, outcome)
      <4>1. CASE Convert(l)
        BY <4>1 DEF Convert, List, AllConverted, Check, Reinstall, CleanUp, WorkspaceExists,
                    ConvertOrSkip, ExportStarts, ExportEnds, MoveAside, Install, DropPlaintext
      <4>2. CASE Open(l) \/ Backup(l) \/ Migrate(l)
        BY <4>2 DEF Open, Backup, Migrate
      <4> QED
        BY <2>2, <4>1, <4>2 DEF Load
    <3> QED
      BY <2>1, <3>1 DEF Quiet, RegisteredInv
  <2>3. ASSUME NEW l \in Loaders, Select(l) \/ Retry(l) PROVE RegisteredInv'
    BY <2>3 DEF Select, Retry, RegisteredInv, RebuildSteps
  <2>4. ASSUME NEW d \in Databases, RemoveFile(d) PROVE RegisteredInv'
    BY <2>4 DEF RemoveFile, Halt, RegisteredInv, RebuildSteps
  <2>5. CASE Start \/ Leave \/ Stop \/ Remove \/ Removed \/ CopyUniqueRecords \/ Preserve
             \/ InstallRebuilt \/ Damage \/ Upgrade \/ Rebuild
    BY <2>5 DEF Start, Leave, Stop, Remove, Removed, CopyUniqueRecords, Preserve, InstallRebuilt,
                Damage, Upgrade, Rebuild, Halt, RegisteredInv, RebuildSteps
  <2>6. CASE UNCHANGED vars
    BY <2>6 DEF vars, RegisteredInv
  <2> QED
    BY <2>2, <2>3, <2>4, <2>5, <2>6 DEF Next
<1>3. EncryptedLocked'
  <2>1. CASE encrypted' = encrypted
    BY <2>1 DEF EncryptedLocked
  <2>2. ASSUME NEW l \in Loaders, ExportStarts(l), encrypted' # encrypted PROVE EncryptedLocked'
    <3> DEFINE d == Current(l)
               source == IF file[d] = Absent THEN Fresh(0, FALSE) ELSE file[d]
    <3>1. encrypted' = [encrypted EXCEPT ![d] = [source EXCEPT !.whole = FALSE, !.locked = TRUE]]
      BY <2>2 DEF ExportStarts, disk
    <3>2. d \in Databases => [source EXCEPT !.whole = FALSE, !.locked = TRUE].locked
      <4>1. Fresh(0, FALSE) \in Contents
        BY DEF Fresh, Contents
      <4>2. d \in Databases => source \in Contents
        BY <1>1, <4>1 DEF FilesTypeOK
      <4> QED
        BY <4>2 DEF Contents
    <3> HIDE DEF source, d
    <3> QED
      BY <1>1, <3>1, <3>2 DEF EncryptedLocked
  <2>3. ASSUME NEW l \in Loaders, ExportEnds(l), encrypted' # encrypted PROVE EncryptedLocked'
    <3> DEFINE d == Current(l)
    <3>1. encrypted[d] # Absent
          /\ encrypted' = [encrypted EXCEPT ![d] = [encrypted[d] EXCEPT !.whole = TRUE]]
      BY <2>3 DEF ExportEnds, disk
    <3>2. d \in Databases => [encrypted[d] EXCEPT !.whole = TRUE].locked
      <4>1. d \in Databases => encrypted[d] \in Contents /\ encrypted[d].locked
        BY <1>1, <3>1 DEF EncryptedLocked
      <4> QED
        BY <4>1 DEF Contents
    <3> HIDE DEF d
    <3> QED
      BY <1>1, <3>1, <3>2 DEF EncryptedLocked
  <2>4. ASSUME NEW d, encrypted' = [encrypted EXCEPT ![d] = Absent] PROVE EncryptedLocked'
    BY <1>1, <2>4 DEF EncryptedLocked
  <2>5. ASSUME NEW l \in Loaders, Load(l) PROVE EncryptedLocked'
    <3>1. \/ encrypted' = encrypted \/ ExportStarts(l) \/ ExportEnds(l)
          \/ \E d : encrypted' = [encrypted EXCEPT ![d] = Absent]
      <4>1. CASE List(l) \/ AllConverted(l) \/ Check(l)
        BY <4>1 DEF List, AllConverted, Check, Reinstall, CleanUp, WorkspaceExists,
                    ConvertOrSkip, disk
      <4>2. CASE MoveAside(l) \/ Install(l) \/ DropPlaintext(l)
        BY <4>2 DEF MoveAside, Install, DropPlaintext, disk
      <4>3. CASE Open(l) \/ Backup(l) \/ Migrate(l)
        BY <4>3 DEF Open, Backup, Migrate, disk, temporary
      <4> QED
        BY <2>5, <4>1, <4>2, <4>3 DEF Load, Convert
    <3> QED
      BY <2>1, <2>2, <2>3, <2>4, <3>1
  <2>6. CASE \E l \in Loaders : Select(l) \/ Retry(l)
    BY <2>1, <2>6 DEF Select, Retry, disk
  <2>7. CASE \E d \in Databases : RemoveFile(d)
    BY <2>1, <2>7 DEF RemoveFile, disk, temporary
  <2>8. CASE \/ Start \/ Leave \/ Stop \/ Remove \/ Removed \/ CopyUniqueRecords \/ Preserve
             \/ InstallRebuilt \/ Damage \/ Upgrade \/ Rebuild \/ UNCHANGED vars
    BY <2>1, <2>8 DEF Start, Leave, Stop, Remove, Removed, CopyUniqueRecords, Preserve,
                      InstallRebuilt, Damage, Upgrade, Rebuild, vars, disk, temporary
  <2> QED
    BY <2>5, <2>6, <2>7, <2>8 DEF Next
<1>4. WorkspaceLocked'
  <2>1. ui' \in RebuildSteps =>
           \/ UNCHANGED <<workspace, lock>> /\ ui \in RebuildSteps
           \/ Rebuild \/ CopyUniqueRecords
    <3>1. ASSUME NEW l \in Loaders, Load(l)
          PROVE  UNCHANGED <<workspace, lock>> /\ (ui' = ui \/ ui' \in {"off", "session", "recovery"})
      <4> USE DEF Finish, Halt, Quiet, disk, temporary
      <4>1. CASE Convert(l)
        BY <4>1 DEF Convert, List, AllConverted, Check, Reinstall, CleanUp, WorkspaceExists,
                    ConvertOrSkip, ExportStarts, ExportEnds, MoveAside, Install, DropPlaintext
      <4>2. CASE Open(l) \/ Backup(l) \/ Migrate(l)
        BY <4>2 DEF Open, Backup, Migrate
      <4> QED
        BY <3>1, <4>1, <4>2 DEF Load
    <3>2. ASSUME NEW l \in Loaders, Select(l) \/ Retry(l) PROVE ui' \notin RebuildSteps
      BY <3>2 DEF Select, Retry, RebuildSteps
    <3>3. ASSUME NEW d \in Databases, RemoveFile(d) PROVE ui' \notin RebuildSteps
      BY <3>3 DEF RemoveFile, Halt, RebuildSteps
    <3>4. Preserve => (UNCHANGED <<workspace, lock>> /\ ui \in RebuildSteps) \/ ui' = "off"
      BY DEF Preserve, Halt, RebuildSteps
    <3>5. Start \/ Leave \/ Stop \/ Remove \/ Removed \/ InstallRebuilt \/ Damage \/ Upgrade
          => ui' \notin RebuildSteps
      BY DEF Start, Leave, Stop, Remove, Removed, InstallRebuilt, Damage, Upgrade, Halt,
             RebuildSteps
    <3>6. UNCHANGED vars => UNCHANGED <<workspace, lock, ui>>
      BY DEF vars, disk
    <3> QED
      BY <3>1, <3>2, <3>3, <3>4, <3>5, <3>6 DEF Next, RebuildSteps
  <2>2. CASE Rebuild
    BY <2>2 DEF Rebuild, WorkspaceLocked, Fresh
  <2>3. CASE CopyUniqueRecords
    <3>1. workspace \in Contents /\ workspace.locked = lock
      BY <1>1, <2>3 DEF CopyUniqueRecords, WorkspaceInv, WorkspaceLocked, FilesTypeOK, RebuildSteps
    <3>2. workspace'.locked = workspace.locked /\ lock' = lock
      BY <2>3, <3>1 DEF CopyUniqueRecords, Contents
    <3> QED
      BY <3>1, <3>2 DEF WorkspaceLocked
  <2> QED
    BY <2>1, <2>2, <2>3 DEF WorkspaceLocked
<1> QED
  BY <1>2, <1>3, <1>4

\* A rebuild moves and installs locked databases under Local Lock.
LEMMA RebuildLock ==
    ASSUME LockInv, Intact, Preserve \/ InstallRebuilt, NEW d \in Databases
    PROVE  Cared(d)' /\ Watched(d)'
<1>1. /\ FilesTypeOK /\ Cared(d) /\ Main \in Databases
      /\ RebuildAlone /\ Rebuilding /\ WorkspaceLocked
  BY LockContext, DatabasesNat DEF LockInv, AccountInv, RebuildInv
<1>2. CASE Halt
  BY <1>2, LockHalt
<1>3. CASE ~Halt
  <2>1. /\ ui \in {"created", "preserved"} /\ loader' = loader /\ lock' = lock
        /\ \A l \in Loaders : loader[l].pc = "idle"
    BY <1>1, <1>3 DEF Preserve, InstallRebuilt, RebuildAlone, RebuildSteps, Idle
  <2>2. \A m \in Loaders : \A steps : "idle" \notin steps => ~At(m, steps, d) /\ ~At(m, steps, d)'
    BY <2>1 DEF At
  <2>3. Watched(d)'
    BY <2>2 DEF Watched
  <2>4. lock => ~Readable(d)
    BY <2>1, <2>2, <1>1 DEF Cared, Beyond, RebuildSteps
  <2>5. lock => ~Readable(d)'
    <3>1. CASE Preserve
      <4>1. /\ file[Main].locked = lock /\ NextBackup \in Databases
            /\ file' = [file EXCEPT ![NextBackup] = file[Main], ![Main] = Absent]
        BY <1>1, <1>3, <3>1, NextBackupFree, DatabasesNat DEF Preserve, Rebuilding
      <4> QED
        BY <1>1, <2>4, <4>1 DEF Readable, FilesTypeOK
    <3>2. CASE InstallRebuilt
      <4>1. /\ workspace.locked = lock /\ file' = [file EXCEPT ![Main] = workspace]
        BY <1>1, <1>3, <3>2 DEF InstallRebuilt, WorkspaceLocked, RebuildSteps
      <4> QED
        BY <1>1, <2>4, <4>1 DEF Readable, FilesTypeOK
    <3> QED
      BY <3>1, <3>2
  <2> QED
    BY <2>1, <2>3, <2>5 DEF Cared
<1> QED
  BY <1>2, <1>3

\* The foreground turns to the account with a thread that was idle.
LEMMA ForegroundLock ==
    ASSUME LockInv, Intact, NEW l \in Loaders, Select(l) \/ Retry(l), NEW d \in Databases
    PROVE  Cared(d)' /\ Watched(d)'
<1>1. FilesTypeOK /\ Cared(d) /\ Watched(d)
  BY LockContext
<1>2. /\ loader[l] = Idle /\ UNCHANGED <<disk, lock>>
      /\ \A steps : "idle" \notin steps => ~At(l, steps, d)
  BY DEF Select, Retry, At, Idle
<1>3. PICK pc \in {"list", "open"} : Go(l, pc) /\ (lock => (Beyond(d)' => Beyond(d)))
  <2>1. CASE Select(l)
    <3>1. Go(l, IF lock THEN "list" ELSE "open") /\ ui' = "loading" /\ awaited' = l
      BY <2>1 DEF Select, Go
    <3>2. lock => ~Beyond(d)'
      BY <1>1, <3>1 DEF Beyond, Past, RebuildSteps, Go, FilesTypeOK
    <3> QED
      BY <3>1, <3>2
  <2>2. CASE Retry(l)
    BY <2>2 DEF Retry, Beyond
  <2> QED
    BY <2>1, <2>2
<1>4. loader' = [loader EXCEPT ![l] = [pc |-> pc, todo |-> loader[l].todo]]
  BY <1>1, <1>3, GoIs
<1>5. /\ encrypted'[d] = encrypted[d] /\ plaintext'[d] = plaintext[d]
      /\ Readable(d)' => Readable(d)
  BY <1>2 DEF disk, Readable
<1>6. CASE lock
  <2>1. (Beyond(d)' /\ Readable(d) => Beyond(d)) /\ (pc = "aside" => Least(loader[l].todo) # d)
    BY <1>3, <1>6
  <2> QED
    BY <1>1, <1>2, <1>4, <1>5, <2>1, LockFrame
<1>7. CASE ~lock
  <2>1. \A b \in Loaders : ~At(b, {"aside"}, d)'
    <3>1. \A b \in Loaders : loader[b].pc \notin Conversion
      BY <1>7, LockContext
    <3> QED
      BY <1>1, <1>3, <1>4, <3>1 DEF At, Conversion, Converting, FilesTypeOK
  <2> QED
    BY <1>2, <1>7, <2>1 DEF Cared, Watched
<1> QED
  BY <1>6, <1>7

LEMMA LockStep ==
    ASSUME LockInv, [Next]_vars, Intact', ThreadsInv', NEW d \in Databases
    PROVE  Cared(d)' /\ Watched(d)'
<1>1. /\ Intact /\ FilesTypeOK /\ RemovingInv /\ Cared(d) /\ Watched(d)
  BY IntactBefore, LockContext DEF LockInv, AccountInv, AlwaysInv
<1>2. CASE Start \/ Damage \/ Upgrade
  <2>1. /\ ui = "off" /\ ui' \in {"off", "elsewhere"} /\ loader' = loader /\ awaited' = awaited
    BY <1>2 DEF Start, Damage, Upgrade, temporary
  <2>2. awaited = Nobody /\ \A m \in Loaders : loader[m].pc = "idle"
    BY <1>1, <2>1 DEF FilesTypeOK, Idle
  <2> QED
    BY <2>1, <2>2 DEF Cared, Beyond, Watched, At, RebuildSteps
<1>3. CASE Leave \/ Remove \/ Removed
  <2>1. /\ ui' \in {"elsewhere", "removing"} /\ UNCHANGED <<disk, loader>>
        /\ awaited' \in {Nobody, awaited} /\ (Removed => awaited = Nobody)
    BY <1>1, <1>3 DEF Leave, Remove, Removed, FilesTypeOK
  <2>2. awaited' = Nobody
    BY <1>3, <2>1 DEF Leave, Remove, Removed
  <2>3. \A m \in Loaders : \A steps : At(m, steps, d)' <=> At(m, steps, d)
    BY <2>1 DEF At, Current
  <2> QED
    BY <1>1, <2>1, <2>2, <2>3 DEF Cared, Beyond, Watched, disk, RebuildSteps
<1>4. CASE Stop
  BY <1>4, LockHalt DEF Stop
<1>5. CASE Rebuild \/ CopyUniqueRecords \/ UNCHANGED vars
  <2>1. /\ UNCHANGED <<file, encrypted, plaintext, lock, loader, awaited>>
        /\ ui' = ui \/ (ui \in {"recovery", "creating"} /\ ui' \in RebuildSteps)
    BY <1>5 DEF Rebuild, CopyUniqueRecords, vars, disk, RebuildSteps
  <2>2. \A m \in Loaders : \A steps : At(m, steps, d)' <=> At(m, steps, d)
    BY <2>1 DEF At, Current
  <2>3. Beyond(d)' => Beyond(d)
    BY <2>1 DEF Beyond, RebuildSteps
  <2>4. Readable(d)' <=> Readable(d)
    BY <2>1 DEF Readable
  <2> QED
    BY <1>1, <2>1, <2>2, <2>3, <2>4 DEF Cared, Watched
<1>6. \A e \in Databases : ~RemoveFile(e)
  BY <1>1 DEF RemoveFile, RemovingInv, Intact
<1> QED
  BY <1>1, <1>2, <1>3, <1>4, <1>5, <1>6, LoadLock, RebuildLock, ForegroundLock DEF Next

LEMMA LockInit == ASSUME Init PROVE LockInv
<1>1. /\ AccountInv /\ ui = "off" /\ awaited = Nobody
      /\ \A l \in Loaders : loader[l].pc = "idle"
      /\ \A d \in Databases : encrypted[d] = Absent
  BY AccountInit DEF Init, Idle
<1> QED
  BY <1>1 DEF LockInv, RegisteredInv, EncryptedLocked, WorkspaceLocked, Cared, Beyond, Watched, At,
              RebuildSteps

\* Under Local Lock, and once no thread still loads the account, a session has neither
\* the database nor a retained copy in plaintext, whatever loads were left or stopped
\* before it and wherever their conversions had got.
THEOREM LockedInSessionAlways == FilesSpec => []LockedInSession
<1>1. Init => LockInv
  BY LockInit
<1>2. LockInv /\ [Next]_vars => LockInv'
  <2> SUFFICES ASSUME LockInv, [Next]_vars PROVE LockInv'
    OBVIOUS
  <2>1. AccountInv /\ AccountInv'
    BY AlwaysStep, FilesStep, ThreadsStep, RebuildStep DEF AccountInv, LockInv
  <2>2. RegisteredInv' /\ EncryptedLocked' /\ WorkspaceLocked'
    BY <2>1, HoldsOn DEF AccountInv, LockInv
  <2>3. Intact' => \A d \in Databases : Cared(d)' /\ Watched(d)'
    BY <2>1, LockStep DEF AccountInv
  <2> QED
    BY <2>1, <2>2, <2>3 DEF LockInv
<1>3. LockInv => LockedInSession
  <2> SUFFICES ASSUME LockInv, ui = "session", lock, Settled, NEW d \in Databases, Readable(d)
               PROVE  FALSE
    BY DEF LockedInSession, Readable
  <2>1. Cared(d) /\ Beyond(d)
    BY DEF LockInv, RegisteredInv, Settled, Intact, Beyond
  <2>2. \A m \in Loaders : loader[m].pc = "idle"
    BY DEF Settled, Idle
  <2> QED
    BY <2>1, <2>2 DEF Cared, At
<1> QED
  BY <1>1, <1>2, <1>3, PTL DEF FilesSpec

=============================================================================
