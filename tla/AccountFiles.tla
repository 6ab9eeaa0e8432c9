---------------------------- MODULE AccountFiles ----------------------------
(***************************************************************************)
(* The files of one account: its database, the copies retained of it, and  *)
(* the workspaces of the two operations that replace a database by a new   *)
(* one, the conversion to Local Lock (store/account/security.rs) and the   *)
(* rebuild of a damaged cache (intuigram-store/src/recovery/rebuild.rs).   *)
(* Every file operation is a step of its own and the process may stop      *)
(* before any of them.                                                     *)
(*                                                                         *)
(* An account is loaded on a thread of the blocking pool                   *)
(* (app/account_loading.rs:41).  The user may leave the loading screen;    *)
(* the thread then runs on without anybody to report to.                   *)
(***************************************************************************)
EXTENDS Naturals, FiniteSets

CONSTANTS MaxBackups,       \* names for retained copies (1000 in the code)
          MaxGenerations,   \* databases that ever held the records
          Loaders,          \* threads that may be loading at once
          Absent,           \* no such file
          Nobody            \* no thread is awaited

ASSUME FilesAssumption ==
    /\ MaxBackups \in Nat
    /\ MaxGenerations \in Nat \ {0}
    /\ Nobody \notin Loaders

Least(S) == CHOOSE m \in S : \A n \in S : m <= n

\* The database is 0, "<id>.db.*.bak" are 1, 2, ...
Main == 0
Backups == 1..MaxBackups
Databases == {Main} \cup Backups

\* What a file holds.  "generation" names the database that first held the
\* unique records in it; "whole": all of them; "sound": the consistency checks
\* pass; "outdated": the schema is an older one; "locked": no SQLite header,
\* that is, encrypted or empty.
Contents == [generation : 0..MaxGenerations, whole : BOOLEAN,
             sound : BOOLEAN, outdated : BOOLEAN, locked : BOOLEAN]
ASSUME AbsentAssumption == Absent \notin Contents

Fresh(g, key) == [generation |-> g, whole |-> TRUE, sound |-> TRUE,
                  outdated |-> FALSE, locked |-> key]
Reserved == [Fresh(0, TRUE) EXCEPT !.whole = FALSE]

VARIABLES
    file,         \* database and retained copies
    encrypted,    \* "*.local-lock-encrypted.tmp" of each of them
    plaintext,    \* "*.local-lock-plaintext.tmp" of each of them
    workspace,    \* "*.db.rebuild-n.tmp/account.db" of the running rebuild
    abandoned,    \* such workspaces that a stopped process left
    generation,   \* generation of the records installed last
    original,     \* name the running rebuild gave the database, else Main
    registered,   \* the account is in the registry
    lock,         \* Local Lock is enabled in the configuration
    ui,           \* what the foreground is doing with this account
    awaited,      \* the thread the loading screen waits for
    loader,       \* every loading thread: step and databases still to convert
    doomed,       \* databases a removal has still to delete
    raced         \* history variable: a rebuild met a load nobody waits for

disk == <<file, encrypted, plaintext, workspace, abandoned, generation, original>>
temporary == <<encrypted, plaintext, workspace, abandoned, generation, original>>
vars == <<disk, registered, lock, ui, awaited, loader, doomed, raced>>

RebuildSteps == {"creating", "created", "preserved"}
LoadSteps == {"idle", "list", "check", "export", "exporting", "exported",
              "aside", "installed", "open", "backup", "migrate"}
Idle == [pc |-> "idle", todo |-> {}]

FilesTypeOK ==
    /\ file \in [Databases -> Contents \cup {Absent}]
    /\ encrypted \in [Databases -> Contents \cup {Absent}]
    /\ plaintext \in [Databases -> Contents \cup {Absent}]
    /\ workspace \in Contents \cup {Absent}
    /\ workspace # Absent => ui \in RebuildSteps
    /\ abandoned \in SUBSET Contents
    /\ generation \in 1..MaxGenerations
    /\ original \in Databases
    /\ (original # Main) <=> (ui = "preserved")
    /\ registered \in BOOLEAN /\ lock \in BOOLEAN
    /\ ui \in {"off", "elsewhere", "loading", "retrying", "recovery",
               "session", "removing"} \cup RebuildSteps
    /\ awaited \in Loaders \cup {Nobody}
    /\ (awaited # Nobody) <=> (ui \in {"loading", "retrying"})
    /\ awaited # Nobody => loader[awaited].pc # "idle"
    /\ loader \in [Loaders -> [pc : LoadSteps, todo : SUBSET Databases]]
    /\ ui = "off" => \A l \in Loaders : loader[l] = Idle
    /\ doomed \in SUBSET Databases

Init ==
    /\ \E locked \in BOOLEAN :
          file = [d \in Databases |-> IF d = Main THEN Fresh(1, locked) ELSE Absent]
    /\ encrypted = [d \in Databases |-> Absent]
    /\ plaintext = [d \in Databases |-> Absent]
    /\ workspace = Absent /\ abandoned = {} /\ generation = 1
    /\ original = Main
    /\ registered = TRUE
    /\ lock \in BOOLEAN
    /\ ui = "off" /\ awaited = Nobody
    /\ loader = [l \in Loaders |-> Idle]
    /\ doomed = {}
    /\ raced = FALSE

(***************************************************************************)
(* The foreground                                                          *)
(***************************************************************************)
Start ==
    /\ ui = "off"
    /\ ui' = "elsewhere"
    /\ lock' \in BOOLEAN
    /\ UNCHANGED <<disk, registered, awaited, loader, doomed>>

\* prepare_account: with a key the conversion comes first.
Select(l) ==
    /\ ui = "elsewhere" /\ registered
    /\ loader[l] = Idle
    /\ ui' = "loading" /\ awaited' = l
    /\ loader' = [loader EXCEPT ![l].pc = IF lock THEN "list" ELSE "open"]
    /\ UNCHANGED <<disk, registered, lock, doomed>>

\* Add or Switch, while loading or in the session.
Leave ==
    /\ ui \in {"loading", "session"}
    /\ ui' = "elsewhere" /\ awaited' = Nobody
    /\ UNCHANGED <<disk, registered, lock, loader, doomed>>

\* Quit, cancel, an error that ends the program, or a crash.
Halt ==
    /\ ui' = "off" /\ awaited' = Nobody
    /\ loader' = [l \in Loaders |-> Idle]
    /\ doomed' = {}

Stop ==
    /\ ui # "off"
    /\ Halt
    /\ workspace' = Absent
    /\ abandoned' = abandoned \cup ({workspace} \ {Absent})
    /\ original' = Main
    /\ UNCHANGED <<file, encrypted, plaintext, generation, registered, lock>>

\* remove_local_account: the registry first, then the files it lists.
Remove ==
    /\ ui \in {"loading", "session", "elsewhere"}
    /\ registered' = FALSE
    /\ ui' = "removing" /\ awaited' = Nobody
    /\ doomed' = {d \in Databases : file[d] # Absent}
    /\ UNCHANGED <<disk, lock, loader>>

RemoveFile(d) ==
    /\ ui = "removing" /\ d \in doomed
    /\ IF file[d] = Absent
       THEN Halt /\ UNCHANGED <<disk, registered, lock>>
       ELSE /\ file' = [file EXCEPT ![d] = Absent]
            /\ doomed' = doomed \ {d}
            /\ UNCHANGED <<temporary, registered, lock, ui, awaited, loader>>

Removed ==
    /\ ui = "removing" /\ doomed = {}
    /\ ui' = "elsewhere"
    /\ UNCHANGED <<disk, registered, lock, awaited, loader, doomed>>

(***************************************************************************)
(* A loading thread                                                        *)
(***************************************************************************)
Go(l, pc) == loader' = [loader EXCEPT ![l].pc = pc]

\* The result of a load.  Only an awaited one is seen; an error of it ends
\* the program.
Finish(l, outcome) ==
    /\ IF awaited # l
       THEN loader' = [loader EXCEPT ![l] = Idle] /\ UNCHANGED <<ui, awaited, doomed>>
       ELSE IF outcome = "error" THEN Halt
       ELSE /\ loader' = [loader EXCEPT ![l] = Idle]
            /\ ui' = outcome /\ awaited' = Nobody
            /\ UNCHANGED doomed
    /\ UNCHANGED <<registered, lock>>

Step(l, pc) == loader[l].pc = pc
Quiet == UNCHANGED <<registered, lock, ui, awaited, doomed>>

\* Mutant: the retained copies are not converted.
ListDatabase(l) ==
    /\ Step(l, "list")
    /\ loader' = [loader EXCEPT ![l] = [pc |-> "check", todo |-> {Main}]]
    /\ UNCHANGED disk /\ Quiet

\* Only files that exist are listed, the database before its copies.
List(l) ==
    /\ Step(l, "list")
    /\ loader' = [loader EXCEPT ![l] =
                    [pc |-> "check", todo |-> {d \in Databases : file[d] # Absent}]]
    /\ UNCHANGED disk /\ Quiet

Current(l) == Least(loader[l].todo)
Done(l) == loader' = [loader EXCEPT ![l] =
                        [pc |-> "check", todo |-> loader[l].todo \ {Current(l)}]]

AllConverted(l) ==
    /\ Step(l, "check") /\ loader[l].todo = {}
    /\ Go(l, "open")
    /\ UNCHANGED disk /\ Quiet

\* A conversion that was interrupted between its two renames.
Reinstall(l, d) ==
    /\ plaintext[d] # Absent /\ file[d] = Absent /\ encrypted[d] # Absent
    /\ file' = [file EXCEPT ![d] = encrypted[d]]
    /\ encrypted' = [encrypted EXCEPT ![d] = Absent]
    /\ UNCHANGED <<plaintext, workspace, abandoned, generation, original, loader>> /\ Quiet

\* A conversion that was interrupted before it removed the plaintext.
CleanUp(l, d) ==
    /\ plaintext[d] # Absent /\ file[d] # Absent /\ file[d].locked
    /\ encrypted[d] = Absent
    /\ plaintext' = [plaintext EXCEPT ![d] = Absent]
    /\ Done(l)
    /\ UNCHANGED <<file, encrypted, workspace, abandoned, generation, original>> /\ Quiet

\* Any other workspace has to be inspected by the user.
WorkspaceExists(l, d) ==
    /\ \/ /\ plaintext[d] # Absent
          /\ ~(file[d] = Absent /\ encrypted[d] # Absent)
          /\ ~(file[d] # Absent /\ file[d].locked /\ encrypted[d] = Absent)
       \/ plaintext[d] = Absent /\ encrypted[d] # Absent
    /\ Finish(l, "error")
    /\ UNCHANGED disk

ConvertOrSkip(l, d) ==
    /\ plaintext[d] = Absent /\ encrypted[d] = Absent
    /\ IF file[d] # Absent /\ ~file[d].locked THEN Go(l, "export") ELSE Done(l)
    /\ UNCHANGED disk /\ Quiet

Check(l) ==
    /\ Step(l, "check") /\ loader[l].todo # {}
    /\ LET d == Current(l) IN
          Reinstall(l, d) \/ CleanUp(l, d) \/ WorkspaceExists(l, d) \/ ConvertOrSkip(l, d)

\* sqlcipher_export.  Opening a database that is gone creates an empty one;
\* one that is locked, or a target that has tables, is an error.
ExportStarts(l) ==
    /\ Step(l, "export")
    /\ LET d == Current(l)
           source == IF file[d] = Absent THEN Fresh(0, FALSE) ELSE file[d]
       IN IF source.locked \/ encrypted[d] # Absent
          THEN Finish(l, "error") /\ UNCHANGED disk
          ELSE /\ file' = [file EXCEPT ![d] = source]
               /\ encrypted' = [encrypted EXCEPT ![d] =
                                  [source EXCEPT !.whole = FALSE, !.locked = TRUE]]
               /\ Go(l, "exporting")
               /\ UNCHANGED <<plaintext, workspace, abandoned, generation, original>> /\ Quiet

\* Mutant: a failed export is taken for a finished one.
ExportBreaks(l) ==
    /\ Step(l, "exporting")
    /\ Go(l, "exported")
    /\ UNCHANGED disk /\ Quiet

\* An export whose target another thread has renamed fails.
ExportEnds(l) ==
    /\ Step(l, "exporting")
    /\ IF encrypted[Current(l)] = Absent
       THEN Finish(l, "error") /\ UNCHANGED disk
       ELSE /\ encrypted' = [encrypted EXCEPT ![Current(l)].whole = TRUE]
            /\ Go(l, "exported")
            /\ UNCHANGED <<file, plaintext, workspace, abandoned, generation, original>> /\ Quiet

MoveAside(l) ==
    /\ Step(l, "exported")
    /\ LET d == Current(l) IN
          IF file[d] = Absent
          THEN Finish(l, "error") /\ UNCHANGED disk
          ELSE /\ plaintext' = [plaintext EXCEPT ![d] = file[d]]
               /\ file' = [file EXCEPT ![d] = Absent]
               /\ Go(l, "aside")
               /\ UNCHANGED <<encrypted, workspace, abandoned, generation, original>> /\ Quiet

\* When the second rename fails the first one is taken back.
Install(l) ==
    /\ Step(l, "aside")
    /\ LET d == Current(l) IN
          IF encrypted[d] = Absent
          THEN /\ IF plaintext[d] = Absent THEN UNCHANGED <<file, plaintext>>
                  ELSE /\ file' = [file EXCEPT ![d] = plaintext[d]]
                       /\ plaintext' = [plaintext EXCEPT ![d] = Absent]
               /\ Finish(l, "error")
               /\ UNCHANGED <<encrypted, workspace, abandoned, generation, original>>
          ELSE /\ file' = [file EXCEPT ![d] = encrypted[d]]
               /\ encrypted' = [encrypted EXCEPT ![d] = Absent]
               /\ Go(l, "installed")
               /\ UNCHANGED <<plaintext, workspace, abandoned, generation, original>> /\ Quiet

DropPlaintext(l) ==
    /\ Step(l, "installed")
    /\ LET d == Current(l) IN
          IF plaintext[d] = Absent
          THEN Finish(l, "error") /\ UNCHANGED disk
          ELSE /\ plaintext' = [plaintext EXCEPT ![d] = Absent]
               /\ Done(l)
               /\ UNCHANGED <<file, encrypted, workspace, abandoned, generation, original>> /\ Quiet

FreeBackups == {b \in Backups : file[b] = Absent}
NextBackup == Least(FreeBackups)

\* open_and_migrate on the database of the account.  SQLCipher copies no locked
\* database into the unlocked backup that create_backup opens.
Open(l) ==
    /\ Step(l, "open")
    /\ LET db == file[Main] IN
          CASE db = Absent -> Finish(l, "error") /\ UNCHANGED disk
            [] db # Absent /\ (db.locked # lock \/ ~db.whole) ->
                  Finish(l, "recovery") /\ UNCHANGED disk
            [] db # Absent /\ db.locked = lock /\ db.whole /\ db.outdated ->
                  IF FreeBackups = {} THEN Finish(l, "recovery") /\ UNCHANGED disk
                  ELSE /\ file' = [file EXCEPT ![NextBackup] = Reserved]
                       /\ UNCHANGED temporary
                       /\ IF db.locked THEN Finish(l, "recovery")
                          ELSE /\ loader' = [loader EXCEPT ![l] =
                                              [pc |-> "backup", todo |-> {NextBackup}]]
                               /\ Quiet
            [] OTHER -> Finish(l, IF db.sound THEN "session" ELSE "recovery")
                        /\ UNCHANGED disk

\* The backup is one transaction of the destination.
Backup(l) ==
    /\ Step(l, "backup")
    /\ IF file[Main] = Absent \/ file[Current(l)] = Absent
       THEN Finish(l, "recovery") /\ UNCHANGED disk
       ELSE /\ file' = [file EXCEPT ![Current(l)] = file[Main]]
            /\ Go(l, "migrate")
            /\ UNCHANGED temporary /\ Quiet

Migrate(l) ==
    /\ Step(l, "migrate")
    /\ IF file[Main] = Absent THEN UNCHANGED file
       ELSE file' = [file EXCEPT ![Main].outdated = FALSE]
    /\ loader' = [loader EXCEPT ![l] = [pc |-> "open", todo |-> {}]]
    /\ UNCHANGED temporary /\ Quiet

(***************************************************************************)
(* Recovery (app/recovery/mod.rs)                                          *)
(***************************************************************************)
Retry(l) ==
    /\ ui = "recovery" /\ loader[l] = Idle
    /\ ui' = "retrying" /\ awaited' = l
    /\ Go(l, "open")
    /\ UNCHANGED <<disk, registered, lock, doomed>>

\* rebuild_cache is offered when every unique record could be read.
Rebuild ==
    /\ ui = "recovery"
    /\ file[Main] # Absent /\ file[Main].locked = lock /\ file[Main].whole
    /\ generation < MaxGenerations
    /\ workspace' = [Fresh(generation + 1, lock) EXCEPT !.whole = FALSE]
    /\ ui' = "creating"
    /\ UNCHANGED <<file, encrypted, plaintext, abandoned, generation, original,
                   registered, lock, awaited, loader, doomed>>

CopyUniqueRecords ==
    /\ ui = "creating"
    /\ workspace' = [workspace EXCEPT !.whole = TRUE]
    /\ ui' = "created"
    /\ UNCHANGED <<file, encrypted, plaintext, abandoned, generation, original,
                   registered, lock, awaited, loader, doomed>>

\* Without a free name the error ends the program and drops the workspace.
Preserve ==
    /\ ui = "created"
    /\ IF FreeBackups = {} \/ file[Main] = Absent
       THEN Halt /\ workspace' = Absent /\ UNCHANGED <<file, original>>
       ELSE /\ file' = [file EXCEPT ![NextBackup] = file[Main], ![Main] = Absent]
            /\ original' = NextBackup
            /\ ui' = "preserved"
            /\ UNCHANGED <<workspace, awaited, loader, doomed>>
    /\ UNCHANGED <<encrypted, plaintext, abandoned, generation, registered, lock>>

\* The rename replaces nothing; when it fails the original is put back.
InstallRebuilt ==
    /\ ui = "preserved"
    /\ workspace' = Absent
    /\ IF file[Main] = Absent
       THEN /\ file' = [file EXCEPT ![Main] = workspace]
            /\ generation' = generation + 1
            /\ ui' = "session"
            /\ UNCHANGED <<awaited, loader, doomed>>
       ELSE /\ file' = [file EXCEPT ![Main] = file[original], ![original] = Absent]
            /\ Halt /\ UNCHANGED generation
    /\ original' = Main
    /\ UNCHANGED <<encrypted, plaintext, abandoned, registered, lock>>

(***************************************************************************)
(* The environment                                                         *)
(***************************************************************************)
Damage ==
    /\ ui = "off" /\ file[Main] # Absent
    /\ file' = [file EXCEPT ![Main].sound = FALSE]
    /\ UNCHANGED <<temporary, registered, lock, ui, awaited, loader, doomed>>

\* A program with a newer schema is installed.
Upgrade ==
    /\ ui = "off" /\ file[Main] # Absent
    /\ file' = [file EXCEPT ![Main].outdated = TRUE]
    /\ UNCHANGED <<temporary, registered, lock, ui, awaited, loader, doomed>>

Convert(l) ==
    \/ List(l) \/ AllConverted(l) \/ Check(l) \/ ExportStarts(l) \/ ExportEnds(l)
    \/ MoveAside(l) \/ Install(l) \/ DropPlaintext(l)
Load(l) == Convert(l) \/ Open(l) \/ Backup(l) \/ Migrate(l)

\* A rebuild takes no notice of a thread that still loads the account.
RebuildMeets == raced' = (raced \/ \E l \in Loaders : loader[l] # Idle)

Next ==
    \/ /\ \/ Start \/ Leave \/ Stop \/ Remove \/ Removed
          \/ \E l \in Loaders : Select(l) \/ Load(l) \/ Retry(l)
          \/ \E d \in Databases : RemoveFile(d)
          \/ CopyUniqueRecords \/ Preserve \/ InstallRebuilt
          \/ Damage \/ Upgrade
       /\ UNCHANGED raced
    \/ Rebuild /\ RebuildMeets

FilesSpec == Init /\ [][Next]_vars

(***************************************************************************)
(* Properties                                                              *)
(***************************************************************************)
Copies == {file[d] : d \in Databases} \cup {encrypted[d] : d \in Databases}
          \cup {plaintext[d] : d \in Databases}
Holds(content, g) == content # Absent /\ content.generation = g /\ content.whole

\* Neither a conversion nor a rebuild, wherever it is interrupted, loses the
\* unique records of any database the account ever had: as long as the account
\* is not removed, some file holds each generation in full (CONTEXT.md:81).
\* Only a rebuild that overtakes a load the user has left may lose one: the
\* stalled thread can replace the rebuilt database (security.rs:201).
GenerationsKept ==
    registered /\ ~raced => \A g \in 1..generation : \E c \in Copies : Holds(c, g)

\* A session under Local Lock that no thread still loads leaves neither the
\* database nor a retained copy in plaintext (README.md:162), however many
\* loads were left or stopped before it.
Settled == ~raced /\ \A l \in Loaders : loader[l] = Idle
LockedInSession ==
    ui = "session" /\ lock /\ Settled =>
        \A d \in Databases : file[d] # Absent => file[d].locked

\* ADR 0008: "It installs the converted database atomically."  A registered
\* account always has a database.
InstalledAtomically == registered => file[Main] # Absent

=============================================================================
