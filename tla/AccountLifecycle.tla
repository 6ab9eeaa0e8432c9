-------------------------- MODULE AccountLifecycle --------------------------
(***************************************************************************)
(* The accounts of one installation: the registry in global.db, the        *)
(* databases of the accounts, the database of a login in progress, and the *)
(* Local Lock key material of each (app/startup.rs, app/authorization.rs,  *)
(* app/local_lock.rs, app/cached_session.rs, app/maintenance/).  One       *)
(* program runs at a time; it may stop between any two steps.              *)
(*                                                                         *)
(* A key stands for what the vault entry (keyring) or the salt file        *)
(* (passphrase, typed correctly) leads to.  AccountFiles takes the load of *)
(* one account apart into its file operations.                             *)
(***************************************************************************)
EXTENDS Naturals

CONSTANTS Accounts,   \* Telegram users
          MaxKeys,    \* keys or salts ever generated
          Loaders,    \* threads that may be loading at once
          Absent,     \* no database
          NoAccount,  \* no account
          Nobody      \* no thread is awaited

Plain == 0                 \* no encryption
Keys == 1..MaxKeys
Legacy == MaxKeys + 1      \* the passphrase with the salt all accounts shared
NoKey == MaxKeys + 2       \* no vault entry, no salt file

\* Key material is stored under the name of an account, or as "pending".
Pending == NoAccount
Names == Accounts \cup {Pending}

\* A database: the key that opens it and the user its authorization belongs to,
\* NoAccount in an empty one.
Database == [key : {Plain, Legacy} \cup Keys, user : Names]

ASSUME LifecycleAssumption ==
    /\ MaxKeys \in Nat
    /\ NoAccount \notin Accounts
    /\ Absent \notin Database
    /\ Nobody \notin Loaders

VARIABLES
    registry,        \* registered accounts
    active,          \* the registered account that is marked active
    database,        \* "<id>.db" of each account
    encrypted,       \* "<id>.local-lock-encrypted.tmp" of each
    aside,           \* "<id>.local-lock-plaintext.tmp" of each
    pendingDatabase, \* ".pending.db"
    vault,           \* keyring entries or salt files
    generated,       \* number of keys generated so far
    method,          \* "keyring" or "passphrase"
    lock,            \* Local Lock is enabled in the configuration
    pc,              \* the next step of the program, "off" when none runs
    command,         \* "none" in the interface, else a maintenance command
    requested,       \* account the interface is to open next
    current,         \* account that is open, NoAccount during a login
    cipher,          \* the key in use
    unpromoted,      \* the key in use is still stored as "pending"
    connected,       \* the session is connected to Telegram
    confirming,      \* the dialog that confirms Logout is open
    target,          \* account that is being removed
    revoked,         \* Telegram acknowledged the logout that removes it
    awaited,         \* the thread that loads the account to be opened
    loader,          \* every loading thread: account, key and step
    unfinished,      \* accounts whose login or removal was begun, not ended
    outlived         \* history variable: accounts whose files were removed or
                     \* installed by a login while a thread was loading them

files == <<database, encrypted, aside, pendingDatabase>>
stored == <<registry, active, files, vault, generated>>
settings == <<method, lock>>
threads == <<awaited, loader>>
choice == <<command, requested, current, cipher, unpromoted>>
process == <<choice, connected, confirming, target, revoked>>
history == <<unfinished, outlived>>
vars == <<stored, settings, pc, process, threads, history>>

Steps == {"off", "select", "unlock", "begin", "authorize", "finish", "register",
          "bootstrap", "promote", "forget", "load", "session", "logout",
          "remove key", "remove record", "remove files"}

Removing == {"remove key", "remove record", "remove files"}
LoadSteps == {"list", "check", "export", "move", "install", "drop", "open"}
Idle == [account |-> NoAccount, key |-> Plain, step |-> "idle"]

StoredTypeOK ==
    /\ registry \subseteq Accounts
    /\ active \in registry \/ (active = NoAccount /\ registry = {})
    /\ {database, encrypted, aside} \subseteq [Accounts -> Database \cup {Absent}]
    /\ \A a \in Accounts : \A f \in {database[a], encrypted[a], aside[a]} \ {Absent} :
          f.user \in {a, NoAccount}
    /\ pendingDatabase \in Database \cup {Absent}
    /\ vault \in [Names -> Keys \cup {NoKey}]
    /\ generated \in 0..MaxKeys
    /\ unfinished \subseteq Accounts /\ outlived \subseteq Accounts

ProcessTypeOK ==
    /\ method \in {"keyring", "passphrase"}
    /\ pc \in Steps /\ command \in {"none", "logout", "remove", "other"}
    /\ requested \in Names /\ current \in Names /\ target \in Names
    /\ cipher \in {Plain, Legacy} \cup Keys
    /\ (target # NoAccount) <=> (pc \in Removing)

ThreadsTypeOK ==
    /\ loader \in [Loaders -> [account : Names, key : {Plain, Legacy} \cup Keys,
                               step : LoadSteps \cup {"idle"}]]
    /\ \A l \in Loaders : loader[l].step = "idle" => loader[l] = Idle
    /\ pc = "off" => \A l \in Loaders : loader[l] = Idle
    /\ awaited \in Loaders \cup {Nobody}
    /\ awaited # Nobody => /\ pc = "load" /\ loader[awaited].step # "idle"
                           /\ loader[awaited].account = current
                           /\ loader[awaited].key = cipher

FlagsTypeOK ==
    /\ lock \in BOOLEAN /\ unpromoted \in BOOLEAN
    /\ connected \in BOOLEAN /\ confirming \in BOOLEAN /\ revoked \in BOOLEAN

LifecycleTypeOK ==
    /\ StoredTypeOK /\ ProcessTypeOK /\ ThreadsTypeOK /\ FlagsTypeOK
    /\ unpromoted => vault[Pending] = cipher

NoProcess ==
    /\ command = "none" /\ requested = NoAccount /\ current = NoAccount
    /\ cipher = Plain /\ unpromoted = FALSE /\ connected = FALSE
    /\ confirming = FALSE /\ target = NoAccount /\ revoked = FALSE
    /\ awaited = Nobody /\ loader = [l \in Loaders |-> Idle]

\* Accounts may exist in plaintext, or locked with the salt of old versions.
Init ==
    /\ registry \in SUBSET Accounts
    /\ active \in IF registry = {} THEN {NoAccount} ELSE registry
    /\ method \in {"keyring", "passphrase"}
    /\ lock \in BOOLEAN
    /\ \E key \in {Plain, Legacy} :
          /\ key = Legacy => lock /\ method = "passphrase"
          /\ database = [a \in Accounts |->
                IF a \in registry THEN [key |-> key, user |-> a] ELSE Absent]
    /\ encrypted = [a \in Accounts |-> Absent]
    /\ aside = [a \in Accounts |-> Absent]
    /\ pendingDatabase = Absent
    /\ vault = [n \in Names |-> NoKey]
    /\ generated = 0
    /\ pc = "off" /\ NoProcess
    /\ unfinished = {} /\ outlived = {}

(***************************************************************************)
(* The program starts and stops                                            *)
(***************************************************************************)
\* The user turns Local Lock on.
EnableLock ==
    /\ pc = "off" /\ ~lock
    /\ lock' = TRUE
    /\ UNCHANGED <<stored, method, pc, process, threads, history>>

\* The interface with the active account or "--account", or "account add".
Start(a) ==
    /\ pc = "off" /\ a \in registry \cup {NoAccount}
    /\ requested' = a
    /\ active' = IF a = NoAccount THEN active ELSE a
    /\ pc' = "select"
    /\ UNCHANGED <<registry, files, vault, generated, settings, command, current, cipher,
                   unpromoted, connected, confirming, target, revoked, threads, history>>

\* A command that needs Telegram: "account logout", folders, scheduled messages.
Maintain(a, c) ==
    /\ pc = "off" /\ a \in registry
    /\ command' = c /\ current' = a
    /\ pc' = "unlock"
    /\ UNCHANGED <<stored, settings, requested, cipher, unpromoted, connected, confirming,
                   target, revoked, threads, history>>

\* "account remove" asks for no registration.
RemoveCommand(a) ==
    /\ pc = "off"
    /\ command' = "remove" /\ target' = a
    /\ pc' = "remove key"
    /\ UNCHANGED <<stored, settings, requested, current, cipher, unpromoted, connected,
                   confirming, revoked, threads, history>>

\* The end of the process is the end of its threads.
Halt ==
    /\ pc' = "off"
    /\ command' = "none" /\ requested' = NoAccount /\ current' = NoAccount
    /\ cipher' = Plain /\ unpromoted' = FALSE /\ connected' = FALSE
    /\ confirming' = FALSE /\ target' = NoAccount /\ revoked' = FALSE
    /\ awaited' = Nobody /\ loader' = [l \in Loaders |-> Idle]

\* Quit, cancel, any error of the network or the disk, or a crash.
Stop ==
    /\ pc # "off"
    /\ Halt
    /\ UNCHANGED <<stored, settings, history>>

(***************************************************************************)
(* Selection and unlocking                                                 *)
(***************************************************************************)
\* An account that is not registered any more leads to a login.
Select ==
    /\ pc = "select"
    /\ current' = IF requested \in registry THEN requested ELSE NoAccount
    /\ active' = IF requested \in registry THEN requested ELSE active
    /\ pc' = "unlock"
    /\ UNCHANGED <<registry, files, vault, generated, settings, command, requested, cipher,
                   unpromoted, connected, confirming, target, revoked, threads, history>>

Opening == IF current = NoAccount THEN "begin" ELSE "load"

\* The name of the key is new: a login, or an account that is not locked yet.
\* Commands never initialise.
Initializing ==
    /\ command = "none"
    /\ current # NoAccount =>
          (database[current] # Absent => database[current].key = Plain)

Unlocked(key, pending) ==
    /\ cipher' = key /\ unpromoted' = pending
    /\ pc' = Opening
    /\ UNCHANGED <<registry, active, files, settings, command, requested, current,
                   connected, confirming, target, revoked, threads, history>>

UnlockOpen ==
    /\ pc = "unlock" /\ ~lock
    /\ Unlocked(Plain, FALSE)
    /\ UNCHANGED <<vault, generated>>

\* Material under the name that is asked for, "pending" in a login, is used
\* and counts as promoted.
UnlockStored ==
    /\ pc = "unlock" /\ lock
    /\ vault[current] # NoKey
    /\ Unlocked(vault[current], FALSE)
    /\ UNCHANGED <<vault, generated>>

UnlockPending ==
    /\ pc = "unlock" /\ lock
    /\ vault[current] = NoKey /\ current # NoAccount /\ ~Initializing
    /\ vault[Pending] # NoKey
    /\ Unlocked(vault[Pending], TRUE)
    /\ UNCHANGED <<vault, generated>>

\* Without pending material the keyring fails; a passphrase takes the old salt.
UnlockLegacy ==
    /\ pc = "unlock" /\ lock
    /\ vault[current] = NoKey /\ current # NoAccount /\ ~Initializing
    /\ vault[Pending] = NoKey
    /\ IF method = "keyring"
       THEN Halt /\ UNCHANGED <<registry, active, files, settings, history>>
       ELSE Unlocked(Legacy, FALSE)
    /\ UNCHANGED <<vault, generated>>

UnlockGenerated ==
    /\ pc = "unlock" /\ lock
    /\ vault[current] = NoKey /\ Initializing
    /\ generated < MaxKeys
    /\ generated' = generated + 1
    /\ vault' = [vault EXCEPT ![current] = generated + 1]
    /\ Unlocked(generated + 1, current = NoAccount)

(***************************************************************************)
(* Login                                                                   *)
(***************************************************************************)
\* A pending database of an earlier login is continued; its key must fit.
BeginLogin ==
    /\ pc = "begin"
    /\ IF pendingDatabase # Absent /\ pendingDatabase.key # cipher
       THEN Halt /\ UNCHANGED pendingDatabase
       ELSE /\ pendingDatabase' =
                  IF pendingDatabase # Absent THEN pendingDatabase
                  ELSE [key |-> cipher, user |-> NoAccount]
            /\ pc' = "authorize"
            /\ UNCHANGED <<process, threads>>
    /\ UNCHANGED <<registry, active, database, encrypted, aside, vault, generated,
                   settings, history>>

\* Telegram ties the saved authorization key to the user that signs in; a
\* key that is tied already names its user again.
Authorize(a) ==
    /\ pc = "authorize"
    /\ pendingDatabase.user \in {NoAccount, a}
    /\ pendingDatabase' = [pendingDatabase EXCEPT !.user = a]
    /\ pc' = "finish"
    /\ UNCHANGED <<registry, active, database, encrypted, aside, vault, generated,
                   settings, process, threads, history>>

\* Threads that are loading account a, awaited or not.
LoadingNow(a) == {l \in Loaders : loader[l].account = a}
Overtaken(a) == IF LoadingNow(a) = {} THEN {} ELSE {a}

LoginInstalled(a) ==
    /\ database' = [database EXCEPT ![a] = pendingDatabase]
    /\ pendingDatabase' = Absent
    /\ requested' = a
    /\ unfinished' = unfinished \cup {a}
    /\ outlived' = outlived \cup Overtaken(a)
    /\ pc' = "register"
    /\ UNCHANGED <<command, current, cipher, unpromoted, connected, confirming,
                   target, revoked, threads>>

\* Mutant: the rename replaces a database that is there.
FinishLoginReplacing ==
    /\ pc = "finish"
    /\ LoginInstalled(pendingDatabase.user)
    /\ UNCHANGED <<registry, active, encrypted, aside, vault, generated, settings>>

\* The rename to the name of the account replaces nothing.
FinishLogin ==
    /\ pc = "finish"
    /\ IF database[pendingDatabase.user] # Absent
       THEN Halt /\ UNCHANGED <<database, pendingDatabase, history>>
       ELSE LoginInstalled(pendingDatabase.user)
    /\ UNCHANGED <<registry, active, encrypted, aside, vault, generated, settings>>

Register ==
    /\ pc = "register"
    /\ registry' = registry \cup {requested}
    /\ active' = requested
    /\ unfinished' = unfinished \ {requested}
    /\ pc' = "bootstrap"
    /\ UNCHANGED <<files, vault, generated, settings, process, threads, outlived>>

\* The first synchronisation; when it fails the program ends (Stop).
Bootstrap ==
    /\ pc = "bootstrap"
    /\ pc' = IF unpromoted THEN "promote" ELSE "select"
    /\ UNCHANGED <<stored, settings, process, threads, history>>

(***************************************************************************)
(* Promotion of pending key material                                       *)
(***************************************************************************)
Promoted == IF current = NoAccount THEN requested ELSE current
Continue ==
    /\ pc' = IF current = NoAccount THEN "select" ELSE "session"
    /\ unpromoted' = FALSE
    /\ UNCHANGED <<command, requested, current, cipher, connected, confirming,
                   target, revoked, threads>>

\* Mutant: the pending entry is deleted before the new one is written.
PromoteKeyringReversed ==
    /\ pc = "promote" /\ method = "keyring"
    /\ vault' = [vault EXCEPT ![Pending] = NoKey]
    /\ unpromoted' = FALSE
    /\ pc' = "forget"
    /\ UNCHANGED <<registry, active, files, generated, settings, command, requested,
                   current, cipher, connected, confirming, target, revoked, threads,
                   history>>

PromoteKeyring ==
    /\ pc = "promote" /\ method = "keyring"
    /\ vault' = [vault EXCEPT ![Promoted] = vault[Pending]]
    /\ pc' = "forget"
    /\ UNCHANGED <<registry, active, files, generated, settings, process, threads, history>>

ForgetPending ==
    /\ pc = "forget"
    /\ vault' = [vault EXCEPT ![Pending] = NoKey]
    /\ Continue
    /\ UNCHANGED <<registry, active, files, generated, settings, history>>

\* A salt that is there already must be the same.
PromoteSalt ==
    /\ pc = "promote" /\ method = "passphrase"
    /\ IF vault[Promoted] \notin {NoKey, vault[Pending]}
       THEN Halt /\ UNCHANGED vault
       ELSE /\ vault' = [vault EXCEPT ![Promoted] = vault[Pending], ![Pending] = NoKey]
            /\ Continue
    /\ UNCHANGED <<registry, active, files, generated, settings, history>>

(***************************************************************************)
(* Loading: a thread converts and opens the database                       *)
(***************************************************************************)
\* With a key the conversion (enable_local_lock) comes first.
Spawn(l) ==
    /\ pc = "load" /\ awaited = Nobody
    /\ loader[l] = Idle
    /\ awaited' = l
    /\ loader' = [loader EXCEPT ![l] = [account |-> current, key |-> cipher,
                                        step |-> IF cipher = Plain THEN "open" ELSE "list"]]
    /\ UNCHANGED <<stored, settings, pc, process, history>>

At(l, step) == loader[l].step = step
Go(l, step) ==
    /\ loader' = [loader EXCEPT ![l].step = step]
    /\ UNCHANGED <<pc, process, awaited>>

\* An error ends the program, if anybody waits for the thread.
Fails(l) ==
    IF awaited = l THEN Halt
    ELSE loader' = [loader EXCEPT ![l] = Idle] /\ UNCHANGED <<pc, process, awaited>>

\* A database that is not there has nothing to convert.
List(l) ==
    /\ At(l, "list")
    /\ Go(l, IF database[loader[l].account] = Absent THEN "open" ELSE "check")
    /\ UNCHANGED files

\* A conversion that was interrupted between its renames is resumed, one that
\* left only the plaintext is cleaned up, any other workspace is an error.
Check(l) ==
    /\ At(l, "check")
    /\ LET a == loader[l].account IN
          \/ /\ aside[a] # Absent /\ database[a] = Absent /\ encrypted[a] # Absent
             /\ database' = [database EXCEPT ![a] = encrypted[a]]
             /\ encrypted' = [encrypted EXCEPT ![a] = Absent]
             /\ UNCHANGED <<aside, pendingDatabase, loader, pc, process, awaited>>
          \/ /\ aside[a] # Absent /\ database[a] # Absent /\ encrypted[a] = Absent
             /\ database[a].key # Plain
             /\ aside' = [aside EXCEPT ![a] = Absent]
             /\ Go(l, "open")
             /\ UNCHANGED <<database, encrypted, pendingDatabase>>
          \/ /\ \/ aside[a] # Absent /\ database[a] # Absent
                   /\ (encrypted[a] # Absent \/ database[a].key = Plain)
                \/ encrypted[a] = Absent /\ aside[a] # Absent /\ database[a] = Absent
                \/ encrypted[a] # Absent /\ aside[a] = Absent
             /\ Fails(l)
             /\ UNCHANGED files
          \/ /\ aside[a] = Absent /\ encrypted[a] = Absent
             /\ Go(l, IF database[a] # Absent /\ database[a].key = Plain THEN "export"
                      ELSE "open")
             /\ UNCHANGED files

\* Opening a database that is gone creates an empty one; one that is locked
\* by now, or a copy that is there already, is an error.
Export(l) ==
    /\ At(l, "export")
    /\ LET a == loader[l].account
           source == IF database[a] = Absent THEN [key |-> Plain, user |-> NoAccount]
                     ELSE database[a]
       IN IF source.key # Plain \/ encrypted[a] # Absent
          THEN Fails(l) /\ UNCHANGED files
          ELSE /\ database' = [database EXCEPT ![a] = source]
               /\ encrypted' = [encrypted EXCEPT ![a] = [source EXCEPT !.key = loader[l].key]]
               /\ Go(l, "move")
               /\ UNCHANGED <<aside, pendingDatabase>>

MoveAside(l) ==
    /\ At(l, "move")
    /\ LET a == loader[l].account IN
          IF database[a] = Absent
          THEN Fails(l) /\ UNCHANGED files
          ELSE /\ aside' = [aside EXCEPT ![a] = database[a]]
               /\ database' = [database EXCEPT ![a] = Absent]
               /\ Go(l, "install")
               /\ UNCHANGED <<encrypted, pendingDatabase>>

\* The rename replaces what is there; when it fails the first one is taken back.
Install(l) ==
    /\ At(l, "install")
    /\ LET a == loader[l].account IN
          IF encrypted[a] = Absent
          THEN /\ IF aside[a] = Absent THEN UNCHANGED <<database, aside>>
                  ELSE /\ database' = [database EXCEPT ![a] = aside[a]]
                       /\ aside' = [aside EXCEPT ![a] = Absent]
               /\ Fails(l)
               /\ UNCHANGED <<encrypted, pendingDatabase>>
          ELSE /\ database' = [database EXCEPT ![a] = encrypted[a]]
               /\ encrypted' = [encrypted EXCEPT ![a] = Absent]
               /\ Go(l, "drop")
               /\ UNCHANGED <<aside, pendingDatabase>>

DropPlaintext(l) ==
    /\ At(l, "drop")
    /\ LET a == loader[l].account IN
          IF aside[a] = Absent
          THEN Fails(l) /\ UNCHANGED files
          ELSE /\ aside' = [aside EXCEPT ![a] = Absent]
               /\ Go(l, "open")
               /\ UNCHANGED <<database, encrypted, pendingDatabase>>

Convert(l) ==
    /\ List(l) \/ Check(l) \/ Export(l) \/ MoveAside(l) \/ Install(l) \/ DropPlaintext(l)
    /\ UNCHANGED <<registry, active, vault, generated, settings, history>>

Readable(l) ==
    LET a == loader[l].account IN
       database[a] # Absent /\ database[a].key = loader[l].key /\ database[a].user = a

Loaded(l) == loader' = [loader EXCEPT ![l] = Idle] /\ awaited' = Nobody

\* Nobody looks at the result of a load that was left.
Unseen(l) ==
    /\ At(l, "open") /\ awaited # l
    /\ loader' = [loader EXCEPT ![l] = Idle]
    /\ UNCHANGED <<stored, settings, pc, process, awaited, history>>

Load(l) ==
    /\ At(l, "open") /\ awaited = l /\ command = "none" /\ Readable(l)
    /\ pc' = IF unpromoted THEN "promote" ELSE "session"
    /\ Loaded(l)
    /\ UNCHANGED <<stored, settings, process, history>>

\* Recovery offers nothing for a wrong key but to leave.  A command other than
\* "account logout" changes nothing here and ends.
LoadEnds(l) ==
    /\ At(l, "open") /\ awaited = l
    /\ ~Readable(l) \/ command = "other"
    /\ Halt
    /\ UNCHANGED <<stored, settings, history>>

\* The command connects and asks Telegram; when that fails it ends (Stop).
LogoutCommand(l) ==
    /\ At(l, "open") /\ awaited = l /\ command = "logout" /\ Readable(l)
    /\ target' = current /\ revoked' = TRUE
    /\ pc' = "remove key"
    /\ Loaded(l)
    /\ UNCHANGED <<stored, settings, choice, connected, confirming, history>>

(***************************************************************************)
(* The session                                                             *)
(***************************************************************************)
\* The first frame after a connection closes every dialog.
Connect ==
    /\ pc = "session" /\ ~connected
    /\ connected' = TRUE /\ confirming' = FALSE
    /\ UNCHANGED <<stored, settings, pc, choice, target, revoked, threads, history>>

Disconnect ==
    /\ pc = "session" /\ connected
    /\ connected' = FALSE
    /\ UNCHANGED <<stored, settings, pc, choice, confirming, target, revoked, threads,
                   history>>

\* Logout is offered only while connected.
AskLogout ==
    /\ pc = "session" /\ connected
    /\ confirming' = TRUE
    /\ UNCHANGED <<stored, settings, pc, choice, connected, target, revoked, threads,
                   history>>

CancelLogout ==
    /\ pc = "session" /\ confirming
    /\ confirming' = FALSE
    /\ UNCHANGED <<stored, settings, pc, choice, connected, target, revoked, threads,
                   history>>

\* Threads that are loading go on.
Removal(a, acknowledged) ==
    /\ target' = a /\ revoked' = acknowledged
    /\ pc' = "remove key"
    /\ confirming' = FALSE /\ awaited' = Nobody
    /\ UNCHANGED <<stored, settings, choice, connected, loader, history>>

\* Connected, the backend asks Telegram and an error preserves the account.
\* The dialog outlives the connection; without one nobody is asked.
ConfirmLogout ==
    /\ pc = "session" /\ confirming
    /\ \/ Removal(current, connected)
       \/ connected /\ confirming' = FALSE
          /\ UNCHANGED <<stored, settings, pc, choice, connected, target, revoked,
                         threads, history>>

\* Switch or Add, in the session or while the account loads.
Leave(a) ==
    /\ pc \in {"load", "session"} /\ command = "none" /\ ~confirming
    /\ a \in (registry \cup {NoAccount}) \ {current}
    /\ requested' = a /\ current' = NoAccount
    /\ cipher' = Plain /\ unpromoted' = FALSE /\ connected' = FALSE
    /\ awaited' = Nobody
    /\ pc' = "select"
    /\ UNCHANGED <<stored, settings, command, confirming, target, revoked, loader, history>>

RemoveLocally(a) ==
    /\ pc \in {"load", "session"} /\ command = "none" /\ ~confirming
    /\ a \in registry
    /\ Removal(a, FALSE)

(***************************************************************************)
(* Removal (remove_local_account)                                          *)
(***************************************************************************)
\* Salt files are not removed.
RemoveKey ==
    /\ pc = "remove key"
    /\ vault' = IF lock /\ method = "keyring" THEN [vault EXCEPT ![target] = NoKey]
                ELSE vault
    /\ unfinished' = unfinished \cup {target}
    /\ pc' = "remove record"
    /\ UNCHANGED <<registry, active, files, generated, settings, process, threads, outlived>>

\* The account used last becomes the active one when none is.
RemoveRecord ==
    /\ pc = "remove record"
    /\ registry' = registry \ {target}
    /\ active' \in IF active # target THEN {active}
                   ELSE IF registry' = {} THEN {NoAccount} ELSE registry'
    /\ pc' = "remove files"
    /\ UNCHANGED <<files, vault, generated, settings, process, threads, history>>

\* Mutant: only the record is removed.
KeepFiles ==
    /\ pc = "remove files"
    /\ unfinished' = unfinished \ {target}
    /\ Halt
    /\ UNCHANGED <<stored, settings, outlived>>

\* The temporary files of a conversion are not among those that are removed.
RemoveFiles ==
    /\ pc = "remove files"
    /\ database' = [database EXCEPT ![target] = Absent]
    /\ unfinished' = unfinished \ {target}
    /\ outlived' = outlived \cup Overtaken(target)
    /\ IF command # "none" THEN Halt
       ELSE /\ requested' \in IF registry = {} THEN {NoAccount} ELSE registry
            /\ current' = NoAccount /\ cipher' = Plain /\ unpromoted' = FALSE
            /\ connected' = FALSE /\ target' = NoAccount /\ revoked' = FALSE
            /\ pc' = "select"
            /\ UNCHANGED <<command, confirming, threads>>
    /\ UNCHANGED <<registry, active, encrypted, aside, pendingDatabase, vault, generated,
                   settings>>

Unlock == UnlockOpen \/ UnlockStored \/ UnlockPending \/ UnlockLegacy \/ UnlockGenerated

Next ==
    \/ EnableLock \/ Stop \/ Select \/ Unlock
    \/ \E a \in Names : Start(a) \/ Leave(a)
    \/ \E a \in Accounts : RemoveCommand(a) \/ Authorize(a) \/ RemoveLocally(a)
    \/ \E a \in Accounts, c \in {"logout", "other"} : Maintain(a, c)
    \/ BeginLogin \/ FinishLogin \/ Register \/ Bootstrap
    \/ PromoteKeyring \/ ForgetPending \/ PromoteSalt
    \/ \E l \in Loaders : \/ Spawn(l) \/ Convert(l) \/ Unseen(l)
                          \/ Load(l) \/ LoadEnds(l) \/ LogoutCommand(l)
    \/ Connect \/ Disconnect \/ AskLogout \/ CancelLogout \/ ConfirmLogout
    \/ RemoveKey \/ RemoveRecord \/ RemoveFiles

LifecycleSpec == Init /\ [][Next]_vars

(***************************************************************************)
(* Properties                                                              *)
(***************************************************************************)
\* The registry and the files agree about every account: a registered account
\* has a database, if only the one a conversion moved aside, and no database
\* stays behind that the interface does not list.  Left out are accounts whose
\* login or removal was cut short (authorization.rs:193-203 is not atomic) and
\* those that were removed or added under a thread that was loading them.
RegistryMatchesFiles ==
    \A a \in Accounts \ (unfinished \cup outlived) :
       IF a \in registry THEN database[a] # Absent \/ aside[a] # Absent
       ELSE database[a] = Absent

\* No login and no conversion, of whichever thread, puts another database in
\* the place of one that is there (ADR 0002); only a conversion that fails puts
\* back the one it moved aside.
LoginNeverOverwrites ==
    [][\A a \in Accounts \ outlived' :
          database[a] # Absent /\ database'[a] \notin {Absent, database[a]} =>
             database'[a] = aside[a]]_vars

\* The database of account a, or the copy that takes its place.
Holder(a) == IF database[a] # Absent THEN database[a] ELSE encrypted[a]

\* The key that opens it is still stored, under the name of the account or as
\* the pending one.
Kept(a) ==
    Holder(a) # Absent => Holder(a).key \in {Plain, Legacy, vault[a], vault[Pending]}

\* No step loses the key of a registered account that is not being removed,
\* wherever promotions and conversions are interrupted and whichever threads
\* still convert (ADR 0008), unless a second account was added with the key
\* that an interrupted login left pending.
KeysKept ==
    [][\A a \in registry' \ (unfinished' \cup outlived') :
          Kept(a) =>
             Kept(a)' \/ \E b \in Accounts \ {a} : vault'[b] = Holder(a).key]_vars

\* What unlocking the account in the interface arrives at.
UnlockKey(a) ==
    IF vault[a] # NoKey THEN vault[a]
    ELSE IF vault[Pending] # NoKey THEN vault[Pending] ELSE Legacy

\* ADR 0008: "If promotion stops unexpectedly, Intuigram recovers from the
\* pending material."  A locked account that is registered opens.
UnlockOpens ==
    \A a \in registry \ (unfinished \cup outlived) :
       database[a] # Absent /\ database[a].key # Plain =>
          UnlockKey(a) = database[a].key

\* CONTEXT.md: "Logout succeeds only after Telegram acknowledges the
\* revocation."  A confirmed Logout removes nothing that was not revoked.
LogoutRevoked ==
    [][ConfirmLogout /\ target' # NoAccount => revoked']_vars
=============================================================================
