---------------------- MODULE AccountLifecycleProofs ----------------------
(***************************************************************************)
(* Proofs about AccountLifecycle, for any accounts, any number of keys and *)
(* any number of loading threads: an inductive invariant, established part *)
(* by part with one case for each action that can disturb the part, and    *)
(* from it the type invariant, the agreement of registry and files, and    *)
(* the safety of databases and keys through interrupted logins, promotions *)
(* and removals and through conversions nobody waits for.                  *)
(***************************************************************************)
EXTENDS AccountLifecycle, TLAPS

\* Which account the program has open at each of its steps.
ProcessInv ==
    /\ command # "none" => pc \in {"unlock", "load"} \cup Removing
    /\ command # "none" /\ pc = "unlock" => current # NoAccount
    /\ pc \in {"load", "session"} => current # NoAccount
    /\ pc \in {"unlock", "load"} /\ current # NoAccount => current \in registry
    /\ pc \in {"begin", "authorize", "finish", "register", "bootstrap"} => current = NoAccount

\* A removal that has deleted the key is unfinished until the files are gone,
\* and its record goes before its files.
RemovalInv ==
    /\ pc \in {"remove record", "remove files"} => target \in unfinished
    /\ pc = "remove files" => target \notin registry

\* No thread of account a has its conversion between export and installation.
Undisturbed(a) == \A l \in Loaders : loader[l].account = a => ~(At(l, "move") \/ At(l, "install"))

\* The database of account a is locked and stays so.
Settled(a) == database[a] # Absent /\ database[a].key # Plain /\ Undisturbed(a)

\* The database a login or a load has in hand is locked with the key in use, and
\* that key is stored.
LoginInv ==
    /\ pc \in {"authorize", "finish"} =>
          pendingDatabase # Absent /\ pendingDatabase.key = cipher
    /\ pc = "finish" => pendingDatabase.user # NoAccount
    /\ pc \in {"register", "bootstrap", "promote", "forget"} =>
          /\ Promoted # NoAccount
          /\ Promoted \notin outlived =>
                /\ database[Promoted] # Absent /\ database[Promoted].key = cipher
                /\ Undisturbed(Promoted)
                /\ current = NoAccount => LoadingNow(Promoted) = {}
    /\ pc \in {"promote", "forget"} => unpromoted
    /\ pc = "forget" => vault[Promoted] = cipher

\* Where the key in use of a load comes from.
LoadInv ==
    /\ pc = "load" => cipher \in {Plain, Legacy, vault[current], vault[Pending]}
    /\ pc \in {"load", "promote"} /\ current # NoAccount /\ unpromoted =>
          vault[current] = NoKey
    /\ pc = "load" /\ command = "none" /\ cipher # Plain /\ current \notin outlived =>
          cipher = vault[current] \/ Settled(current)

Converting == {"export", "move", "install", "drop"}

\* The key of account a is not being removed, nor was it under a thread.
Stable(a) ==
    a \notin outlived /\ ~(pc \in {"remove record", "remove files"} /\ target = a)

\* The threads of an account, in the interface, have its own key.
KeyOf(l) ==
    LET a == loader[l].account IN
    /\ loader[l].step # "idle" => a # NoAccount
    /\ loader[l].step \in {"list", "check"} \cup Converting => loader[l].key # Plain
    /\ command # "none" /\ loader[l].step # "idle" => awaited = l
    /\ loader[l].step # "idle" /\ a \notin unfinished \cup outlived => a \in registry
    /\ command = "none" /\ Stable(a) =>
          /\ loader[l].step \in {"list", "check"} => loader[l].key = vault[a] \/ Settled(a)
          /\ loader[l].step \in Converting => loader[l].key = vault[a]

KeyInv == \A l \in Loaders : KeyOf(l)

\* How far the conversion of account a is.
Before(a) == database[a] # Absent /\ database[a].key = Plain /\ aside[a] = Absent
Between(a) ==
    /\ database[a] = Absent /\ aside[a] # Absent
    /\ encrypted[a] # Absent /\ encrypted[a].key # Plain
After(a) == database[a] # Absent /\ database[a].key # Plain /\ encrypted[a] = Absent

\* One thread at a time replaces the database of an account.
PhaseOf(l) ==
    LET a == loader[l].account IN
    a \notin outlived =>
       /\ At(l, "export") => Before(a) \/ Between(a) \/ After(a)
       /\ At(l, "move") => /\ Before(a) /\ encrypted[a] # Absent
                           /\ encrypted[a].key = loader[l].key
       /\ At(l, "install") =>
             (Between(a) /\ encrypted[a].key = loader[l].key) \/ After(a)
       /\ At(l, "drop") => After(a)
       /\ \A k \in Loaders :
             /\ loader[k].account = a
             /\ {loader[l].step, loader[k].step} \subseteq {"move", "install", "drop"}
             => k = l

PhaseInv == \A l \in Loaders : PhaseOf(l)

\* What a conversion moves aside is not encrypted.
AsideInv == \A a \in Accounts \ outlived : aside[a] # Absent => aside[a].key = Plain

LifecycleInv == /\ LifecycleTypeOK /\ ProcessInv /\ LoginInv /\ LoadInv /\ RemovalInv
                /\ KeyInv /\ PhaseInv /\ AsideInv /\ RegistryMatchesFiles

-----------------------------------------------------------------------------
USE LifecycleAssumption

\* The absence of a key and the absence of encryption are told from every key.
LEMMA KeyFacts ==
  /\ NoKey \notin {Plain, Legacy} \cup Keys
  /\ Plain \notin Keys /\ Plain # Legacy
  /\ \A n \in 0..MaxKeys : n < MaxKeys => n + 1 \in Keys /\ n + 1 \in 0..MaxKeys
BY DEF NoKey, Plain, Legacy, Keys

\* What is read of a file or of a thread.
LEMMA Contents ==
  ASSUME StoredTypeOK, ThreadsTypeOK
  PROVE  /\ \A a \in Accounts : /\ database[a] \in Database \cup {Absent}
                                /\ encrypted[a] \in Database \cup {Absent}
                                /\ aside[a] \in Database \cup {Absent}
         /\ \A l \in Loaders : /\ loader[l].account \in Names
                               /\ loader[l].key \in {Plain, Legacy} \cup Keys
         /\ \A d \in Database : d # Absent /\ d.key \in {Plain, Legacy} \cup Keys
         /\ \A n \in Names : vault[n] \in Keys \cup {NoKey}
         /\ DOMAIN database = Accounts /\ DOMAIN encrypted = Accounts
         /\ DOMAIN aside = Accounts /\ DOMAIN loader = Loaders /\ DOMAIN vault = Names
BY DEF StoredTypeOK, ThreadsTypeOK, Database

\* Every step keeps the types of the flags.
LEMMA FlagsStep ==
  ASSUME FlagsTypeOK, [Next]_vars
  PROVE  FlagsTypeOK'
<1>. USE DEF FlagsTypeOK, files, stored, settings, threads, choice, process, history
<1>1. CASE EnableLock
  BY <1>1 DEF EnableLock
<1>2. ASSUME NEW a \in Names, Start(a) PROVE FlagsTypeOK'
  BY <1>2 DEF Start
<1>3. ASSUME NEW a \in Accounts, NEW c \in {"logout", "other"}, Maintain(a, c) PROVE FlagsTypeOK'
  BY <1>3 DEF Maintain
<1>4. ASSUME NEW a \in Accounts, RemoveCommand(a) PROVE FlagsTypeOK'
  BY <1>4 DEF RemoveCommand
<1>5. CASE Stop
  BY <1>5 DEF Stop, Halt
<1>6. CASE Select
  BY <1>6 DEF Select
<1>7. CASE UnlockOpen
  BY <1>7 DEF UnlockOpen, Unlocked, Opening
<1>8. CASE UnlockStored
  BY <1>8 DEF UnlockStored, Unlocked, Opening
<1>9. CASE UnlockPending
  BY <1>9 DEF UnlockPending, Unlocked, Opening
<1>10. CASE UnlockLegacy
  BY <1>10 DEF UnlockLegacy, Halt, Unlocked, Opening
<1>11. CASE UnlockGenerated
  BY <1>11 DEF UnlockGenerated, Unlocked, Opening
<1>12. CASE BeginLogin
  BY <1>12 DEF BeginLogin, Halt
<1>13. ASSUME NEW a \in Accounts, Authorize(a) PROVE FlagsTypeOK'
  BY <1>13 DEF Authorize
<1>14. CASE FinishLogin
  BY <1>14 DEF FinishLogin, LoginInstalled, Halt
<1>15. CASE Register
  BY <1>15 DEF Register
<1>16. CASE Bootstrap
  BY <1>16 DEF Bootstrap
<1>17. CASE PromoteKeyring
  BY <1>17 DEF PromoteKeyring
<1>18. CASE ForgetPending
  BY <1>18 DEF ForgetPending, Continue
<1>19. CASE PromoteSalt
  BY <1>19 DEF PromoteSalt, Continue, Halt
<1>20. ASSUME NEW l \in Loaders, Spawn(l) PROVE FlagsTypeOK'
  BY <1>20 DEF Spawn
<1>21. ASSUME NEW l \in Loaders, Convert(l) PROVE FlagsTypeOK'
  BY <1>21 DEF Convert, List, Check, Export, MoveAside, Install, DropPlaintext, Go,
      Fails, Halt
<1>22. ASSUME NEW l \in Loaders, Unseen(l) PROVE FlagsTypeOK'
  BY <1>22 DEF Unseen
<1>23. ASSUME NEW l \in Loaders, Load(l) PROVE FlagsTypeOK'
  BY <1>23 DEF Load, Loaded
<1>24. ASSUME NEW l \in Loaders, LoadEnds(l) PROVE FlagsTypeOK'
  BY <1>24 DEF LoadEnds, Halt
<1>25. ASSUME NEW l \in Loaders, LogoutCommand(l) PROVE FlagsTypeOK'
  BY <1>25 DEF LogoutCommand, Loaded
<1>26. CASE Connect
  BY <1>26 DEF Connect
<1>27. CASE Disconnect
  BY <1>27 DEF Disconnect
<1>28. CASE AskLogout
  BY <1>28 DEF AskLogout
<1>29. CASE CancelLogout
  BY <1>29 DEF CancelLogout
<1>30. CASE ConfirmLogout
  BY <1>30 DEF ConfirmLogout, Removal
<1>31. ASSUME NEW a \in Names, Leave(a) PROVE FlagsTypeOK'
  BY <1>31 DEF Leave
<1>32. ASSUME NEW a \in Accounts, RemoveLocally(a) PROVE FlagsTypeOK'
  BY <1>32 DEF RemoveLocally, Removal
<1>33. CASE RemoveKey
  BY <1>33 DEF RemoveKey
<1>34. CASE RemoveRecord
  BY <1>34 DEF RemoveRecord
<1>35. CASE RemoveFiles
  BY <1>35 DEF RemoveFiles, Halt
<1>36. CASE UNCHANGED vars
  BY <1>36 DEF vars
<1>. HIDE DEF FlagsTypeOK
<1>. QED
  BY <1>1, <1>2, <1>3, <1>4, <1>5, <1>6, <1>7, <1>8, <1>9, <1>10, <1>11, <1>12, <1>13,
      <1>14, <1>15, <1>16, <1>17, <1>18, <1>19, <1>20, <1>21, <1>22, <1>23, <1>24,
      <1>25, <1>26, <1>27, <1>28, <1>29, <1>30, <1>31, <1>32, <1>33, <1>34, <1>35, <1>36
  DEF Next, Unlock

\* Every step keeps the types of the program's variables.
LEMMA ProcessStep ==
  ASSUME LifecycleInv, [Next]_vars
  PROVE  ProcessTypeOK'
<1>. USE DEF LifecycleInv, LifecycleTypeOK, ProcessTypeOK, Steps, Removing, files,
    stored, settings, threads, choice, process, history
<1>1. CASE EnableLock
  BY <1>1 DEF EnableLock
<1>2. ASSUME NEW a \in Names, Start(a) PROVE ProcessTypeOK'
  BY <1>2 DEF Start, Names, Pending, StoredTypeOK
<1>3. ASSUME NEW a \in Accounts, NEW c \in {"logout", "other"}, Maintain(a, c) PROVE ProcessTypeOK'
  BY <1>3 DEF Maintain, Names, StoredTypeOK
<1>4. ASSUME NEW a \in Accounts, RemoveCommand(a) PROVE ProcessTypeOK'
  BY <1>4 DEF RemoveCommand, Names
<1>5. CASE Stop
  BY <1>5 DEF Stop, Halt, Plain, Names, Pending
<1>6. CASE Select
  BY <1>6 DEF Select, Names, Pending, StoredTypeOK
<1>7. CASE UnlockOpen
  BY <1>7 DEF UnlockOpen, Unlocked, Opening, Keys, Plain, Legacy, NoKey
<1>8. CASE UnlockStored
  BY <1>8 DEF UnlockStored, Unlocked, Opening, StoredTypeOK, Keys, Plain, Legacy, NoKey,
      Names, Pending
<1>9. CASE UnlockPending
  BY <1>9 DEF UnlockPending, Unlocked, Opening, StoredTypeOK, Names, Pending, Keys,
      Plain, Legacy, NoKey
<1>10. CASE UnlockLegacy
  BY <1>10 DEF UnlockLegacy, Halt, Unlocked, Opening, Plain, Names, Pending
<1>11. CASE UnlockGenerated
  BY <1>11 DEF UnlockGenerated, Unlocked, Opening, StoredTypeOK, Keys, Plain, Legacy,
      NoKey
<1>12. CASE BeginLogin
  BY <1>12 DEF BeginLogin, Halt, Plain, Names, Pending
<1>13. ASSUME NEW a \in Accounts, Authorize(a) PROVE ProcessTypeOK'
  BY <1>13 DEF Authorize
<1>14. CASE FinishLogin
  BY <1>14 DEF FinishLogin, LoginInstalled, Halt, Plain, Database, StoredTypeOK,
      LoginInv, Names, Pending
<1>15. CASE Register
  BY <1>15 DEF Register
<1>16. CASE Bootstrap
  BY <1>16 DEF Bootstrap
<1>17. CASE PromoteKeyring
  BY <1>17 DEF PromoteKeyring
<1>18. CASE ForgetPending
  BY <1>18 DEF ForgetPending, Continue
<1>19. CASE PromoteSalt
  BY <1>19 DEF PromoteSalt, Continue, Halt, Plain, Names, Pending
<1>20. ASSUME NEW l \in Loaders, Spawn(l) PROVE ProcessTypeOK'
  BY <1>20 DEF Spawn
<1>21. ASSUME NEW l \in Loaders, Convert(l) PROVE ProcessTypeOK'
  <2>1. /\ \/ List(l) \/ Check(l) \/ Export(l)
           \/ MoveAside(l) \/ Install(l) \/ DropPlaintext(l)
        /\ UNCHANGED <<registry, active, vault, generated, settings, history>>
    BY <1>21 DEF Convert
  <2>2. CASE List(l)
    BY <2>1, <2>2 DEF List, At, Go, Fails, Halt, Plain, Names, Pending
  <2>3. CASE Check(l)
    BY <2>1, <2>3 DEF Check, At, Go, Fails, Halt, Plain, Names, Pending
  <2>4. CASE Export(l)
    BY <2>1, <2>4 DEF Export, At, Go, Fails, Halt, Plain, Names, Pending
  <2>5. CASE MoveAside(l)
    BY <2>1, <2>5 DEF MoveAside, At, Go, Fails, Halt, Plain, Names, Pending
  <2>6. CASE Install(l)
    BY <2>1, <2>6 DEF Install, At, Go, Fails, Halt, Plain, Names, Pending
  <2>7. CASE DropPlaintext(l)
    BY <2>1, <2>7 DEF DropPlaintext, At, Go, Fails, Halt, Plain, Names, Pending
  <2>. QED
    BY <2>1, <2>2, <2>3, <2>4, <2>5, <2>6, <2>7
<1>22. ASSUME NEW l \in Loaders, Unseen(l) PROVE ProcessTypeOK'
  BY <1>22 DEF Unseen
<1>23. ASSUME NEW l \in Loaders, Load(l) PROVE ProcessTypeOK'
  BY <1>23 DEF Load, Loaded, ThreadsTypeOK
<1>24. ASSUME NEW l \in Loaders, LoadEnds(l) PROVE ProcessTypeOK'
  BY <1>24 DEF LoadEnds, Halt, Plain, Names, Pending
<1>25. ASSUME NEW l \in Loaders, LogoutCommand(l) PROVE ProcessTypeOK'
  BY <1>25 DEF LogoutCommand, Loaded, ProcessInv, ThreadsTypeOK
<1>26. CASE Connect
  BY <1>26 DEF Connect
<1>27. CASE Disconnect
  BY <1>27 DEF Disconnect
<1>28. CASE AskLogout
  BY <1>28 DEF AskLogout
<1>29. CASE CancelLogout
  BY <1>29 DEF CancelLogout
<1>30. CASE ConfirmLogout
  BY <1>30 DEF ConfirmLogout, Removal, ProcessInv
<1>31. ASSUME NEW a \in Names, Leave(a) PROVE ProcessTypeOK'
  BY <1>31 DEF Leave, Plain, Names, Pending
<1>32. ASSUME NEW a \in Accounts, RemoveLocally(a) PROVE ProcessTypeOK'
  BY <1>32 DEF RemoveLocally, Removal, Names, StoredTypeOK
<1>33. CASE RemoveKey
  BY <1>33 DEF RemoveKey
<1>34. CASE RemoveRecord
  BY <1>34 DEF RemoveRecord
<1>35. CASE RemoveFiles
  BY <1>35 DEF RemoveFiles, Halt, Plain, StoredTypeOK, Names, Pending
<1>36. CASE UNCHANGED vars
  BY <1>36 DEF vars
<1>. HIDE DEF LifecycleInv, LifecycleTypeOK, ProcessTypeOK, Steps, Removing
<1>. QED
  BY <1>1, <1>2, <1>3, <1>4, <1>5, <1>6, <1>7, <1>8, <1>9, <1>10, <1>11, <1>12, <1>13,
      <1>14, <1>15, <1>16, <1>17, <1>18, <1>19, <1>20, <1>21, <1>22, <1>23, <1>24,
      <1>25, <1>26, <1>27, <1>28, <1>29, <1>30, <1>31, <1>32, <1>33, <1>34, <1>35, <1>36
  DEF Next, Unlock

\* Every step keeps the types of what is stored.
LEMMA StoredStep ==
  ASSUME LifecycleInv, [Next]_vars
  PROVE  StoredTypeOK'
<1>. USE DEF LifecycleInv, LifecycleTypeOK, ProcessTypeOK, ThreadsTypeOK, StoredTypeOK,
    files, stored, settings, threads, choice, process, history
<1>1. CASE UNCHANGED <<stored, history>>
  BY <1>1
<1>2. ASSUME NEW a \in Names, Start(a) PROVE StoredTypeOK'
  BY <1>2 DEF Start, Names, Pending
<1>3. CASE Select
  BY <1>3 DEF Select, Names, Pending
<1>4. CASE UnlockGenerated
  BY <1>4 DEF UnlockGenerated, Unlocked, Opening, Names, Pending, Keys, Plain, Legacy,
      NoKey
<1>5. CASE BeginLogin
  BY <1>5 DEF BeginLogin, Halt, Database, Names, Pending
<1>6. ASSUME NEW a \in Accounts, Authorize(a) PROVE StoredTypeOK'
  BY <1>6 DEF Authorize, Database, Names, LoginInv
<1>7. CASE FinishLogin
  BY <1>7 DEF FinishLogin, LoginInstalled, Halt, Database, LoginInv, Overtaken, Names,
      Pending
<1>8. CASE Register
  BY <1>8 DEF Register, LoginInv, Promoted, ProcessInv, Names, Pending
<1>9. CASE PromoteKeyring
  BY <1>9 DEF PromoteKeyring, NoKey, Promoted, LoginInv, Names, Pending
<1>10. CASE ForgetPending
  BY <1>10 DEF ForgetPending, Continue, NoKey, Promoted, Names, Pending
<1>11. CASE PromoteSalt
  BY <1>11 DEF PromoteSalt, Continue, Halt, NoKey, Promoted, LoginInv, Names, Pending
<1>12. ASSUME NEW l \in Loaders, Convert(l) PROVE StoredTypeOK'
  <2>1. /\ \/ List(l) \/ Check(l) \/ Export(l)
           \/ MoveAside(l) \/ Install(l) \/ DropPlaintext(l)
        /\ UNCHANGED <<registry, active, vault, generated, settings, history>>
    BY <1>12 DEF Convert
  <2>2. CASE List(l)
    BY <2>1, <2>2 DEF List, At, Go, Fails, Halt, Database, Names, Pending
  <2>3. CASE Check(l)
    BY <2>1, <2>3 DEF Check, At, Go, Fails, Halt, Database, Names, Pending
  <2>4. CASE Export(l)
    BY <2>1, <2>4 DEF Export, At, Go, Fails, Halt, Database, Names, Pending
  <2>5. CASE MoveAside(l)
    BY <2>1, <2>5 DEF MoveAside, At, Go, Fails, Halt, Database, Names, Pending
  <2>6. CASE Install(l)
    BY <2>1, <2>6 DEF Install, At, Go, Fails, Halt, Database, Names, Pending
  <2>7. CASE DropPlaintext(l)
    BY <2>1, <2>7 DEF DropPlaintext, At, Go, Fails, Halt, Database, Names, Pending
  <2>. QED
    BY <2>1, <2>2, <2>3, <2>4, <2>5, <2>6, <2>7
<1>13. CASE RemoveKey
  BY <1>13 DEF RemoveKey, NoKey, Removing, Names, Pending
<1>14. CASE RemoveRecord
  BY <1>14 DEF RemoveRecord, Names, Pending
<1>15. CASE RemoveFiles
  <2>1. /\ target \in Accounts
        /\ database' = [database EXCEPT ![target] = Absent]
        /\ unfinished' = unfinished \ {target}
        /\ outlived' = outlived \cup Overtaken(target)
        /\ UNCHANGED <<registry, active, encrypted, aside, pendingDatabase, vault, generated>>
    BY <1>15 DEF RemoveFiles, Names, Removing, Pending
  <2>2. Overtaken(target) \subseteq Accounts
    BY <2>1 DEF Overtaken
  <2>. QED
    BY <2>1, <2>2
<1>. HIDE DEF LifecycleInv, LifecycleTypeOK, ProcessTypeOK, ThreadsTypeOK, StoredTypeOK
<1>. QED
  BY <1>1, <1>2, <1>3, <1>4, <1>5, <1>6, <1>7, <1>8, <1>9, <1>10, <1>11, <1>12, <1>13,
      <1>14, <1>15
  DEF Next, Unlock, vars, EnableLock, Maintain, RemoveCommand, Stop, Halt, UnlockOpen,
      Unlocked, Opening, UnlockStored, UnlockPending, UnlockLegacy, Bootstrap, Spawn,
      Unseen, Load, Loaded, LoadEnds, LogoutCommand, Connect, Disconnect, AskLogout,
      CancelLogout, ConfirmLogout, Removal, Leave, RemoveLocally

\* Every step keeps the types of the threads.
LEMMA ThreadsStep ==
  ASSUME LifecycleInv, [Next]_vars
  PROVE  ThreadsTypeOK'
<1>. USE DEF LifecycleInv, LifecycleTypeOK, ProcessTypeOK, ThreadsTypeOK, files, stored,
    settings, threads, choice, process, history
<1>1. CASE EnableLock
  BY <1>1 DEF EnableLock
<1>2. ASSUME NEW a \in Names, Start(a) PROVE ThreadsTypeOK'
  BY <1>2 DEF Start
<1>3. ASSUME NEW a \in Accounts, NEW c \in {"logout", "other"}, Maintain(a, c) PROVE ThreadsTypeOK'
  BY <1>3 DEF Maintain
<1>4. ASSUME NEW a \in Accounts, RemoveCommand(a) PROVE ThreadsTypeOK'
  BY <1>4 DEF RemoveCommand
<1>5. CASE Stop
  BY <1>5 DEF Stop, Halt, Idle, Plain, Names, Pending
<1>6. CASE Select
  BY <1>6 DEF Select
<1>7. CASE UnlockOpen
  BY <1>7 DEF UnlockOpen, Unlocked, Opening
<1>8. CASE UnlockStored
  BY <1>8 DEF UnlockStored, Unlocked, Opening
<1>9. CASE UnlockPending
  BY <1>9 DEF UnlockPending, Unlocked, Opening
<1>10. CASE UnlockLegacy
  <2>1. CASE method = "keyring"
    BY <1>10, <2>1 DEF UnlockLegacy, Halt, Idle, Plain, Names, Pending
  <2>2. CASE method # "keyring"
    BY <1>10, <2>2 DEF UnlockLegacy, Unlocked, Opening
  <2>. QED
    BY <2>1, <2>2
<1>11. CASE UnlockGenerated
  BY <1>11 DEF UnlockGenerated, Unlocked, Opening
<1>12. CASE BeginLogin
  BY <1>12 DEF BeginLogin, Halt, Idle, Plain, Names, Pending
<1>13. ASSUME NEW a \in Accounts, Authorize(a) PROVE ThreadsTypeOK'
  BY <1>13 DEF Authorize
<1>14. CASE FinishLogin
  BY <1>14 DEF FinishLogin, LoginInstalled, Halt, Idle, Plain, Names, Pending
<1>15. CASE Register
  BY <1>15 DEF Register
<1>16. CASE Bootstrap
  BY <1>16 DEF Bootstrap
<1>17. CASE PromoteKeyring
  BY <1>17 DEF PromoteKeyring
<1>18. CASE ForgetPending
  BY <1>18 DEF ForgetPending, Continue
<1>19. CASE PromoteSalt
  BY <1>19 DEF PromoteSalt, Continue, Halt, Idle, Plain, Names, Pending
<1>20. ASSUME NEW l \in Loaders, Spawn(l) PROVE ThreadsTypeOK'
  BY <1>20 DEF Spawn, Idle, Plain, LoadSteps, ProcessInv, Names, Pending
<1>21. ASSUME NEW l \in Loaders, Convert(l) PROVE ThreadsTypeOK'
  <2>1. /\ \/ List(l) \/ Check(l) \/ Export(l)
           \/ MoveAside(l) \/ Install(l) \/ DropPlaintext(l)
        /\ UNCHANGED <<registry, active, vault, generated, settings, history>>
    BY <1>21 DEF Convert
  <2>2. CASE List(l)
    BY <2>1, <2>2 DEF List, At, Go, Fails, Halt, Idle, Plain, LoadSteps, Names, Pending
  <2>3. CASE Check(l)
    BY <2>1, <2>3 DEF Check, At, Go, Fails, Halt, Idle, Plain, LoadSteps, Names, Pending
  <2>4. CASE Export(l)
    BY <2>1, <2>4 DEF Export, At, Go, Fails, Halt, Idle, Plain, LoadSteps, Names,
        Pending
  <2>5. CASE MoveAside(l)
    BY <2>1, <2>5 DEF MoveAside, At, Go, Fails, Halt, Idle, Plain, LoadSteps, Names,
        Pending
  <2>6. CASE Install(l)
    BY <2>1, <2>6 DEF Install, At, Go, Fails, Halt, Idle, Plain, LoadSteps, Names,
        Pending
  <2>7. CASE DropPlaintext(l)
    BY <2>1, <2>7 DEF DropPlaintext, At, Go, Fails, Halt, Idle, Plain, LoadSteps, Names,
        Pending
  <2>. QED
    BY <2>1, <2>2, <2>3, <2>4, <2>5, <2>6, <2>7
<1>22. ASSUME NEW l \in Loaders, Unseen(l) PROVE ThreadsTypeOK'
  BY <1>22 DEF Unseen, Idle, Plain, Names, Pending
<1>23. ASSUME NEW l \in Loaders, Load(l) PROVE ThreadsTypeOK'
  BY <1>23 DEF Load, Loaded, Idle, Plain, Names, Pending
<1>24. ASSUME NEW l \in Loaders, LoadEnds(l) PROVE ThreadsTypeOK'
  BY <1>24 DEF LoadEnds, Halt, Idle, Plain, Names, Pending
<1>25. ASSUME NEW l \in Loaders, LogoutCommand(l) PROVE ThreadsTypeOK'
  BY <1>25 DEF LogoutCommand, Loaded, Idle, Plain, Names, Pending
<1>26. CASE Connect
  BY <1>26 DEF Connect
<1>27. CASE Disconnect
  BY <1>27 DEF Disconnect
<1>28. CASE AskLogout
  BY <1>28 DEF AskLogout
<1>29. CASE CancelLogout
  BY <1>29 DEF CancelLogout
<1>30. CASE ConfirmLogout
  BY <1>30 DEF ConfirmLogout, Removal
<1>31. ASSUME NEW a \in Names, Leave(a) PROVE ThreadsTypeOK'
  BY <1>31 DEF Leave
<1>32. ASSUME NEW a \in Accounts, RemoveLocally(a) PROVE ThreadsTypeOK'
  BY <1>32 DEF RemoveLocally, Removal
<1>33. CASE RemoveKey
  BY <1>33 DEF RemoveKey
<1>34. CASE RemoveRecord
  BY <1>34 DEF RemoveRecord
<1>35. CASE RemoveFiles
  <2>1. CASE command # "none"
    <3>1. Halt
      BY <1>35, <2>1 DEF RemoveFiles
    <3>. QED
      BY <3>1 DEF Halt, Idle, Plain, Names, Pending
  <2>2. CASE command = "none"
    BY <1>35, <2>2 DEF RemoveFiles
  <2>. QED
    BY <2>1, <2>2
<1>36. CASE UNCHANGED vars
  BY <1>36 DEF vars
<1>. HIDE DEF LifecycleInv, LifecycleTypeOK, ProcessTypeOK, ThreadsTypeOK
<1>. QED
  BY <1>1, <1>2, <1>3, <1>4, <1>5, <1>6, <1>7, <1>8, <1>9, <1>10, <1>11, <1>12, <1>13,
      <1>14, <1>15, <1>16, <1>17, <1>18, <1>19, <1>20, <1>21, <1>22, <1>23, <1>24,
      <1>25, <1>26, <1>27, <1>28, <1>29, <1>30, <1>31, <1>32, <1>33, <1>34, <1>35, <1>36
  DEF Next, Unlock

\* An unpromoted key is the pending one.
LEMMA PendingStep ==
  ASSUME LifecycleInv, [Next]_vars
  PROVE  (unpromoted => vault[Pending] = cipher)'
<1>. USE DEF LifecycleInv, LifecycleTypeOK, StoredTypeOK, ProcessTypeOK, FlagsTypeOK,
    files, stored, settings, threads, choice, process, history
<1>1. CASE EnableLock
  BY <1>1 DEF EnableLock
<1>2. ASSUME NEW a \in Names, Start(a) PROVE (unpromoted => vault[Pending] = cipher)'
  BY <1>2 DEF Start
<1>3. ASSUME NEW a \in Accounts, NEW c \in {"logout", "other"}, Maintain(a, c) PROVE (unpromoted => vault[Pending] = cipher)'
  BY <1>3 DEF Maintain
<1>4. ASSUME NEW a \in Accounts, RemoveCommand(a) PROVE (unpromoted => vault[Pending] = cipher)'
  BY <1>4 DEF RemoveCommand
<1>5. CASE Stop
  BY <1>5 DEF Stop, Halt
<1>6. CASE Select
  BY <1>6 DEF Select
<1>7. CASE UnlockOpen
  BY <1>7 DEF UnlockOpen, Unlocked, Opening
<1>8. CASE UnlockStored
  BY <1>8 DEF UnlockStored, Unlocked, Opening
<1>9. CASE UnlockPending
  BY <1>9 DEF UnlockPending, Unlocked, Opening
<1>10. CASE UnlockLegacy
  BY <1>10 DEF UnlockLegacy, Halt, Unlocked, Opening
<1>11. CASE UnlockGenerated
  BY <1>11 DEF UnlockGenerated, Unlocked, Opening, Names, Pending
<1>12. CASE BeginLogin
  BY <1>12 DEF BeginLogin, Halt
<1>13. ASSUME NEW a \in Accounts, Authorize(a) PROVE (unpromoted => vault[Pending] = cipher)'
  BY <1>13 DEF Authorize
<1>14. CASE FinishLogin
  BY <1>14 DEF FinishLogin, LoginInstalled, Halt
<1>15. CASE Register
  BY <1>15 DEF Register
<1>16. CASE Bootstrap
  BY <1>16 DEF Bootstrap
<1>17. CASE PromoteKeyring
  BY <1>17 DEF PromoteKeyring, Promoted, Names, Pending
<1>18. CASE ForgetPending
  BY <1>18 DEF ForgetPending, Continue, Promoted, Names, Pending
<1>19. CASE PromoteSalt
  BY <1>19 DEF PromoteSalt, Continue, Halt, Promoted, Names, Pending
<1>20. ASSUME NEW l \in Loaders, Spawn(l) PROVE (unpromoted => vault[Pending] = cipher)'
  BY <1>20 DEF Spawn
<1>21. ASSUME NEW l \in Loaders, Convert(l) PROVE (unpromoted => vault[Pending] = cipher)'
  BY <1>21 DEF Convert, List, Check, Export, MoveAside, Install, DropPlaintext, Go,
      Fails, Halt
<1>22. ASSUME NEW l \in Loaders, Unseen(l) PROVE (unpromoted => vault[Pending] = cipher)'
  BY <1>22 DEF Unseen
<1>23. ASSUME NEW l \in Loaders, Load(l) PROVE (unpromoted => vault[Pending] = cipher)'
  BY <1>23 DEF Load, Loaded
<1>24. ASSUME NEW l \in Loaders, LoadEnds(l) PROVE (unpromoted => vault[Pending] = cipher)'
  BY <1>24 DEF LoadEnds, Halt
<1>25. ASSUME NEW l \in Loaders, LogoutCommand(l) PROVE (unpromoted => vault[Pending] = cipher)'
  BY <1>25 DEF LogoutCommand, Loaded
<1>26. CASE Connect
  BY <1>26 DEF Connect
<1>27. CASE Disconnect
  BY <1>27 DEF Disconnect
<1>28. CASE AskLogout
  BY <1>28 DEF AskLogout
<1>29. CASE CancelLogout
  BY <1>29 DEF CancelLogout
<1>30. CASE ConfirmLogout
  BY <1>30 DEF ConfirmLogout, Removal
<1>31. ASSUME NEW a \in Names, Leave(a) PROVE (unpromoted => vault[Pending] = cipher)'
  BY <1>31 DEF Leave
<1>32. ASSUME NEW a \in Accounts, RemoveLocally(a) PROVE (unpromoted => vault[Pending] = cipher)'
  BY <1>32 DEF RemoveLocally, Removal
<1>33. CASE RemoveKey
  BY <1>33 DEF RemoveKey, Names, Pending, Removing
<1>34. CASE RemoveRecord
  BY <1>34 DEF RemoveRecord
<1>35. CASE RemoveFiles
  BY <1>35 DEF RemoveFiles, Halt
<1>36. CASE UNCHANGED vars
  BY <1>36 DEF vars
<1>. HIDE DEF LifecycleInv, LifecycleTypeOK, StoredTypeOK, ProcessTypeOK, FlagsTypeOK
<1>. QED
  BY <1>1, <1>2, <1>3, <1>4, <1>5, <1>6, <1>7, <1>8, <1>9, <1>10, <1>11, <1>12, <1>13,
      <1>14, <1>15, <1>16, <1>17, <1>18, <1>19, <1>20, <1>21, <1>22, <1>23, <1>24,
      <1>25, <1>26, <1>27, <1>28, <1>29, <1>30, <1>31, <1>32, <1>33, <1>34, <1>35, <1>36
  DEF Next, Unlock

\* Every step keeps the account and its step of the program together.
LEMMA AccountStep ==
  ASSUME LifecycleInv, [Next]_vars
  PROVE  ProcessInv'
<1>. USE DEF LifecycleInv, LifecycleTypeOK, StoredTypeOK, ProcessTypeOK, ProcessInv,
    Removing, Names, Pending, files, stored, settings, threads, choice, process, history
<1>1. CASE EnableLock
  BY <1>1 DEF EnableLock
<1>2. ASSUME NEW a \in Names, Start(a) PROVE ProcessInv'
  BY <1>2 DEF Start
<1>3. ASSUME NEW a \in Accounts, NEW c \in {"logout", "other"}, Maintain(a, c) PROVE ProcessInv'
  BY <1>3 DEF Maintain
<1>4. ASSUME NEW a \in Accounts, RemoveCommand(a) PROVE ProcessInv'
  BY <1>4 DEF RemoveCommand
<1>5. CASE Stop
  BY <1>5 DEF Stop, Halt
<1>6. CASE Select
  BY <1>6 DEF Select
<1>7. CASE UnlockOpen
  BY <1>7 DEF UnlockOpen, Unlocked, Opening
<1>8. CASE UnlockStored
  BY <1>8 DEF UnlockStored, Unlocked, Opening
<1>9. CASE UnlockPending
  BY <1>9 DEF UnlockPending, Unlocked, Opening
<1>10. CASE UnlockLegacy
  <2>1. CASE method = "keyring"
    BY <1>10, <2>1 DEF UnlockLegacy, Halt
  <2>2. CASE method # "keyring"
    BY <1>10, <2>2 DEF UnlockLegacy, Unlocked, Opening
  <2>. QED
    BY <2>1, <2>2
<1>11. CASE UnlockGenerated
  BY <1>11 DEF UnlockGenerated, Unlocked, Opening
<1>12. CASE BeginLogin
  BY <1>12 DEF BeginLogin, Halt
<1>13. ASSUME NEW a \in Accounts, Authorize(a) PROVE ProcessInv'
  BY <1>13 DEF Authorize
<1>14. CASE FinishLogin
  BY <1>14 DEF FinishLogin, LoginInstalled, Halt
<1>15. CASE Register
  BY <1>15 DEF Register
<1>16. CASE Bootstrap
  BY <1>16 DEF Bootstrap
<1>17. CASE PromoteKeyring
  BY <1>17 DEF PromoteKeyring
<1>18. CASE ForgetPending
  BY <1>18 DEF ForgetPending, Continue
<1>19. CASE PromoteSalt
  BY <1>19 DEF PromoteSalt, Continue, Halt
<1>20. ASSUME NEW l \in Loaders, Spawn(l) PROVE ProcessInv'
  BY <1>20 DEF Spawn
<1>21. ASSUME NEW l \in Loaders, Convert(l) PROVE ProcessInv'
  BY <1>21 DEF Convert, List, Check, Export, MoveAside, Install, DropPlaintext, Go,
      Fails, Halt
<1>22. ASSUME NEW l \in Loaders, Unseen(l) PROVE ProcessInv'
  BY <1>22 DEF Unseen
<1>23. ASSUME NEW l \in Loaders, Load(l) PROVE ProcessInv'
  BY <1>23 DEF Load, Loaded, ThreadsTypeOK
<1>24. ASSUME NEW l \in Loaders, LoadEnds(l) PROVE ProcessInv'
  BY <1>24 DEF LoadEnds, Halt
<1>25. ASSUME NEW l \in Loaders, LogoutCommand(l) PROVE ProcessInv'
  BY <1>25 DEF LogoutCommand, Loaded, ThreadsTypeOK
<1>26. CASE Connect
  BY <1>26 DEF Connect
<1>27. CASE Disconnect
  BY <1>27 DEF Disconnect
<1>28. CASE AskLogout
  BY <1>28 DEF AskLogout
<1>29. CASE CancelLogout
  BY <1>29 DEF CancelLogout
<1>30. CASE ConfirmLogout
  BY <1>30 DEF ConfirmLogout, Removal
<1>31. ASSUME NEW a \in Names, Leave(a) PROVE ProcessInv'
  BY <1>31 DEF Leave
<1>32. ASSUME NEW a \in Accounts, RemoveLocally(a) PROVE ProcessInv'
  BY <1>32 DEF RemoveLocally, Removal
<1>33. CASE RemoveKey
  BY <1>33 DEF RemoveKey
<1>34. CASE RemoveRecord
  BY <1>34 DEF RemoveRecord
<1>35. CASE RemoveFiles
  BY <1>35 DEF RemoveFiles, Halt
<1>36. CASE UNCHANGED vars
  BY <1>36 DEF vars
<1>. HIDE DEF LifecycleInv, LifecycleTypeOK, StoredTypeOK, ProcessTypeOK, ProcessInv,
    Removing, Names, Pending
<1>. QED
  BY <1>1, <1>2, <1>3, <1>4, <1>5, <1>6, <1>7, <1>8, <1>9, <1>10, <1>11, <1>12, <1>13,
      <1>14, <1>15, <1>16, <1>17, <1>18, <1>19, <1>20, <1>21, <1>22, <1>23, <1>24,
      <1>25, <1>26, <1>27, <1>28, <1>29, <1>30, <1>31, <1>32, <1>33, <1>34, <1>35, <1>36
  DEF Next, Unlock

\* Every step keeps the order of a removal.
LEMMA RemovalStep ==
  ASSUME LifecycleInv, [Next]_vars
  PROVE  RemovalInv'
<1>. USE DEF LifecycleInv, LifecycleTypeOK, ProcessTypeOK, RemovalInv, Removing, files,
    stored, settings, threads, choice, process, history
<1>1. CASE EnableLock
  BY <1>1 DEF EnableLock
<1>2. ASSUME NEW a \in Names, Start(a) PROVE RemovalInv'
  BY <1>2 DEF Start
<1>3. ASSUME NEW a \in Accounts, NEW c \in {"logout", "other"}, Maintain(a, c) PROVE RemovalInv'
  BY <1>3 DEF Maintain
<1>4. ASSUME NEW a \in Accounts, RemoveCommand(a) PROVE RemovalInv'
  BY <1>4 DEF RemoveCommand
<1>5. CASE Stop
  BY <1>5 DEF Stop, Halt
<1>6. CASE Select
  BY <1>6 DEF Select
<1>7. CASE UnlockOpen
  BY <1>7 DEF UnlockOpen, Unlocked, Opening
<1>8. CASE UnlockStored
  BY <1>8 DEF UnlockStored, Unlocked, Opening
<1>9. CASE UnlockPending
  BY <1>9 DEF UnlockPending, Unlocked, Opening
<1>10. CASE UnlockLegacy
  BY <1>10 DEF UnlockLegacy, Halt, Unlocked, Opening
<1>11. CASE UnlockGenerated
  BY <1>11 DEF UnlockGenerated, Unlocked, Opening
<1>12. CASE BeginLogin
  BY <1>12 DEF BeginLogin, Halt
<1>13. ASSUME NEW a \in Accounts, Authorize(a) PROVE RemovalInv'
  BY <1>13 DEF Authorize
<1>14. CASE FinishLogin
  BY <1>14 DEF FinishLogin, LoginInstalled, Halt
<1>15. CASE Register
  BY <1>15 DEF Register
<1>16. CASE Bootstrap
  BY <1>16 DEF Bootstrap
<1>17. CASE PromoteKeyring
  BY <1>17 DEF PromoteKeyring
<1>18. CASE ForgetPending
  BY <1>18 DEF ForgetPending, Continue
<1>19. CASE PromoteSalt
  BY <1>19 DEF PromoteSalt, Continue, Halt
<1>20. ASSUME NEW l \in Loaders, Spawn(l) PROVE RemovalInv'
  BY <1>20 DEF Spawn
<1>21. ASSUME NEW l \in Loaders, Convert(l) PROVE RemovalInv'
  BY <1>21 DEF Convert, List, Check, Export, MoveAside, Install, DropPlaintext, Go,
      Fails, Halt
<1>22. ASSUME NEW l \in Loaders, Unseen(l) PROVE RemovalInv'
  BY <1>22 DEF Unseen
<1>23. ASSUME NEW l \in Loaders, Load(l) PROVE RemovalInv'
  BY <1>23 DEF Load, Loaded, ThreadsTypeOK
<1>24. ASSUME NEW l \in Loaders, LoadEnds(l) PROVE RemovalInv'
  BY <1>24 DEF LoadEnds, Halt
<1>25. ASSUME NEW l \in Loaders, LogoutCommand(l) PROVE RemovalInv'
  BY <1>25 DEF LogoutCommand, Loaded, ThreadsTypeOK
<1>26. CASE Connect
  BY <1>26 DEF Connect
<1>27. CASE Disconnect
  BY <1>27 DEF Disconnect
<1>28. CASE AskLogout
  BY <1>28 DEF AskLogout
<1>29. CASE CancelLogout
  BY <1>29 DEF CancelLogout
<1>30. CASE ConfirmLogout
  BY <1>30 DEF ConfirmLogout, Removal
<1>31. ASSUME NEW a \in Names, Leave(a) PROVE RemovalInv'
  BY <1>31 DEF Leave
<1>32. ASSUME NEW a \in Accounts, RemoveLocally(a) PROVE RemovalInv'
  BY <1>32 DEF RemoveLocally, Removal
<1>33. CASE RemoveKey
  BY <1>33 DEF RemoveKey
<1>34. CASE RemoveRecord
  BY <1>34 DEF RemoveRecord
<1>35. CASE RemoveFiles
  BY <1>35 DEF RemoveFiles, Halt
<1>36. CASE UNCHANGED vars
  BY <1>36 DEF vars
<1>. HIDE DEF LifecycleInv, LifecycleTypeOK, ProcessTypeOK, RemovalInv, Removing
<1>. QED
  BY <1>1, <1>2, <1>3, <1>4, <1>5, <1>6, <1>7, <1>8, <1>9, <1>10, <1>11, <1>12, <1>13,
      <1>14, <1>15, <1>16, <1>17, <1>18, <1>19, <1>20, <1>21, <1>22, <1>23, <1>24,
      <1>25, <1>26, <1>27, <1>28, <1>29, <1>30, <1>31, <1>32, <1>33, <1>34, <1>35, <1>36
  DEF Next, Unlock

-----------------------------------------------------------------------------
\* A thread that goes to another step, and one that ends.
LEMMA StepMoves ==
  ASSUME ThreadsTypeOK, NEW l \in Loaders, NEW s, loader' = [loader EXCEPT ![l].step = s]
  PROVE  \A k \in Loaders : /\ loader'[k].account = loader[k].account
                            /\ loader'[k].key = loader[k].key
                            /\ loader'[k].step = IF k = l THEN s ELSE loader[k].step
                            /\ k # l => loader'[k] = loader[k]
BY DEF ThreadsTypeOK

LEMMA StepEnds ==
  ASSUME ThreadsTypeOK, NEW l \in Loaders, loader' = [loader EXCEPT ![l] = Idle]
  PROVE  \A k \in Loaders : IF k = l THEN loader'[k] = Idle ELSE loader'[k] = loader[k]
BY DEF ThreadsTypeOK

\* Without threads nothing is required of them.
LEMMA AllIdle ==
  ASSUME loader' = [l \in Loaders |-> Idle]
  PROVE  PhaseInv' /\ KeyInv'
BY DEF PhaseInv, PhaseOf, KeyInv, KeyOf, Idle, At, Converting

\* A conversion changes the files of its own account, and how far its thread is.
LEMMA ConvertEffect ==
  ASSUME LifecycleInv, NEW l \in Loaders, Convert(l)
  PROVE  /\ UNCHANGED <<registry, active, vault, generated, settings, history,
                        pendingDatabase>>
         /\ loader[l].account \in Accounts
         /\ \A b \in Accounts \ {loader[l].account} :
               /\ database'[b] = database[b]
               /\ encrypted'[b] = encrypted[b] /\ aside'[b] = aside[b]
         /\ Halt \/ UNCHANGED <<pc, process, awaited>>
         /\ \/ loader' = [k \in Loaders |-> Idle]
            \/ loader' = [loader EXCEPT ![l] = Idle]
            \/ UNCHANGED loader
            \/ \E s \in LoadSteps : loader' = [loader EXCEPT ![l].step = s]
<1>. USE DEF LifecycleInv, LifecycleTypeOK, files, history
<1>0. loader[l].step \in LoadSteps => loader[l].account \in Accounts
  BY DEF KeyInv, KeyOf, LoadSteps, ThreadsTypeOK, Names, Pending
<1>1. Halt => loader' = [k \in Loaders |-> Idle]
  BY DEF Halt
<1>2. CASE List(l)
  BY <1>0, <1>1, <1>2 DEF Convert, List, At, Go, LoadSteps
<1>3. CASE Check(l)
  BY <1>0, <1>1, <1>3, Contents DEF Convert, Check, At, Go, Fails, LoadSteps
<1>4. CASE Export(l)
  BY <1>0, <1>1, <1>4, Contents DEF Convert, Export, At, Go, Fails, LoadSteps
<1>5. CASE MoveAside(l)
  BY <1>0, <1>1, <1>5, Contents DEF Convert, MoveAside, At, Go, Fails, LoadSteps
<1>6. CASE Install(l)
  BY <1>0, <1>1, <1>6, Contents DEF Convert, Install, At, Go, Fails, LoadSteps
<1>7. CASE DropPlaintext(l)
  BY <1>0, <1>1, <1>7, Contents DEF Convert, DropPlaintext, At, Go, Fails, LoadSteps
<1>. QED
  BY <1>2, <1>3, <1>4, <1>5, <1>6, <1>7 DEF Convert

\* A thread of another account is not disturbed by a conversion.
LEMMA PhaseElsewhere ==
  ASSUME LifecycleInv, NEW l \in Loaders, Convert(l), NEW k \in Loaders,
         loader'[k].step # "idle", loader'[k].account # loader[l].account
  PROVE  PhaseOf(k)'
<1>. USE DEF LifecycleInv, LifecycleTypeOK
<1>1. CASE loader' = [j \in Loaders |-> Idle]
  BY <1>1 DEF Idle
<1>2. CASE loader' # [j \in Loaders |-> Idle]
  <2>1. \A j \in Loaders :
           \/ j = l /\ (loader'[j] = Idle \/ loader'[j].account = loader[l].account)
           \/ j # l /\ loader'[j] = loader[j]
    BY <1>2, ConvertEffect, StepMoves, StepEnds
  <2>2. loader'[k] = loader[k] /\ loader[k].account \in Accounts \ {loader[l].account}
    BY <2>1, Contents DEF KeyInv, KeyOf, Names, Pending, Idle
  <2>3. PhaseOf(k)
    BY DEF PhaseInv
  <2>4. outlived' = outlived
    BY ConvertEffect DEF history
  <2>5. PICK b \in Accounts : b = loader[k].account /\ b # NoAccount /\ b # loader[l].account
    BY <2>2, LifecycleAssumption
  <2>6. UNCHANGED <<database[b], encrypted[b], aside[b]>>
    BY <2>2, <2>5, ConvertEffect
  <2>7. \A j \in Loaders : loader'[j].account = b => loader'[j] = loader[j]
    BY <2>1, <2>5 DEF Idle
  <2>. QED
    BY <2>2, <2>3, <2>4, <2>5, <2>6, <2>7
    DEF PhaseOf, At, Before, Between, After
<1>. QED
  BY <1>1, <1>2

\* A step of a conversion keeps what is required of the threads of its account.
LEMMA PhaseHere ==
  ASSUME LifecycleInv, NEW l \in Loaders, Convert(l), NEW k \in Loaders,
         NEW a \in Accounts, loader[l].account = a,
         loader'[k].step # "idle", loader'[k].account = a
  PROVE  PhaseOf(k)'
<1>. USE DEF LifecycleInv, LifecycleTypeOK
<1>1. CASE loader' = [j \in Loaders |-> Idle]
  BY <1>1 DEF Idle
<1>2. SUFFICES ASSUME loader' # [j \in Loaders |-> Idle] PROVE PhaseOf(k)'
  BY <1>1
<1>3. outlived' = outlived
  BY ConvertEffect DEF history
<1>4. SUFFICES ASSUME a \notin outlived
               PROVE  PhaseOf(k)'
  BY <1>3 DEF PhaseOf
<1>5. \A j \in Loaders : PhaseOf(j) /\ KeyOf(j)
  BY DEF PhaseInv, KeyInv
<1>6. ~Halt
  BY <1>2 DEF Halt
<1>7. \A s : loader' = [loader EXCEPT ![l].step = s] =>
         \A j \in Loaders : /\ loader'[j].account = loader[j].account
                            /\ loader'[j].key = loader[j].key
                            /\ loader'[j].step = IF j = l THEN s ELSE loader[j].step
  <2>. SUFFICES ASSUME NEW s, loader' = [loader EXCEPT ![l].step = s]
                PROVE  \A j \in Loaders : /\ loader'[j].account = loader[j].account
                                          /\ loader'[j].key = loader[j].key
                                          /\ loader'[j].step = IF j = l THEN s ELSE loader[j].step
    OBVIOUS
  <2>1. ThreadsTypeOK
    OBVIOUS
  <2>. HIDE DEF LifecycleInv, LifecycleTypeOK
  <2>. QED
    BY <2>1 DEF ThreadsTypeOK
<1>8. loader' = [loader EXCEPT ![l] = Idle] =>
         \A j \in Loaders : IF j = l THEN loader'[j] = Idle ELSE loader'[j] = loader[j]
  BY StepEnds
<1>9. k = l => loader' # [loader EXCEPT ![l] = Idle]
  BY <1>8 DEF Idle
<1>10. \A j \in Loaders : At(j, "move") \/ At(j, "install") => loader[j].key # Plain
  BY <1>5 DEF KeyOf, At, Converting
<1>11. CASE /\ UNCHANGED <<database, encrypted, aside>>
            /\ \/ loader' = [loader EXCEPT ![l] = Idle]
               \/ UNCHANGED loader
               \/ \E s \in {"check", "open"} : loader' = [loader EXCEPT ![l].step = s]
  <2>. HIDE DEF LifecycleInv, LifecycleTypeOK
  <2>1. \A j \in Loaders : loader'[j].account = a => loader[j].account = a
    BY <1>7, <1>8, <1>11 DEF Idle
  <2>2. \A j \in Loaders : /\ loader'[j].account = a
                           /\ loader'[j].step \in {"export", "move", "install", "drop"}
           => loader'[j].step = loader[j].step /\ loader'[j].key = loader[j].key
    BY <1>7, <1>8, <1>11 DEF Idle
  <2>3. PhaseOf(k) /\ loader[k].account = a
    BY <1>5, <2>1
  <2>4. Before(a)' = Before(a) /\ Between(a)' = Between(a) /\ After(a)' = After(a)
    BY <1>11 DEF Before, Between, After
  <2>. QED
    BY <1>3, <1>4, <1>11, <2>1, <2>2, <2>3, <2>4 DEF PhaseOf, At
<1>12. CASE List(l)
  BY <1>6, <1>11, <1>12 DEF List, Go, files
<1>13. CASE Check(l)
  <2>1. CASE /\ aside[a] # Absent /\ database[a] = Absent /\ encrypted[a] # Absent
             /\ database' = [database EXCEPT ![a] = encrypted[a]]
             /\ encrypted' = [encrypted EXCEPT ![a] = Absent]
             /\ UNCHANGED <<aside, loader>>
    <3>1. \A j \in Loaders : loader[j].account = a => ~At(j, "move") /\ ~At(j, "drop")
      BY <1>4, <1>5, <2>1 DEF PhaseOf, Before, After
    <3>2. database'[a] = encrypted[a] /\ encrypted'[a] = Absent
      BY <1>3, <2>1, Contents
    <3>. QED
      BY <1>3, <1>4, <1>5, <2>1, <3>1, <3>2 DEF PhaseOf, At, Before, Between, After
  <2>2. CASE /\ aside[a] # Absent /\ database[a] # Absent /\ encrypted[a] = Absent
             /\ database[a].key # Plain
             /\ aside' = [aside EXCEPT ![a] = Absent]
             /\ loader' = [loader EXCEPT ![l].step = "open"]
             /\ UNCHANGED <<database, encrypted>>
    BY <1>3, <1>4, <1>5, <1>7, <2>2 DEF PhaseOf, At, Before, Between, After
  <2>3. CASE /\ aside[a] = Absent /\ encrypted[a] = Absent
             /\ database[a] # Absent /\ database[a].key = Plain
             /\ loader' = [loader EXCEPT ![l].step = "export"]
             /\ UNCHANGED <<database, encrypted, aside>>
    BY <1>3, <1>4, <1>5, <1>7, <2>3 DEF PhaseOf, At, Before, Between, After
  <2>. QED
    BY <1>6, <1>11, <1>13, <2>1, <2>2, <2>3 DEF Check, Go, Fails, files
<1>14. CASE Export(l)
  <2>1. Before(a) \/ Between(a) \/ After(a)
    BY <1>4, <1>5, <1>14 DEF PhaseOf, Export
  <2>2. CASE ~(Before(a) /\ encrypted[a] = Absent)
    BY <1>6, <1>11, <1>14, <2>1, <2>2 DEF Export, Fails, files, Before, Between, After
  <2>3. CASE Before(a) /\ encrypted[a] = Absent
    <3>1. /\ loader' = [loader EXCEPT ![l].step = "move"]
          /\ database'[a] = database[a] /\ aside'[a] = aside[a]
          /\ encrypted'[a] = [database[a] EXCEPT !.key = loader[l].key]
      BY <1>3, <1>14, <2>3, Contents DEF Export, Go, Before
    <3>2. encrypted'[a] # Absent /\ encrypted'[a].key = loader[l].key
      BY <1>3, <2>3, <3>1, Contents DEF Before, Database
    <3>3. \A j \in Loaders : loader[j].account = a =>
             ~(At(j, "move") \/ At(j, "install") \/ At(j, "drop"))
      BY <1>4, <1>5, <2>3 DEF PhaseOf, Before, Between, After
    <3>4. Before(a)'
      BY <2>3, <3>1 DEF Before
    <3>. QED
      BY <1>3, <1>5, <1>7, <3>1, <3>2, <3>3, <3>4 DEF PhaseOf, At
  <2>. QED
    BY <2>2, <2>3
<1>15. CASE MoveAside(l)
  <2>1. Before(a) /\ encrypted[a] # Absent /\ encrypted[a].key = loader[l].key
    BY <1>4, <1>5, <1>15 DEF PhaseOf, MoveAside
  <2>2. /\ loader' = [loader EXCEPT ![l].step = "install"]
        /\ database'[a] = Absent /\ aside'[a] = database[a] /\ encrypted'[a] = encrypted[a]
    BY <1>3, <1>15, <2>1, Contents DEF MoveAside, Go, Before
  <2>3. Between(a)' /\ encrypted'[a].key = loader[l].key
    BY <1>10, <1>15, <2>1, <2>2 DEF Between, Before, MoveAside
  <2>4. \A j \in Loaders : loader[j].account = a /\ j # l =>
           ~(At(j, "move") \/ At(j, "install") \/ At(j, "drop"))
    BY <1>4, <1>5, <1>15 DEF PhaseOf, MoveAside, At
  <2>5. \A j \in Loaders : /\ loader'[j].account = loader[j].account
                            /\ loader'[j].key = loader[j].key
                            /\ loader'[j].step = IF j = l THEN "install" ELSE loader[j].step
    BY <1>7, <2>2
  <2>6. CASE k = l
    BY <2>3, <2>4, <2>5, <2>6 DEF PhaseOf, At
  <2>7. CASE k # l
    BY <2>3, <2>4, <2>5, <2>7 DEF PhaseOf, At
  <2>. QED
    BY <2>6, <2>7
<1>16. CASE Install(l)
  <2>1. \A j \in Loaders : loader[j].account = a /\ j # l =>
           ~(At(j, "move") \/ At(j, "install") \/ At(j, "drop"))
    BY <1>4, <1>5, <1>16 DEF PhaseOf, Install, At
  <2>2. CASE encrypted[a] = Absent
    <3>1. After(a)
      BY <1>4, <1>5, <1>16, <2>2 DEF PhaseOf, Install, Between
    <3>2. /\ loader' = [loader EXCEPT ![l] = Idle]
          /\ encrypted'[a] = Absent
          /\ \/ database'[a] = database[a] /\ aside'[a] = aside[a]
             \/ database'[a] = aside[a] /\ aside'[a] = Absent /\ aside[a] # Absent
      BY <1>3, <1>6, <1>16, <2>2, Contents DEF Install, Fails
    <3>. QED
      BY <1>3, <1>5, <1>8, <1>9, <2>1, <3>1, <3>2 DEF PhaseOf, At, Before, Between, After, Idle
  <2>3. CASE encrypted[a] # Absent
    <3>1. Between(a)
      BY <1>4, <1>5, <1>16, <2>3 DEF PhaseOf, Install, After
    <3>2. /\ loader' = [loader EXCEPT ![l].step = "drop"]
          /\ database'[a] = encrypted[a] /\ encrypted'[a] = Absent
      BY <1>3, <1>16, <2>3, Contents DEF Install, Go
    <3>. QED
      BY <1>3, <1>5, <1>7, <2>1, <3>1, <3>2 DEF PhaseOf, At, Before, Between, After
  <2>. QED
    BY <2>2, <2>3
<1>17. CASE DropPlaintext(l)
  <2>1. After(a)
    BY <1>4, <1>5, <1>17 DEF PhaseOf, DropPlaintext
  <2>2. CASE aside[a] = Absent
    BY <1>6, <1>11, <1>17, <2>2 DEF DropPlaintext, Fails, files
  <2>3. CASE aside[a] # Absent
    <3>1. /\ loader' = [loader EXCEPT ![l].step = "open"]
          /\ UNCHANGED <<database, encrypted>>
      BY <1>17, <2>3 DEF DropPlaintext, Go
    <3>. QED
      BY <1>3, <1>4, <1>5, <1>7, <2>1, <3>1 DEF PhaseOf, At, Before, Between, After
  <2>. QED
    BY <2>2, <2>3
<1>. QED
  BY <1>12, <1>13, <1>14, <1>15, <1>16, <1>17 DEF Convert

\* Every step keeps what is required of the conversions.
LEMMA PhaseStep ==
  ASSUME LifecycleInv, [Next]_vars
  PROVE  PhaseInv'
<1>. USE DEF LifecycleInv, LifecycleTypeOK, PhaseInv, files, stored, settings, threads,
    choice, process, history
<1>1. CASE UNCHANGED <<database, encrypted, aside, loader, outlived>>
  BY <1>1 DEF PhaseOf, At, Before, Between, After
<1>2. CASE Stop
  <2>1. \/ loader' = [k \in Loaders |-> Idle]
        \/ UNCHANGED <<database, encrypted, aside, loader, outlived>>
    BY <1>2 DEF Stop, Halt
  <2>. QED
    BY <1>1, <2>1, AllIdle
<1>3. CASE UnlockLegacy
  <2>1. \/ loader' = [k \in Loaders |-> Idle]
        \/ UNCHANGED <<database, encrypted, aside, loader, outlived>>
    BY <1>3 DEF UnlockLegacy, Halt, Unlocked
  <2>. QED
    BY <1>1, <2>1, AllIdle
<1>4. CASE BeginLogin
  <2>1. \/ loader' = [k \in Loaders |-> Idle]
        \/ UNCHANGED <<database, encrypted, aside, loader, outlived>>
    BY <1>4 DEF BeginLogin, Halt
  <2>. QED
    BY <1>1, <2>1, AllIdle
<1>5. CASE FinishLogin
  <2>1. CASE database[pendingDatabase.user] # Absent
    BY <1>1, <1>5, <2>1, AllIdle DEF FinishLogin, LoginInstalled, Halt
  <2>2. CASE database[pendingDatabase.user] = Absent
    <3>1. PICK a : a = pendingDatabase.user
      OBVIOUS
    <3>2. /\ \A b \in Accounts : b # a => database'[b] = database[b]
          /\ outlived' = outlived \cup Overtaken(a)
          /\ UNCHANGED <<encrypted, aside, loader>>
      BY <1>5, <2>2, <3>1 DEF FinishLogin, LoginInstalled, StoredTypeOK
    <3>3. \A k \in Loaders : loader[k].account = a => a \in outlived'
      BY <3>2 DEF Overtaken, LoadingNow
    <3>4. \A k \in Loaders : loader[k].step # "idle" => loader[k].account \in Accounts
      BY Contents DEF KeyInv, KeyOf, Names, Pending
    <3>. QED
      BY <3>2, <3>3, <3>4 DEF PhaseOf, At, Before, Between, After
  <2>. QED
    BY <2>1, <2>2
<1>6. CASE PromoteSalt
  <2>1. \/ loader' = [k \in Loaders |-> Idle]
        \/ UNCHANGED <<database, encrypted, aside, loader, outlived>>
    BY <1>6 DEF PromoteSalt, Continue, Halt
  <2>. QED
    BY <1>1, <2>1, AllIdle
<1>7. ASSUME NEW l \in Loaders, Spawn(l) PROVE PhaseInv'
  <2>1. /\ \A k \in Loaders : IF k = l THEN loader'[k].step \in {"open", "list"}
                              ELSE loader'[k] = loader[k]
        /\ UNCHANGED <<database, encrypted, aside, outlived>>
    BY <1>7 DEF Spawn, ThreadsTypeOK
  <2>. QED
    BY <2>1 DEF PhaseOf, At, Before, Between, After
<1>8. ASSUME NEW l \in Loaders, Convert(l) PROVE PhaseInv'
  <2>. SUFFICES ASSUME NEW k \in Loaders PROVE PhaseOf(k)'
    OBVIOUS
  <2>1. loader'[k].step = "idle" => PhaseOf(k)'
    BY DEF PhaseOf, At
  <2>2. loader[l].account \in Accounts
    BY <1>8, ConvertEffect DEF PhaseInv
  <2>. QED
    BY <1>8, <2>1, <2>2, PhaseElsewhere, PhaseHere
<1>9. ASSUME NEW l \in Loaders, Unseen(l) PROVE PhaseInv'
  <2>1. /\ loader' = [loader EXCEPT ![l] = Idle]
        /\ UNCHANGED <<database, encrypted, aside, outlived>>
    BY <1>9 DEF Unseen
  <2>. QED
    BY <2>1, StepEnds DEF PhaseOf, At, Before, Between, After, Idle
<1>10. ASSUME NEW l \in Loaders, Load(l) PROVE PhaseInv'
  <2>1. /\ loader' = [loader EXCEPT ![l] = Idle]
        /\ UNCHANGED <<database, encrypted, aside, outlived>>
    BY <1>10 DEF Load, Loaded
  <2>. QED
    BY <2>1, StepEnds DEF PhaseOf, At, Before, Between, After, Idle
<1>11. ASSUME NEW l \in Loaders, LoadEnds(l) PROVE PhaseInv'
  <2>1. \/ loader' = [k \in Loaders |-> Idle]
        \/ UNCHANGED <<database, encrypted, aside, loader, outlived>>
    BY <1>11 DEF LoadEnds, Halt
  <2>. QED
    BY <1>1, <2>1, AllIdle
<1>12. ASSUME NEW l \in Loaders, LogoutCommand(l) PROVE PhaseInv'
  <2>1. /\ loader' = [loader EXCEPT ![l] = Idle]
        /\ UNCHANGED <<database, encrypted, aside, outlived>>
    BY <1>12 DEF LogoutCommand, Loaded
  <2>. QED
    BY <2>1, StepEnds DEF PhaseOf, At, Before, Between, After, Idle
<1>13. CASE RemoveFiles
  <2>1. CASE command # "none"
    BY <1>1, <1>13, <2>1, AllIdle DEF RemoveFiles, Halt
  <2>2. CASE command = "none"
    <3>1. PICK a : a = target
      OBVIOUS
    <3>2. /\ \A b \in Accounts : b # a => database'[b] = database[b]
          /\ outlived' = outlived \cup Overtaken(a)
          /\ UNCHANGED <<encrypted, aside, loader>>
      BY <1>13, <2>2, <3>1 DEF RemoveFiles, StoredTypeOK
    <3>3. \A k \in Loaders : loader[k].account = a => a \in outlived'
      BY <3>2 DEF Overtaken, LoadingNow
    <3>4. \A k \in Loaders : loader[k].step # "idle" => loader[k].account \in Accounts
      BY Contents DEF KeyInv, KeyOf, Names, Pending
    <3>. QED
      BY <3>2, <3>3, <3>4 DEF PhaseOf, At, Before, Between, After
  <2>. QED
    BY <2>1, <2>2
<1>. HIDE DEF LifecycleInv, LifecycleTypeOK, PhaseInv
<1>. QED
  BY <1>1, <1>2, <1>3, <1>4, <1>5, <1>6, <1>7, <1>8, <1>9, <1>10, <1>11, <1>12, <1>13
  DEF Next, Unlock, vars, EnableLock, Start, Maintain, RemoveCommand, Select,
      UnlockOpen, Unlocked, Opening, UnlockStored, UnlockPending, UnlockGenerated,
      Authorize, Register, Bootstrap, PromoteKeyring, ForgetPending, Continue, Connect,
      Disconnect, AskLogout, CancelLogout, ConfirmLogout, Removal, Leave, RemoveLocally,
      RemoveKey, RemoveRecord

\* A conversion disturbs no database that is locked for good.
LEMMA SettledStays ==
  ASSUME LifecycleInv, NEW l \in Loaders, Convert(l), NEW a \in Accounts, a \notin outlived,
         Settled(a)
  PROVE  Settled(a)' /\ database'[a] = database[a]
<1>. USE DEF LifecycleInv, LifecycleTypeOK
<1>1. CASE loader[l].account # a
  <2>1. database'[a] = database[a]
    BY <1>1, ConvertEffect
  <2>2. \A k \in Loaders : loader'[k].account = a => loader'[k] \in {loader[k], Idle}
    BY <1>1, ConvertEffect, StepMoves, StepEnds
  <2>. QED
    BY <2>1, <2>2 DEF Settled, Undisturbed, At, Idle
<1>2. CASE loader[l].account = a
  <2>1. ~At(l, "move") /\ ~At(l, "install")
    BY <1>2 DEF Settled, Undisturbed
  <2>2. database[a] # Absent /\ database[a].key # Plain
    BY DEF Settled
  <2>3. /\ database'[a] = database[a]
        /\ \/ loader' \in {[k \in Loaders |-> Idle], [loader EXCEPT ![l] = Idle], loader}
           \/ \E s \in {"check", "open", "export"} : loader' = [loader EXCEPT ![l].step = s]
    <3>1. CASE List(l)
      BY <3>1 DEF List, Go, files
    <3>2. CASE Check(l)
      BY <1>2, <2>2, <3>2 DEF Check, Go, Fails, Halt, files
    <3>3. CASE Export(l)
      BY <1>2, <2>2, <3>3 DEF Export, Fails, Halt, files
    <3>4. CASE DropPlaintext(l)
      BY <3>4 DEF DropPlaintext, Go, Fails, Halt, files
    <3>. QED
      BY <2>1, <3>1, <3>2, <3>3, <3>4 DEF Convert, MoveAside, Install
  <2>4. \A k \in Loaders : /\ loader'[k].account = a
                           /\ loader'[k].step \in {"move", "install"}
                           => loader'[k] = loader[k]
    <3>. SUFFICES ASSUME NEW k \in Loaders, loader'[k].step \in {"move", "install"}
                  PROVE  loader'[k] = loader[k]
      OBVIOUS
    <3>1. CASE loader' \in {[j \in Loaders |-> Idle], loader}
      BY <3>1 DEF Idle
    <3>2. CASE loader' = [loader EXCEPT ![l] = Idle]
      BY <3>2, StepEnds DEF Idle
    <3>3. ASSUME NEW s \in {"check", "open", "export"}, loader' = [loader EXCEPT ![l].step = s]
          PROVE  loader'[k] = loader[k]
      BY <3>3, StepMoves
    <3>. QED
      BY <2>3, <3>1, <3>2, <3>3
  <2>. QED
    BY <2>2, <2>3, <2>4 DEF Settled, Undisturbed, At
<1>. QED
  BY <1>1, <1>2

\* A conversion keeps the keys of the threads.
LEMMA KeyConvert ==
  ASSUME LifecycleInv, NEW l \in Loaders, Convert(l), NEW k \in Loaders
  PROVE  KeyOf(k)'
<1>. USE DEF LifecycleInv, LifecycleTypeOK
<1>1. CASE loader' = [j \in Loaders |-> Idle]
  BY <1>1, AllIdle DEF KeyInv
<1>2. CASE loader'[k] = Idle
  BY <1>2 DEF KeyOf, Idle, Converting
<1>3. SUFFICES ASSUME loader' # [j \in Loaders |-> Idle], loader'[k] # Idle
               PROVE  KeyOf(k)'
  BY <1>1, <1>2
<1>4. KeyOf(k) /\ PhaseOf(k)
  BY DEF KeyInv, PhaseInv
<1>5. UNCHANGED <<registry, vault, unfinished, outlived, pc, command, target, awaited>>
  BY <1>3, ConvertEffect DEF Halt, history, process, choice
<1>6. /\ loader'[k].account = loader[k].account /\ loader'[k].key = loader[k].key
      /\ k # l => loader'[k] = loader[k]
  BY <1>3, ConvertEffect, StepMoves, StepEnds
<1>7. CASE loader[k].account \notin Accounts
  <2>1. loader[k].step = "idle"
    BY <1>4, <1>7, Contents DEF KeyOf, Names, Pending
  <2>2. k # l
    BY <1>7, ConvertEffect
  <2>. QED
    BY <1>3, <1>6, <2>1, <2>2 DEF ThreadsTypeOK
<1>8. CASE loader[k].account \in Accounts
  <2>1. PICK a \in Accounts : a = loader[k].account
    BY <1>8
  <2>2. a \notin outlived /\ Settled(a) => Settled(a)'
    BY SettledStays
  <2>3. /\ a # NoAccount
        /\ loader[k].step \in {"list", "check"} \cup Converting => loader[k].key # Plain
        /\ command # "none" /\ loader[k].step # "idle" => awaited = k
        /\ loader[k].step # "idle" /\ a \notin unfinished \cup outlived => a \in registry
        /\ command = "none" /\ Stable(a) =>
              /\ loader[k].step \in {"list", "check"} => loader[k].key = vault[a] \/ Settled(a)
              /\ loader[k].step \in Converting => loader[k].key = vault[a]
    BY <1>4, <2>1, LifecycleAssumption DEF KeyOf
  <2>4. Stable(a)' <=> Stable(a)
    BY <1>5 DEF Stable
  <2>5. Stable(a) => a \notin outlived
    BY DEF Stable
  <2>6. loader[k].step = "idle" => loader'[k].step = "idle"
    BY <1>3, <1>6, ConvertEffect DEF Convert, List, Check, Export, MoveAside, Install,
        DropPlaintext, At
  <2>7. /\ loader'[k].step \in {"list", "check"} => loader[k].step \in {"list", "check"}
        /\ loader'[k].step \in Converting =>
              loader[k].step \in Converting \/ (At(k, "check") /\ ~Settled(a))
    <3>1. CASE k # l
      BY <1>6, <3>1
    <3>2. CASE k = l
      <4>1. ~Halt /\ loader' # [loader EXCEPT ![l] = Idle]
        BY <1>3, <3>2, StepEnds DEF Halt
      <4>2. \A s : loader' = [loader EXCEPT ![l].step = s] => loader'[k].step = s
        BY <3>2, StepMoves
      <4>3. CASE List(l)
        BY <3>2, <4>2, <4>3 DEF List, At, Go, Converting
      <4>4. CASE Check(l)
        BY <2>1, <3>2, <4>1, <4>2, <4>4 DEF Check, At, Go, Fails, Converting, Settled
      <4>5. CASE Export(l) \/ MoveAside(l) \/ Install(l) \/ DropPlaintext(l)
        BY <3>2, <4>1, <4>2, <4>5
        DEF Export, MoveAside, Install, DropPlaintext, At, Go, Fails, Converting
      <4>. QED
        BY <4>3, <4>4, <4>5 DEF Convert
    <3>. QED
      BY <3>1, <3>2
  <2>. QED
    BY <1>5, <1>6, <2>1, <2>2, <2>3, <2>4, <2>5, <2>6, <2>7
    DEF KeyOf, Settled, Undisturbed, At, Stable, Converting
<1>. QED
  BY <1>7, <1>8

\* Nor does the end of a thread.
LEMMA SettledEnds ==
  ASSUME ThreadsTypeOK, NEW l \in Loaders, loader' = [loader EXCEPT ![l] = Idle],
         database' = database, NEW a, Settled(a)
  PROVE  Settled(a)'
<1>1. \A k \in Loaders : At(k, "move")' \/ At(k, "install")' => loader'[k] = loader[k]
  BY StepEnds DEF At, Idle
<1>. QED
  BY <1>1 DEF Settled, Undisturbed, At

\* The end of a thread leaves the keys of the others.
LEMMA KeyEnds ==
  ASSUME LifecycleInv, NEW l \in Loaders, loader' = [loader EXCEPT ![l] = Idle],
         UNCHANGED <<database, vault, registry, unfinished, outlived, command>>,
         pc \in {"remove record", "remove files"} => UNCHANGED <<pc, target>>,
         command = "none" \/ awaited \in {l, awaited'}
  PROVE  KeyInv'
<1>. USE DEF LifecycleInv, LifecycleTypeOK
<1>. SUFFICES ASSUME NEW k \in Loaders PROVE KeyOf(k)'
  BY DEF KeyInv
<1>1. CASE k = l
  <2>1. loader'[k] = Idle
    BY <1>1, StepEnds
  <2>2. loader'[k].step = "idle"
    BY <2>1, Idle.step = "idle" DEF Idle
  <2>. QED
    BY <2>2 DEF KeyOf, Converting
<1>2. CASE k # l
  <2>1. PICK a : a = loader[k].account
    OBVIOUS
  <2>2. loader'[k] = loader[k]
    BY <1>2, StepEnds
  <2>3. /\ loader[k].step # "idle" => a # NoAccount
        /\ loader[k].step \in {"list", "check"} \cup Converting => loader[k].key # Plain
        /\ command # "none" /\ loader[k].step # "idle" => awaited = k
        /\ loader[k].step # "idle" /\ a \notin unfinished \cup outlived => a \in registry
        /\ command = "none" /\ Stable(a) =>
              /\ loader[k].step \in {"list", "check"} => loader[k].key = vault[a] \/ Settled(a)
              /\ loader[k].step \in Converting => loader[k].key = vault[a]
    BY <2>1, LifecycleAssumption DEF KeyOf, KeyInv
  <2>4. Stable(a)' => Stable(a)
    BY DEF Stable
  <2>5. Settled(a) => Settled(a)'
    BY SettledEnds
  <2>6. command' # "none" /\ loader[k].step # "idle" => awaited' = k
    BY <1>2, <2>3
  <2>7. /\ loader'[k].step # "idle" => a # NoAccount
        /\ loader'[k].step \in {"list", "check"} \cup Converting => loader'[k].key # Plain
        /\ command' # "none" /\ loader'[k].step # "idle" => awaited' = k
        /\ loader'[k].step # "idle" /\ a \notin unfinished' \cup outlived' => a \in registry'
        /\ command' = "none" /\ Stable(a)' =>
              /\ loader'[k].step \in {"list", "check"} =>
                    loader'[k].key = vault'[a] \/ Settled(a)'
              /\ loader'[k].step \in Converting => loader'[k].key = vault'[a]
    BY <2>2, <2>3, <2>4, <2>5, <2>6
  <2>8. loader'[k].account = a
    BY <2>1, <2>2
  <2>. QED
    BY <2>7, <2>8 DEF KeyOf, Settled, Undisturbed, At, Stable, Converting
<1>. QED
  BY <1>1, <1>2

\* Every step keeps the keys of the threads.
LEMMA KeyStep ==
  ASSUME LifecycleInv, [Next]_vars
  PROVE  KeyInv'
<1>. USE DEF LifecycleInv, LifecycleTypeOK, KeyInv, files, stored, settings, threads,
    choice, process, history
<1>1. CASE /\ UNCHANGED <<loader, database, vault, registry, unfinished, outlived, command, awaited>>
           /\ pc \in {"remove record", "remove files"} => UNCHANGED <<pc, target>>
  <2>1. \A a : Stable(a)' => Stable(a)
    BY <1>1 DEF Stable
  <2>. QED
    BY <1>1, <2>1 DEF KeyOf, Settled, Undisturbed, At, Converting
<1>2. ASSUME NEW a \in Accounts, NEW c \in {"logout", "other"}, Maintain(a, c) PROVE KeyInv'
  <2>1. loader' = [k \in Loaders |-> Idle]
    BY <1>2 DEF Maintain, ThreadsTypeOK
  <2>. QED
    BY <2>1, AllIdle
<1>3. ASSUME NEW a \in Accounts, RemoveCommand(a) PROVE KeyInv'
  <2>1. loader' = [k \in Loaders |-> Idle]
    BY <1>3 DEF RemoveCommand, ThreadsTypeOK
  <2>. QED
    BY <2>1, AllIdle
<1>4. CASE Stop
  <2>1. \/ loader' = [k \in Loaders |-> Idle]
        \/ /\ UNCHANGED <<loader, database, vault, registry, unfinished, outlived, command, awaited>>
           /\ pc \in {"remove record", "remove files"} => UNCHANGED <<pc, target>>
    BY <1>4 DEF Stop, Halt
  <2>. QED
    BY <1>1, <2>1, AllIdle
<1>5. CASE UnlockLegacy
  <2>1. \/ loader' = [k \in Loaders |-> Idle]
        \/ /\ UNCHANGED <<loader, database, vault, registry, unfinished, outlived, command, awaited>>
           /\ pc \in {"remove record", "remove files"} => UNCHANGED <<pc, target>>
    BY <1>5 DEF UnlockLegacy, Halt, Unlocked
  <2>. QED
    BY <1>1, <2>1, AllIdle
<1>6. CASE UnlockGenerated
  <2>. SUFFICES ASSUME NEW k \in Loaders PROVE KeyOf(k)'
    OBVIOUS
  <2>1. /\ vault' = [vault EXCEPT ![current] = generated + 1]
        /\ vault[current] = NoKey /\ Initializing
        /\ UNCHANGED <<loader, database, registry, unfinished, outlived, command, awaited>>
        /\ pc \notin {"remove record", "remove files"}
    BY <1>6 DEF UnlockGenerated, Unlocked
  <2>2. KeyOf(k) /\ (loader[k].step # "idle" => loader[k].account \in Accounts)
    BY Contents DEF KeyOf, Names, Pending
  <2>3. loader[k].key # NoKey
    BY Contents, KeyFacts
  <2>4. \A b \in Accounts : b # current => vault'[b] = vault[b]
    BY <2>1 DEF StoredTypeOK, Names
  <2>. QED
    BY <2>1, <2>2, <2>3, <2>4 DEF Initializing, KeyOf, Stable, Settled, Undisturbed, At,
        Converting
<1>7. CASE BeginLogin
  <2>1. \/ loader' = [k \in Loaders |-> Idle]
        \/ /\ UNCHANGED <<loader, database, vault, registry, unfinished, outlived, command, awaited>>
           /\ pc \in {"remove record", "remove files"} => UNCHANGED <<pc, target>>
    BY <1>7 DEF BeginLogin, Halt
  <2>. QED
    BY <1>1, <2>1, AllIdle
<1>8. CASE FinishLogin
  <2>. SUFFICES ASSUME NEW k \in Loaders PROVE KeyOf(k)'
    OBVIOUS
  <2>1. CASE database[pendingDatabase.user] # Absent
    BY <1>8, <2>1, AllIdle DEF FinishLogin, LoginInstalled, Halt, KeyInv
  <2>2. CASE database[pendingDatabase.user] = Absent
    <3>1. PICK a : a = pendingDatabase.user
      OBVIOUS
    <3>2. /\ \A b \in Accounts : b # a => database'[b] = database[b]
          /\ outlived' = outlived \cup Overtaken(a)
          /\ unfinished \ {a} \subseteq unfinished'
          /\ UNCHANGED <<vault, registry, loader, command, awaited>>
          /\ pc \in {"remove record", "remove files"} => target = a
      BY <1>8, <2>2, <3>1 DEF FinishLogin, LoginInstalled, StoredTypeOK
    <3>3. loader[k].account = a => a \in outlived'
      BY <3>2 DEF Overtaken, LoadingNow
    <3>4. KeyOf(k) /\ (loader[k].step # "idle" => loader[k].account \in Accounts)
      BY Contents DEF KeyOf, Names, Pending
    <3>. QED
      BY <3>2, <3>3, <3>4 DEF KeyOf, Stable, Settled, Undisturbed, At, Converting
  <2>. QED
    BY <2>1, <2>2
<1>9. CASE Register
  <2>. SUFFICES ASSUME NEW k \in Loaders PROVE KeyOf(k)'
    OBVIOUS
  <2>1. /\ registry' = registry \cup {requested} /\ unfinished' = unfinished \ {requested}
        /\ UNCHANGED <<loader, database, vault, outlived, command, awaited>>
        /\ pc \notin {"remove record", "remove files"}
    BY <1>9 DEF Register
  <2>. QED
    BY <2>1 DEF KeyOf, Stable, Settled, Undisturbed, At, Converting
<1>10. CASE PromoteKeyring
  <2>. SUFFICES ASSUME NEW k \in Loaders PROVE KeyOf(k)'
    OBVIOUS
  <2>1. /\ Promoted \in Accounts
        /\ \A b \in Accounts : b # Promoted => vault'[b] = vault[b]
        /\ UNCHANGED <<loader, database, registry, unfinished, outlived, command, awaited>>
        /\ pc \notin {"remove record", "remove files"}
    BY <1>10 DEF PromoteKeyring, LoginInv, Promoted, StoredTypeOK, ProcessTypeOK, Names,
        Pending
  <2>2. KeyOf(k) /\ (loader[k].step # "idle" => loader[k].account \in Accounts)
    BY Contents DEF KeyOf, Names, Pending
  <2>3. CASE loader[k].account # Promoted
    BY <2>1, <2>2, <2>3 DEF KeyOf, Stable, Settled, Undisturbed, At, Converting
  <2>4. CASE loader[k].account = Promoted /\ current = NoAccount
    <3>1. Promoted \in outlived
      BY <1>10, <2>4 DEF PromoteKeyring, LoginInv, LoadingNow
    <3>. QED
      BY <2>1, <2>2, <2>4, <3>1 DEF KeyOf, Stable, Settled, Undisturbed, At, Converting
  <2>5. CASE loader[k].account = Promoted /\ current # NoAccount
    <3>1. vault[Promoted] = NoKey
      BY <1>10, <2>5 DEF PromoteKeyring, LoginInv, LoadInv, Promoted
    <3>2. loader[k].key # NoKey
      BY Contents, KeyFacts
    <3>. QED
      BY <2>1, <2>2, <2>5, <3>1, <3>2 DEF KeyOf, Stable, Settled, Undisturbed, At,
          Converting
  <2>. QED
    BY <2>3, <2>4, <2>5
<1>11. CASE ForgetPending
  <2>. SUFFICES ASSUME NEW k \in Loaders PROVE KeyOf(k)'
    OBVIOUS
  <2>1. /\ \A b \in Accounts : vault'[b] = vault[b]
        /\ UNCHANGED <<loader, database, registry, unfinished, outlived, command, awaited>>
        /\ pc \notin {"remove record", "remove files"}
    BY <1>11 DEF ForgetPending, Continue, StoredTypeOK, Names, Pending
  <2>2. KeyOf(k) /\ (loader[k].step # "idle" => loader[k].account \in Accounts)
    BY Contents DEF KeyOf, Names, Pending
  <2>. QED
    BY <2>1, <2>2 DEF KeyOf, Stable, Settled, Undisturbed, At, Converting
<1>12. CASE PromoteSalt
  <2>. SUFFICES ASSUME NEW k \in Loaders PROVE KeyOf(k)'
    OBVIOUS
  <2>9. CASE vault[Promoted] \notin {NoKey, vault[Pending]}
    BY <1>12, <2>9, AllIdle DEF PromoteSalt, Halt, KeyInv
  <2>10. CASE vault[Promoted] \in {NoKey, vault[Pending]}
    <3>1. /\ Promoted \in Accounts
          /\ \A b \in Accounts : b # Promoted => vault'[b] = vault[b]
          /\ UNCHANGED <<loader, database, registry, unfinished, outlived, command, awaited>>
          /\ pc \notin {"remove record", "remove files"}
      BY <1>12, <2>10 DEF PromoteSalt, Continue, LoginInv, Promoted, StoredTypeOK,
          ProcessTypeOK, Names, Pending
    <3>2. KeyOf(k) /\ (loader[k].step # "idle" => loader[k].account \in Accounts)
      BY Contents DEF KeyOf, Names, Pending
    <3>3. CASE loader[k].account # Promoted
      BY <3>1, <3>2, <3>3 DEF KeyOf, Stable, Settled, Undisturbed, At, Converting
    <3>4. CASE loader[k].account = Promoted /\ current = NoAccount
      <4>1. Promoted \in outlived
        BY <1>12, <3>4 DEF PromoteSalt, LoginInv, LoadingNow
      <4>. QED
        BY <3>1, <3>2, <3>4, <4>1 DEF KeyOf, Stable, Settled, Undisturbed, At, Converting
    <3>5. CASE loader[k].account = Promoted /\ current # NoAccount
      <4>1. vault[Promoted] = NoKey
        BY <1>12, <3>5 DEF PromoteSalt, LoginInv, LoadInv, Promoted
      <4>2. loader[k].key # NoKey
        BY Contents, KeyFacts
      <4>. QED
        BY <3>1, <3>2, <3>5, <4>1, <4>2 DEF KeyOf, Stable, Settled, Undisturbed, At,
            Converting
    <3>. QED
      BY <3>3, <3>4, <3>5
  <2>. QED
    BY <2>9, <2>10
<1>13. ASSUME NEW l \in Loaders, Spawn(l) PROVE KeyInv'
  <2>. SUFFICES ASSUME NEW k \in Loaders PROVE KeyOf(k)'
    OBVIOUS
  <2>1. /\ loader' = [loader EXCEPT ![l] = [account |-> current, key |-> cipher,
                          step |-> IF cipher = Plain THEN "open" ELSE "list"]]
        /\ pc = "load" /\ awaited = Nobody /\ awaited' = l
        /\ UNCHANGED <<database, vault, registry, unfinished, outlived, command, pc, target>>
    BY <1>13 DEF Spawn
  <2>2. \A j \in Loaders : IF j = l
           THEN /\ loader'[j].account = current /\ loader'[j].key = cipher
                /\ loader'[j].step = IF cipher = Plain THEN "open" ELSE "list"
           ELSE loader'[j] = loader[j]
    BY <2>1 DEF ThreadsTypeOK
  <2>3. \A j \in Loaders : command # "none" => loader[j].step = "idle"
    BY <2>1, LifecycleAssumption DEF KeyOf
  <2>4. CASE k = l
    <3>1. current # NoAccount /\ current \in registry
      BY <2>1 DEF ProcessInv
    <3>2. command = "none" /\ cipher # Plain /\ current \notin outlived =>
             cipher = vault[current] \/ Settled(current)
      BY <2>1 DEF LoadInv
    <3>. QED
      BY <2>1, <2>2, <2>4, <3>1, <3>2 DEF KeyOf, Stable, Settled, Undisturbed, At,
          Converting
  <2>5. CASE k # l
    BY <2>1, <2>2, <2>3, <2>5 DEF KeyOf, Stable, Settled, Undisturbed, At, Converting
  <2>. QED
    BY <2>4, <2>5
<1>14. ASSUME NEW l \in Loaders, Convert(l) PROVE KeyInv'
  BY <1>14, KeyConvert
<1>15. ASSUME NEW l \in Loaders, Unseen(l) PROVE KeyInv'
  BY <1>15, KeyEnds DEF Unseen, ThreadsTypeOK
<1>16. ASSUME NEW l \in Loaders, Load(l) PROVE KeyInv'
  BY <1>16, KeyEnds DEF Load, Loaded, ThreadsTypeOK
<1>17. ASSUME NEW l \in Loaders, LoadEnds(l) PROVE KeyInv'
  <2>1. \/ loader' = [k \in Loaders |-> Idle]
        \/ /\ UNCHANGED <<loader, database, vault, registry, unfinished, outlived, command, awaited>>
           /\ pc \in {"remove record", "remove files"} => UNCHANGED <<pc, target>>
    BY <1>17 DEF LoadEnds, Halt
  <2>. QED
    BY <1>1, <2>1, AllIdle
<1>18. ASSUME NEW l \in Loaders, LogoutCommand(l) PROVE KeyInv'
  BY <1>18, KeyEnds DEF LogoutCommand, Loaded, ThreadsTypeOK
<1>19. CASE ConfirmLogout
  <2>. SUFFICES ASSUME NEW k \in Loaders PROVE KeyOf(k)'
    OBVIOUS
  <2>1. command = "none"
    BY <1>19 DEF ConfirmLogout, ProcessInv, Removing
  <2>. QED
    BY <1>19, <2>1 DEF ConfirmLogout, Removal, KeyOf, Stable, Settled, Undisturbed, At,
        Converting
<1>20. ASSUME NEW a \in Names, Leave(a) PROVE KeyInv'
  BY <1>20 DEF Leave, KeyOf, Stable, Settled, Undisturbed, At, Converting
<1>21. ASSUME NEW a \in Accounts, RemoveLocally(a) PROVE KeyInv'
  BY <1>21 DEF RemoveLocally, Removal, KeyOf, Stable, Settled, Undisturbed, At,
      Converting
<1>22. CASE RemoveKey
  <2>. SUFFICES ASSUME NEW k \in Loaders PROVE KeyOf(k)'
    OBVIOUS
  <2>1. /\ \A b \in Accounts : b # target => vault'[b] = vault[b]
        /\ pc \notin {"remove record", "remove files"} /\ pc' = "remove record"
        /\ target' = target /\ unfinished' = unfinished \cup {target}
        /\ UNCHANGED <<loader, database, registry, outlived, command, awaited>>
    BY <1>22 DEF RemoveKey, StoredTypeOK, ProcessTypeOK, Names, Removing
  <2>2. KeyOf(k) /\ (loader[k].step # "idle" => loader[k].account \in Accounts)
    BY Contents DEF KeyOf, Names, Pending
  <2>. QED
    BY <2>1, <2>2 DEF KeyOf, Stable, Settled, Undisturbed, At, Converting
<1>23. CASE RemoveRecord
  BY <1>23 DEF RemoveRecord, RemovalInv, KeyOf, Stable, Settled, Undisturbed, At,
      Converting
<1>24. CASE RemoveFiles
  <2>. SUFFICES ASSUME NEW k \in Loaders PROVE KeyOf(k)'
    OBVIOUS
  <2>1. CASE command # "none"
    BY <1>24, <2>1, AllIdle DEF RemoveFiles, Halt, KeyInv
  <2>2. CASE command = "none"
    <3>1. PICK a : a = target
      OBVIOUS
    <3>2. /\ \A b \in Accounts : b # a => database'[b] = database[b]
          /\ outlived' = outlived \cup Overtaken(a)
          /\ unfinished \ {a} \subseteq unfinished'
          /\ UNCHANGED <<vault, registry, loader, command, awaited>>
          /\ pc \in {"remove record", "remove files"} => target = a
      BY <1>24, <2>2, <3>1 DEF RemoveFiles, StoredTypeOK
    <3>3. loader[k].account = a => a \in outlived'
      BY <3>2 DEF Overtaken, LoadingNow
    <3>4. KeyOf(k) /\ (loader[k].step # "idle" => loader[k].account \in Accounts)
      BY Contents DEF KeyOf, Names, Pending
    <3>. QED
      BY <3>2, <3>3, <3>4 DEF KeyOf, Stable, Settled, Undisturbed, At, Converting
  <2>. QED
    BY <2>1, <2>2
<1>. HIDE DEF LifecycleInv, LifecycleTypeOK, KeyInv
<1>. QED
  BY <1>1, <1>2, <1>3, <1>4, <1>5, <1>6, <1>7, <1>8, <1>9, <1>10, <1>11, <1>12, <1>13,
      <1>14, <1>15, <1>16, <1>17, <1>18, <1>19, <1>20, <1>21, <1>22, <1>23, <1>24
  DEF Next, Unlock, vars, EnableLock, Start, Select, UnlockOpen, Unlocked, Opening,
      UnlockStored, UnlockPending, Authorize, Bootstrap, Connect, Disconnect, AskLogout,
      CancelLogout

\* Every step keeps what a login or a load has in hand.
LEMMA LoginStep ==
  ASSUME LifecycleInv, [Next]_vars
  PROVE  LoginInv'
<1>. USE DEF LifecycleInv, LifecycleTypeOK, LoginInv, files, stored, settings, threads,
    choice, process, history
<1>1. CASE pc' \notin {"authorize", "finish", "register", "bootstrap", "promote", "forget"}
  BY <1>1 DEF Promoted
<1>2. CASE BeginLogin
  <2>1. CASE pendingDatabase # Absent /\ pendingDatabase.key # cipher
    BY <1>1, <1>2, <2>1 DEF BeginLogin, Halt
  <2>2. CASE pendingDatabase # Absent /\ pendingDatabase.key = cipher
    BY <1>2, <2>2 DEF BeginLogin
  <2>3. CASE pendingDatabase = Absent
    <3>1. [key |-> cipher, user |-> NoAccount] \in Database
      BY DEF Database, ProcessTypeOK, Names, Pending
    <3>2. /\ pendingDatabase' = [key |-> cipher, user |-> NoAccount]
          /\ pc' = "authorize" /\ cipher' = cipher
      BY <1>2, <2>3 DEF BeginLogin
    <3>. QED
      BY <3>1, <3>2, LifecycleAssumption
  <2>. QED
    BY <2>1, <2>2, <2>3
<1>3. ASSUME NEW a \in Accounts, Authorize(a) PROVE LoginInv'
  BY <1>3 DEF Authorize, Database, StoredTypeOK, Promoted, Names, Pending
<1>4. CASE FinishLogin
  <2>1. CASE database[pendingDatabase.user] # Absent
    BY <1>1, <1>4, <2>1 DEF FinishLogin, Halt
  <2>2. CASE database[pendingDatabase.user] = Absent
    <3>1. PICK a \in Accounts : a = pendingDatabase.user
      BY <1>4 DEF FinishLogin, StoredTypeOK, Database, Names, Pending
    <3>2. /\ database'[a] = pendingDatabase /\ requested' = a /\ current' = NoAccount
          /\ outlived' = outlived \cup Overtaken(a) /\ pc' = "register"
          /\ UNCHANGED <<loader, cipher>>
      BY <1>4, <2>2, <3>1 DEF FinishLogin, LoginInstalled, StoredTypeOK, ProcessInv
    <3>3. a \notin outlived' => LoadingNow(a) = {} /\ LoadingNow(a)' = {} /\ Undisturbed(a)'
      BY <3>2 DEF Overtaken, LoadingNow, Undisturbed
    <3>4. Promoted' = a
      BY <3>2 DEF Promoted
    <3>. QED
      BY <1>4, <3>1, <3>2, <3>3, <3>4, LifecycleAssumption
      DEF FinishLogin, Promoted, Undisturbed, LoadingNow
  <2>. QED
    BY <2>1, <2>2
<1>5. CASE Register
  BY <1>5 DEF Register, Promoted, Undisturbed, At, LoadingNow
<1>6. CASE Bootstrap
  BY <1>6 DEF Bootstrap, Promoted, Undisturbed, At, LoadingNow
<1>7. CASE PromoteKeyring
  BY <1>7 DEF PromoteKeyring, Promoted, Undisturbed, At, LoadingNow, StoredTypeOK,
      ProcessTypeOK, Names, Pending
<1>8. CASE ForgetPending
  BY <1>1, <1>8 DEF ForgetPending, Continue
<1>9. CASE PromoteSalt
  BY <1>1, <1>9 DEF PromoteSalt, Continue, Halt
<1>10. ASSUME NEW l \in Loaders, Convert(l) PROVE LoginInv'
  <2>1. CASE Halt
    BY <1>1, <2>1 DEF Halt
  <2>2. CASE UNCHANGED <<pc, process, awaited>>
    <3>1. UNCHANGED <<pendingDatabase, pc, cipher, unpromoted, vault, outlived>> /\ Promoted' = Promoted
      BY <1>10, <2>2, ConvertEffect DEF Promoted
    <3>2. SUFFICES ASSUME pc \in {"register", "bootstrap", "promote", "forget"},
                          Promoted \notin outlived
                   PROVE  /\ database'[Promoted] # Absent /\ database'[Promoted].key = cipher
                          /\ Undisturbed(Promoted)'
                          /\ current = NoAccount => LoadingNow(Promoted)' = {}
      BY <2>2, <3>1 DEF Promoted, Undisturbed, LoadingNow
    <3>3. PICK a \in Accounts : a = Promoted
      BY <3>2 DEF Promoted, ProcessTypeOK, Names, Pending
    <3>4. /\ database[a] # Absent /\ database[a].key = cipher /\ Undisturbed(a)
          /\ current = NoAccount => LoadingNow(a) = {}
      BY <3>2, <3>3
    <3>5. CASE current = NoAccount
      <4>1. \A k \in Loaders : loader[k].account # a /\ loader'[k].account # a
        BY <1>10, <3>3, <3>4, <3>5, ConvertEffect, StepMoves, StepEnds, LifecycleAssumption
        DEF LoadingNow, Idle
      <4>2. LoadingNow(a)' = {} /\ Undisturbed(a)' /\ database'[a] = database[a]
        BY <1>10, <4>1, ConvertEffect DEF LoadingNow, Undisturbed
      <4>. QED
        BY <3>1, <3>3, <3>4, <4>2 DEF Undisturbed, LoadingNow
    <3>6. CASE current # NoAccount
      <4>1. cipher # Plain
        BY <3>2, <3>6, Contents, KeyFacts DEF ProcessInv, ProcessTypeOK, Names, Pending
      <4>2. Settled(a)
        BY <3>4, <4>1 DEF Settled
      <4>3. Settled(a)' /\ database'[a] = database[a]
        BY <1>10, <3>2, <3>3, <4>2, SettledStays
      <4>. QED
        BY <3>1, <3>3, <3>4, <3>6, <4>3 DEF Settled, Undisturbed
    <3>. QED
      BY <3>5, <3>6
  <2>. QED
    BY <1>10, <2>1, <2>2, ConvertEffect
<1>11. ASSUME NEW l \in Loaders, Unseen(l) PROVE LoginInv'
  <2>1. /\ loader' = [loader EXCEPT ![l] = Idle]
        /\ UNCHANGED <<database, pendingDatabase, pc, current, requested, cipher, unpromoted,
                       vault, outlived>>
    BY <1>11 DEF Unseen
  <2>2. \A k \in Loaders : loader'[k] \in {loader[k], Idle}
    BY <2>1, StepEnds
  <2>3. Idle.account = NoAccount /\ Idle.step = "idle"
    BY DEF Idle
  <2>4. Promoted' = Promoted
    BY <2>1 DEF Promoted
  <2>5. Undisturbed(Promoted) => Undisturbed(Promoted)'
    BY <2>2, <2>3, <2>4 DEF Undisturbed, At
  <2>6. Promoted # NoAccount /\ LoadingNow(Promoted) = {} => LoadingNow(Promoted)' = {}
    BY <2>2, <2>3, <2>4 DEF LoadingNow
  <2>. QED
    BY <2>1, <2>4, <2>5, <2>6
<1>12. ASSUME NEW l \in Loaders, Load(l) PROVE LoginInv'
  <2>1. /\ current \in Accounts /\ pc = "load" /\ command = "none"
        /\ database[current] # Absent /\ database[current].key = cipher
    BY <1>12 DEF Load, Readable, ThreadsTypeOK, ProcessInv, ProcessTypeOK, Names, Pending
  <2>2. /\ loader' = [loader EXCEPT ![l] = Idle]
        /\ UNCHANGED <<database, current, requested, cipher, unpromoted, vault, outlived>>
        /\ pc' = IF unpromoted THEN "promote" ELSE "session"
    BY <1>12 DEF Load, Loaded
  <2>3. CASE unpromoted
    <3>1. vault[current] = NoKey /\ cipher # Plain /\ cipher # NoKey
      BY <2>1, <2>3, Contents, KeyFacts DEF LoadInv, ProcessTypeOK, Names, Pending
    <3>2. current \notin outlived => Settled(current)
      BY <2>1, <3>1 DEF LoadInv
    <3>3. PICK a \in Accounts : a = current /\ Promoted = a /\ Promoted' = a
      BY <2>1, <2>2, LifecycleAssumption DEF Promoted
    <3>4. Settled(a) => Undisturbed(a)'
      BY <2>2, SettledEnds DEF Settled
    <3>. QED
      BY <2>1, <2>2, <2>3, <3>2, <3>3, <3>4, LifecycleAssumption DEF Undisturbed
  <2>4. CASE ~unpromoted
    BY <1>1, <2>2, <2>4
  <2>. QED
    BY <2>3, <2>4 DEF FlagsTypeOK
<1>13. CASE UNCHANGED vars
  BY <1>13 DEF vars, Promoted, Undisturbed, At, LoadingNow
<1>. HIDE DEF LifecycleInv, LifecycleTypeOK, LoginInv
<1>. QED
  BY <1>1, <1>2, <1>3, <1>4, <1>5, <1>6, <1>7, <1>8, <1>9, <1>10, <1>11, <1>12, <1>13
  DEF Next, Unlock, EnableLock, Start, Maintain, RemoveCommand, Stop, Halt, Select,
      UnlockOpen, Unlocked, Opening, UnlockStored, UnlockPending, UnlockLegacy,
      UnlockGenerated, Spawn, LoadEnds, LogoutCommand, Loaded, Connect, Disconnect,
      AskLogout, CancelLogout, ConfirmLogout, Removal, Leave, RemoveLocally, RemoveKey,
      RemoveRecord, RemoveFiles

\* Every step keeps the source of the key in use.
LEMMA LoadStep ==
  ASSUME LifecycleInv, [Next]_vars
  PROVE  LoadInv'
<1>. USE DEF LifecycleInv, LifecycleTypeOK, LoadInv, files, stored, settings, threads,
    choice, process, history
<1>1. CASE pc' \notin {"load", "promote"}
  BY <1>1
<1>2. CASE UnlockOpen
  BY <1>2 DEF UnlockOpen, Unlocked, Opening
<1>3. CASE UnlockStored
  BY <1>3 DEF UnlockStored, Unlocked, Opening, ProcessTypeOK
<1>4. CASE UnlockPending
  <2>1. /\ current \in Accounts /\ pc = "unlock" /\ vault[current] = NoKey /\ ~Initializing
        /\ UNCHANGED <<database, loader, vault, current, command, outlived>>
    BY <1>4 DEF UnlockPending, Unlocked, ProcessTypeOK, Names, Pending
  <2>2. command = "none" /\ current \notin outlived => Settled(current)
    <3>1. SUFFICES ASSUME command = "none", current \notin outlived,
                          NEW k \in Loaders, loader[k].account = current,
                          At(k, "move") \/ At(k, "install")
                   PROVE  FALSE
      BY <2>1 DEF Settled, Undisturbed, Initializing
    <3>2. Stable(current)
      BY <2>1, <3>1 DEF Stable
    <3>3. loader[k].key = NoKey
      BY <2>1, <3>1, <3>2 DEF KeyInv, KeyOf, Converting, At
    <3>. QED
      BY <3>3, Contents, KeyFacts
  <2>3. Settled(current) => Settled(current)'
    BY <2>1 DEF Settled, Undisturbed, At
  <2>. QED
    BY <1>4, <2>1, <2>2, <2>3 DEF UnlockPending, Unlocked, Settled, Undisturbed
<1>5. CASE UnlockLegacy
  <2>8. CASE method = "keyring"
    BY <1>1, <1>5, <2>8 DEF UnlockLegacy, Halt
  <2>9. CASE method # "keyring"
    <3>1. /\ current \in Accounts /\ pc = "unlock" /\ vault[current] = NoKey /\ ~Initializing
          /\ UNCHANGED <<database, loader, vault, current, command, outlived>>
      BY <1>5, <2>9 DEF UnlockLegacy, Unlocked, ProcessTypeOK, Names, Pending
    <3>2. command = "none" /\ current \notin outlived => Settled(current)
      <4>1. SUFFICES ASSUME command = "none", current \notin outlived,
                            NEW k \in Loaders, loader[k].account = current,
                            At(k, "move") \/ At(k, "install")
                     PROVE  FALSE
        BY <3>1 DEF Settled, Undisturbed, Initializing
      <4>2. Stable(current)
        BY <3>1, <4>1 DEF Stable
      <4>3. loader[k].key = NoKey
        BY <3>1, <4>1, <4>2 DEF KeyInv, KeyOf, Converting, At
      <4>. QED
        BY <4>3, Contents, KeyFacts
    <3>3. Settled(current) => Settled(current)'
      BY <3>1 DEF Settled, Undisturbed, At
    <3>. QED
      BY <1>5, <2>9, <3>1, <3>2, <3>3 DEF UnlockLegacy, Unlocked, Settled, Undisturbed
  <2>. QED
    BY <2>8, <2>9
<1>6. CASE UnlockGenerated
  <2>1. /\ current \in Names /\ vault' = [vault EXCEPT ![current] = generated + 1]
        /\ cipher' = generated + 1 /\ unpromoted' = (current = NoAccount) /\ current' = current
    BY <1>6 DEF UnlockGenerated, Unlocked, ProcessTypeOK
  <2>2. vault'[current] = cipher'
    BY <2>1, Contents
  <2>. QED
    BY <2>1, <2>2
<1>7. CASE Bootstrap
  BY <1>7 DEF Bootstrap, ProcessInv
<1>8. ASSUME NEW l \in Loaders, Spawn(l) PROVE LoadInv'
  <2>1. \A k \in Loaders : At(k, "move")' \/ At(k, "install")' => loader'[k] = loader[k]
    BY <1>8 DEF Spawn, At, ThreadsTypeOK
  <2>2. Settled(current) => Settled(current)'
    BY <1>8, <2>1 DEF Spawn, Settled, Undisturbed, At
  <2>. QED
    BY <1>8, <2>2 DEF Spawn, Settled, Undisturbed
<1>9. ASSUME NEW l \in Loaders, Convert(l) PROVE LoadInv'
  <2>1. CASE Halt
    BY <1>1, <2>1 DEF Halt
  <2>2. CASE UNCHANGED <<pc, process, awaited>>
    <3>1. UNCHANGED <<pc, cipher, current, command, unpromoted, vault, outlived>>
      BY <1>9, <2>2, ConvertEffect
    <3>2. pc = "load" => current \in Accounts
      BY DEF ProcessInv, ProcessTypeOK, Names, Pending
    <3>3. pc = "load" /\ current \notin outlived /\ Settled(current) => Settled(current)'
      <4>1. CASE current \in Accounts
        <5>1. PICK a \in Accounts : a = current /\ a = current'
          BY <3>1, <4>1
        <5>2. a \notin outlived /\ Settled(a) => Settled(a)'
          BY <1>9, SettledStays
        <5>. QED
          BY <5>1, <5>2 DEF Settled, Undisturbed
      <4>. QED
        BY <3>2, <4>1
    <3>. QED
      BY <3>1, <3>3 DEF Settled, Undisturbed
  <2>. QED
    BY <1>9, <2>1, <2>2, ConvertEffect
<1>10. ASSUME NEW l \in Loaders, Unseen(l) PROVE LoadInv'
  <2>1. /\ loader' = [loader EXCEPT ![l] = Idle]
        /\ UNCHANGED <<database, pc, cipher, current, command, unpromoted, vault, outlived>>
    BY <1>10 DEF Unseen
  <2>2. PICK a : a = current /\ a = current'
    BY <2>1
  <2>3. Settled(a) => Settled(a)'
    BY <2>1, SettledEnds
  <2>. QED
    BY <2>1, <2>2, <2>3 DEF Settled, Undisturbed
<1>11. ASSUME NEW l \in Loaders, Load(l) PROVE LoadInv'
  BY <1>11 DEF Load, Loaded, ThreadsTypeOK
<1>12. CASE UNCHANGED vars
  BY <1>12 DEF vars, Settled, Undisturbed, At
<1>. HIDE DEF LifecycleInv, LifecycleTypeOK, LoadInv
<1>. QED
  BY <1>1, <1>2, <1>3, <1>4, <1>5, <1>6, <1>7, <1>8, <1>9, <1>10, <1>11, <1>12
  DEF Next, Unlock, EnableLock, Start, Maintain, RemoveCommand, Stop, Halt, Select,
      BeginLogin, Authorize, FinishLogin, LoginInstalled, Register, PromoteKeyring,
      ForgetPending, Continue, PromoteSalt, LoadEnds, LogoutCommand, Loaded, Connect,
      Disconnect, AskLogout, CancelLogout, ConfirmLogout, Removal, Leave, RemoveLocally,
      RemoveKey, RemoveRecord, RemoveFiles

\* Every step keeps the registry in agreement with the files.
LEMMA RegistryStep ==
  ASSUME LifecycleInv, [Next]_vars
  PROVE  RegistryMatchesFiles'
<1>. USE DEF LifecycleInv, LifecycleTypeOK, RegistryMatchesFiles, files, stored,
    settings, threads, choice, process, history
<1>1. CASE UNCHANGED <<database, registry, aside, unfinished, outlived>>
  BY <1>1
<1>2. CASE FinishLogin
  <2>1. CASE database[pendingDatabase.user] # Absent
    BY <1>1, <1>2, <2>1 DEF FinishLogin, Halt
  <2>2. CASE database[pendingDatabase.user] = Absent
    <3>1. PICK a : a = pendingDatabase.user
      OBVIOUS
    <3>2. /\ \A b \in Accounts : b # a => database'[b] = database[b]
          /\ unfinished' = unfinished \cup {a} /\ outlived \subseteq outlived'
          /\ UNCHANGED <<registry, aside>>
      BY <1>2, <2>2, <3>1 DEF FinishLogin, LoginInstalled, StoredTypeOK
    <3>. QED
      BY <3>2
  <2>. QED
    BY <2>1, <2>2
<1>3. CASE Register
  <2>1. /\ registry' = registry \cup {requested} /\ unfinished' = unfinished \ {requested}
        /\ UNCHANGED <<database, aside, outlived>>
    BY <1>3 DEF Register
  <2>2. requested \notin outlived => database[requested] # Absent
    BY <1>3 DEF Register, LoginInv, ProcessInv, Promoted
  <2>. QED
    BY <2>1, <2>2
<1>4. ASSUME NEW l \in Loaders, Convert(l) PROVE RegistryMatchesFiles'
  <2>1. PICK a \in Accounts : a = loader[l].account
    BY <1>4, ConvertEffect
  <2>2. /\ \A b \in Accounts : b # a => database'[b] = database[b] /\ aside'[b] = aside[b]
        /\ UNCHANGED <<registry, unfinished, outlived>>
    BY <1>4, <2>1, ConvertEffect DEF history
  <2>3. a \in unfinished \cup outlived \/ a \in registry
    BY <1>4, <2>1 DEF KeyInv, KeyOf, Convert, List, Check, Export, MoveAside, Install,
        DropPlaintext, At
  <2>4. a \notin unfinished \cup outlived => database'[a] # Absent \/ aside'[a] # Absent
    <3>. SUFFICES ASSUME a \notin unfinished \cup outlived
                  PROVE  database'[a] # Absent \/ aside'[a] # Absent
      OBVIOUS
    <3>1. database[a] # Absent \/ aside[a] # Absent
      BY <2>3
    <3>2. CASE List(l)
      BY <3>1, <3>2 DEF List
    <3>3. CASE Check(l)
      BY <2>1, <3>1, <3>3, Contents DEF Check
    <3>4. CASE Export(l)
      <4>1. [key |-> Plain, user |-> NoAccount] \in Database
        BY DEF Database, Names, Pending
      <4>. QED
        BY <2>1, <3>1, <3>4, <4>1, LifecycleAssumption, Contents DEF Export
    <3>5. CASE MoveAside(l)
      BY <2>1, <3>1, <3>5, Contents DEF MoveAside
    <3>6. CASE Install(l)
      BY <2>1, <3>1, <3>6, Contents DEF Install
    <3>7. CASE DropPlaintext(l)
      BY <2>1, <3>1, <3>7, Contents DEF DropPlaintext, PhaseInv, PhaseOf, After
    <3>. QED
      BY <1>4, <3>2, <3>3, <3>4, <3>5, <3>6, <3>7 DEF Convert
  <2>. QED
    BY <2>1, <2>2, <2>3, <2>4
<1>5. CASE RemoveKey
  BY <1>5 DEF RemoveKey
<1>6. CASE RemoveRecord
  <2>1. registry' = registry \ {target} /\ target \in unfinished
        /\ UNCHANGED <<database, aside, unfinished, outlived>>
    BY <1>6 DEF RemoveRecord, RemovalInv
  <2>. QED
    BY <2>1
<1>7. CASE RemoveFiles
  <2>1. /\ \A b \in Accounts : database'[b] = IF b = target THEN Absent ELSE database[b]
        /\ unfinished' = unfinished \ {target} /\ outlived \subseteq outlived'
        /\ target \notin registry
        /\ UNCHANGED <<registry, aside>>
    BY <1>7 DEF RemoveFiles, RemovalInv, StoredTypeOK
  <2>. QED
    BY <2>1
<1>. HIDE DEF LifecycleInv, LifecycleTypeOK, RegistryMatchesFiles
<1>. QED
  BY <1>1, <1>2, <1>3, <1>4, <1>5, <1>6, <1>7
  DEF Next, Unlock, vars, EnableLock, Start, Maintain, RemoveCommand, Stop, Halt,
      Select, UnlockOpen, Unlocked, Opening, UnlockStored, UnlockPending, UnlockLegacy,
      UnlockGenerated, BeginLogin, Authorize, Bootstrap, PromoteKeyring, ForgetPending,
      Continue, PromoteSalt, Spawn, Unseen, Load, Loaded, LoadEnds, LogoutCommand,
      Connect, Disconnect, AskLogout, CancelLogout, ConfirmLogout, Removal, Leave,
      RemoveLocally

\* No step moves a locked database aside.
LEMMA AsideStep ==
  ASSUME LifecycleInv, [Next]_vars
  PROVE  AsideInv'
<1>. USE DEF LifecycleInv, LifecycleTypeOK, files, stored, settings, threads, choice,
    process, history
<1>1. outlived \subseteq outlived'
  BY DEF Next, Unlock, vars, EnableLock, Start, Maintain, RemoveCommand, Stop, Halt,
      Select, UnlockOpen, Unlocked, Opening, UnlockStored, UnlockPending, UnlockLegacy,
      UnlockGenerated, BeginLogin, Authorize, FinishLogin, LoginInstalled, Register,
      Bootstrap, PromoteKeyring, ForgetPending, Continue, PromoteSalt, Spawn, Convert,
      Unseen, Load, Loaded, LoadEnds, LogoutCommand, Connect, Disconnect, AskLogout,
      CancelLogout, ConfirmLogout, Removal, Leave, RemoveLocally, RemoveKey,
      RemoveRecord, RemoveFiles
<1>2. CASE UNCHANGED aside
  BY <1>1, <1>2 DEF AsideInv
<1>3. ASSUME NEW l \in Loaders, Convert(l) PROVE AsideInv'
  <2>1. PICK a \in Accounts : a = loader[l].account
    BY <1>3, ConvertEffect
  <2>2. \A b \in Accounts : b # a => aside'[b] = aside[b]
    BY <1>3, <2>1, ConvertEffect
  <2>3. a \notin outlived => aside'[a] \in {aside[a], Absent} \/ aside'[a].key = Plain
    BY <1>3, <2>1, Contents DEF Convert, List, Check, Export, MoveAside, Install,
        DropPlaintext, PhaseInv, PhaseOf, Before
  <2>. QED
    BY <1>1, <2>1, <2>2, <2>3 DEF AsideInv
<1>. QED
  BY <1>2, <1>3 DEF Next, Unlock, vars, EnableLock, Start, Maintain, RemoveCommand,
      Stop, Halt, Select, UnlockOpen, Unlocked, Opening, UnlockStored, UnlockPending,
      UnlockLegacy, UnlockGenerated, BeginLogin, Authorize, FinishLogin, LoginInstalled,
      Register, Bootstrap, PromoteKeyring, ForgetPending, Continue, PromoteSalt, Spawn,
      Unseen, Load, Loaded, LoadEnds, LogoutCommand, Connect, Disconnect, AskLogout,
      CancelLogout, ConfirmLogout, Removal, Leave, RemoveLocally, RemoveKey,
      RemoveRecord, RemoveFiles

-----------------------------------------------------------------------------
LEMMA LifecycleInductive == LifecycleInv /\ [Next]_vars => LifecycleInv'
<1>. SUFFICES ASSUME LifecycleInv, [Next]_vars PROVE LifecycleInv'
  OBVIOUS
<1>1. LifecycleTypeOK'
  <2>1. FlagsTypeOK
    BY DEF LifecycleInv, LifecycleTypeOK
  <2>. QED
    BY <2>1, FlagsStep, ProcessStep, StoredStep, ThreadsStep, PendingStep DEF LifecycleTypeOK
<1>. QED
  BY <1>1, AccountStep, LoginStep, LoadStep, RemovalStep, KeyStep, PhaseStep, AsideStep,
     RegistryStep
  DEF LifecycleInv

LEMMA LifecycleInitially == Init => LifecycleInv
<1>. SUFFICES ASSUME Init PROVE LifecycleInv
  OBVIOUS
<1>. USE DEF Init, NoProcess
<1>1. PICK key \in {Plain, Legacy} :
         database = [a \in Accounts |->
            IF a \in registry THEN [key |-> key, user |-> a] ELSE Absent]
  OBVIOUS
<1>2. StoredTypeOK
  <2>1. \A a \in Accounts : [key |-> key, user |-> a] \in Database
    BY DEF Database, Names
  <2>. QED
    BY <1>1, <2>1 DEF StoredTypeOK, Names, Pending, NoKey
<1>3. ProcessTypeOK
  BY DEF ProcessTypeOK, Steps, Removing, Names, Pending
<1>4. \A l \in Loaders : loader[l] = Idle
  OBVIOUS
<1>5. ThreadsTypeOK
  <2>1. Idle \in [account : Names, key : {Plain, Legacy} \cup Keys, step : LoadSteps \cup {"idle"}]
    BY DEF Idle, Names, Pending
  <2>. QED
    BY <1>4, <2>1 DEF ThreadsTypeOK
<1>6. LifecycleTypeOK
  BY <1>2, <1>3, <1>5 DEF LifecycleTypeOK, FlagsTypeOK
<1>7. ProcessInv /\ LoginInv /\ LoadInv /\ RemovalInv
  BY DEF ProcessInv, LoginInv, LoadInv, RemovalInv, Removing
<1>8. KeyInv /\ PhaseInv
  BY <1>4 DEF KeyInv, KeyOf, Converting, PhaseInv, PhaseOf, At, Idle
<1>9. AsideInv /\ RegistryMatchesFiles
  <2>1. \A a \in registry : database[a] # Absent
    <3>1. \A a \in Accounts : [key |-> key, user |-> a] \in Database
      BY DEF Database, Names
    <3>. QED
      BY <1>1, <3>1, LifecycleAssumption
  <2>. QED
    BY <1>1, <2>1 DEF AsideInv, RegistryMatchesFiles
<1>. QED
  BY <1>6, <1>7, <1>8, <1>9 DEF LifecycleInv

LEMMA LifecycleInvariant == LifecycleSpec => []LifecycleInv
BY LifecycleInitially, LifecycleInductive, PTL DEF LifecycleSpec

\* The program, the files and the threads keep their types.
THEOREM LifecycleTypeCorrect == LifecycleSpec => []LifecycleTypeOK
<1>1. LifecycleInv => LifecycleTypeOK
  BY DEF LifecycleInv
<1>. QED
  BY LifecycleInvariant, <1>1, PTL

\* The registry and the files agree about every account, wherever the program
\* stops and whichever threads convert, but for accounts whose login or removal
\* was cut short or whose files were changed under a thread that loads them.
THEOREM RegistryMatchesFilesAlways == LifecycleSpec => []RegistryMatchesFiles
<1>1. LifecycleInv => RegistryMatchesFiles
  BY DEF LifecycleInv
<1>. QED
  BY LifecycleInvariant, <1>1, PTL

\* A database gives way to another one only when a conversion that failed puts
\* back what it moved aside.
LEMMA OverwriteStep ==
  ASSUME LifecycleInv, [Next]_vars, NEW a \in Accounts, a \notin outlived',
         database[a] # Absent, database'[a] \notin {Absent, database[a]}
  PROVE  database'[a] = aside[a]
<1>. USE DEF LifecycleInv, LifecycleTypeOK, files, stored, settings, threads, choice,
    process, history
<1>1. CASE UNCHANGED database
  BY <1>1
<1>2. CASE FinishLogin
  BY <1>2 DEF FinishLogin, LoginInstalled, StoredTypeOK
<1>3. ASSUME NEW l \in Loaders, Convert(l) PROVE database'[a] = aside[a]
  <2>1. a = loader[l].account /\ outlived' = outlived
    BY <1>3, ConvertEffect DEF history
  <2>2. CASE Check(l)
    BY <2>1, <2>2, Contents DEF Check
  <2>3. CASE Export(l)
    BY <2>1, <2>3, Contents DEF Export
  <2>4. CASE MoveAside(l)
    BY <2>1, <2>4, Contents DEF MoveAside
  <2>5. CASE Install(l)
    <3>1. encrypted[a] = Absent
      BY <2>1, <2>5, Contents DEF Install, PhaseInv, PhaseOf, Between, After
    <3>. QED
      BY <2>1, <2>5, <3>1, Contents DEF Install
  <2>6. CASE List(l) \/ DropPlaintext(l)
    BY <2>6 DEF List, DropPlaintext
  <2>. QED
    BY <1>3, <2>2, <2>3, <2>4, <2>5, <2>6 DEF Convert
<1>4. CASE RemoveFiles
  BY <1>4 DEF RemoveFiles, StoredTypeOK
<1>. HIDE DEF LifecycleInv, LifecycleTypeOK
<1>. QED
  BY <1>1, <1>2, <1>3, <1>4
  DEF Next, Unlock, vars, EnableLock, Start, Maintain, RemoveCommand, Stop, Halt,
      Select, UnlockOpen, Unlocked, Opening, UnlockStored, UnlockPending, UnlockLegacy,
      UnlockGenerated, BeginLogin, Authorize, Register, Bootstrap, PromoteKeyring,
      ForgetPending, Continue, PromoteSalt, Spawn, Unseen, Load, Loaded, LoadEnds,
      LogoutCommand, Connect, Disconnect, AskLogout, CancelLogout, ConfirmLogout,
      Removal, Leave, RemoveLocally, RemoveKey, RemoveRecord

\* No login and no conversion, of whichever thread, replaces a database that is
\* there; only a conversion that fails puts back the one it moved aside.
THEOREM LoginNeverOverwritesEver == LifecycleSpec => LoginNeverOverwrites
<1>1. LifecycleInv /\ [Next]_vars =>
         [\A a \in Accounts \ outlived' :
             database[a] # Absent /\ database'[a] \notin {Absent, database[a]} =>
                database'[a] = aside[a]]_vars
  BY OverwriteStep
<1>. QED
  BY LifecycleInvariant, <1>1, PTL DEF LifecycleSpec, LoginNeverOverwrites

\* A conversion encrypts with the key that is stored for its account.
LEMMA KeysConvert ==
  ASSUME LifecycleInv, NEW l \in Loaders, Convert(l),
         NEW a \in registry, a \notin unfinished, a \notin outlived, Kept(a)
  PROVE  Kept(a)'
<1>. USE DEF LifecycleInv, LifecycleTypeOK
<1>1. a \in Accounts /\ UNCHANGED <<vault, outlived>>
  BY ConvertEffect DEF StoredTypeOK, history
<1>2. CASE loader[l].account # a
  BY <1>1, <1>2, ConvertEffect DEF Kept, Holder
<1>3. CASE loader[l].account = a
  <2>1. CASE UNCHANGED <<database, encrypted>>
    BY <1>1, <2>1 DEF Kept, Holder
  <2>2. CASE Check(l)
    BY <1>1, <1>3, <2>2, Contents DEF Check, Kept, Holder, files
  <2>3. CASE Export(l)
    <3>1. database[a] # Absent => database'[a] = database[a]
      BY <1>1, <1>3, <2>3, Contents DEF Export, files
    <3>2. [key |-> Plain, user |-> NoAccount] \in Database
      BY DEF Database, Names, Pending
    <3>3. database[a] = Absent =>
             UNCHANGED <<database, encrypted>> \/ database'[a] = [key |-> Plain, user |-> NoAccount]
      BY <1>1, <1>3, <2>3, Contents DEF Export, files
    <3>4. database[a] = Absent => \/ UNCHANGED <<database, encrypted>>
                                  \/ database'[a] # Absent /\ database'[a].key = Plain
      BY <3>2, <3>3, LifecycleAssumption
    <3>. QED
      BY <1>1, <2>1, <3>1, <3>4 DEF Kept, Holder
  <2>4. CASE MoveAside(l)
    <3>1. CASE UNCHANGED <<database, encrypted>>
      BY <2>1, <3>1
    <3>2. CASE database'[a] = Absent /\ encrypted'[a] = encrypted[a]
      <4>1. encrypted[a] # Absent /\ encrypted[a].key = loader[l].key
        BY <1>3, <2>4 DEF MoveAside, PhaseInv, PhaseOf
      <4>2. loader[l].key \in {vault[a], vault[Pending], Plain, Legacy}
        <5>1. CASE command = "none"
          <6>1. Stable(a)
            BY DEF RemovalInv, Stable
          <6>. QED
            BY <1>3, <2>4, <5>1, <6>1 DEF MoveAside, At, KeyInv, KeyOf, Converting
        <5>2. CASE command # "none"
          BY <1>3, <2>4, <5>2, LifecycleAssumption
          DEF MoveAside, At, KeyInv, KeyOf, LoadInv, ThreadsTypeOK
        <5>. QED
          BY <5>1, <5>2
      <4>. QED
        BY <1>1, <3>2, <4>1, <4>2 DEF Kept, Holder
    <3>. QED
      BY <1>1, <1>3, <2>4, <3>1, <3>2, Contents DEF MoveAside, files
  <2>5. CASE Install(l)
    <3>1. CASE encrypted[a] = Absent
      <4>1. /\ database'[a] = database[a] \/ (aside[a] # Absent /\ database'[a] = aside[a])
            /\ encrypted'[a] = encrypted[a]
        BY <1>1, <1>3, <2>5, <3>1, Contents DEF Install
      <4>2. aside[a] # Absent => aside[a].key = Plain
        BY <1>1 DEF AsideInv
      <4>. QED
        BY <1>1, <4>1, <4>2 DEF Kept, Holder
    <3>2. CASE encrypted[a] # Absent
      <4>1. database[a] = Absent
        BY <1>3, <2>5, <3>2 DEF Install, PhaseInv, PhaseOf, Between, After
      <4>2. database'[a] = encrypted[a]
        BY <1>1, <1>3, <2>5, <3>2, Contents DEF Install
      <4>. QED
        BY <1>1, <3>2, <4>1, <4>2 DEF Kept, Holder
    <3>. QED
      BY <3>1, <3>2
  <2>6. CASE List(l) \/ DropPlaintext(l)
    BY <2>1, <2>6 DEF List, DropPlaintext, files
  <2>. QED
    BY <2>2, <2>3, <2>4, <2>5, <2>6 DEF Convert
<1>. QED
  BY <1>2, <1>3

\* No step loses the key of an account that is not being removed.
LEMMA KeysStep ==
  ASSUME LifecycleInv, [Next]_vars,
         NEW a \in registry', a \notin unfinished', a \notin outlived', Kept(a)
  PROVE  Kept(a)' \/ \E b \in Accounts \ {a} : vault'[b] = Holder(a).key
<1>. DEFINE Goal == Kept(a)' \/ \E b \in Accounts \ {a} : vault'[b] = Holder(a).key
<1>. USE DEF LifecycleInv, LifecycleTypeOK, files, stored, settings, threads, choice,
    process, history
<1>. SUFFICES Goal
  OBVIOUS
<1>1. CASE UNCHANGED <<database, encrypted, vault>>
  BY <1>1 DEF Kept, Holder
<1>2. CASE UnlockGenerated
  <2>1. /\ vault[current] = NoKey /\ UNCHANGED <<database, encrypted>>
        /\ \A n \in Names : n # current => vault'[n] = vault[n]
    BY <1>2 DEF UnlockGenerated, Unlocked, StoredTypeOK
  <2>2. a \in Accounts
    BY <1>2 DEF UnlockGenerated, Unlocked, StoredTypeOK
  <2>3. Holder(a) # Absent => Holder(a).key # NoKey
    BY <2>2, Contents, KeyFacts DEF Holder
  <2>. QED
    BY <2>1, <2>2, <2>3 DEF Kept, Holder, Names, Pending
<1>3. CASE FinishLogin
  <2>1. CASE database[pendingDatabase.user] # Absent
    BY <1>1, <1>3, <2>1 DEF FinishLogin, Halt
  <2>2. CASE database[pendingDatabase.user] = Absent
    <3>1. PICK u : u = pendingDatabase.user
      OBVIOUS
    <3>2. /\ \A b \in Accounts : b # u => database'[b] = database[b]
          /\ u \in unfinished' /\ UNCHANGED <<registry, encrypted, vault>>
      BY <1>3, <2>2, <3>1 DEF FinishLogin, LoginInstalled, StoredTypeOK
    <3>3. a \in Accounts /\ a # u
      BY <3>2 DEF StoredTypeOK
    <3>. QED
      BY <3>2, <3>3 DEF Kept, Holder
  <2>. QED
    BY <2>1, <2>2
<1>4. CASE PromoteKeyring \/ ForgetPending \/ PromoteSalt
  <2>1. CASE UNCHANGED <<database, encrypted, vault>>
    BY <1>1, <2>1
  <2>2. CASE ~UNCHANGED <<database, encrypted, vault>>
    <3>1. PICK p : p = Promoted
      OBVIOUS
    <3>2. /\ a \in Accounts /\ p \in Accounts
          /\ UNCHANGED <<database, encrypted, outlived>>
          /\ \A n \in Accounts : n # p => vault'[n] = vault[n]
          /\ vault'[p] = cipher /\ vault[Pending] = cipher
          /\ vault'[Pending] \in {vault[Pending], NoKey}
      <4>1. a \in Accounts /\ p \in Accounts
        BY <1>4, <3>1 DEF PromoteKeyring, ForgetPending, PromoteSalt, LoginInv, Promoted,
            StoredTypeOK, ProcessTypeOK, Names, Pending
      <4>2. vault[Pending] = cipher
        BY <1>4 DEF PromoteKeyring, ForgetPending, PromoteSalt, LoginInv, FlagsTypeOK
      <4>3. CASE PromoteKeyring
        BY <3>1, <4>1, <4>2, <4>3, Contents DEF PromoteKeyring, Names, Pending
      <4>4. CASE ForgetPending
        BY <3>1, <4>1, <4>2, <4>4, Contents DEF ForgetPending, LoginInv, Names, Pending
      <4>5. CASE PromoteSalt
        BY <2>2, <3>1, <4>1, <4>2, <4>5, Contents DEF PromoteSalt, Halt, Names, Pending
      <4>. QED
        BY <1>4, <4>1, <4>2, <4>3, <4>4, <4>5
    <3>3. a = p => database[a] # Absent /\ database[a].key = cipher
      BY <1>4, <3>1, <3>2 DEF PromoteKeyring, ForgetPending, PromoteSalt, LoginInv
    <3>4. CASE a = p
      BY <3>2, <3>3, <3>4 DEF Kept, Holder
    <3>5. CASE a # p
      BY <3>2, <3>5 DEF Kept, Holder
    <3>. QED
      BY <3>4, <3>5
  <2>. QED
    BY <2>1, <2>2
<1>5. ASSUME NEW l \in Loaders, Convert(l) PROVE Goal
  BY <1>5, KeysConvert, ConvertEffect
<1>6. CASE RemoveKey
  <2>1. /\ \A n \in Names : n # target => vault'[n] = vault[n]
        /\ unfinished' = unfinished \cup {target}
        /\ target \in Accounts /\ UNCHANGED <<registry, database, encrypted>>
    BY <1>6 DEF RemoveKey, StoredTypeOK, ProcessTypeOK, Removing, Names, Pending
  <2>2. a \in Accounts /\ a # target
    BY <2>1 DEF StoredTypeOK
  <2>. QED
    BY <2>1, <2>2 DEF Kept, Holder, Names, Pending
<1>7. CASE RemoveFiles
  <2>1. /\ \A b \in Accounts : b # target => database'[b] = database[b]
        /\ target \notin registry /\ UNCHANGED <<registry, encrypted, vault>>
    BY <1>7 DEF RemoveFiles, RemovalInv, StoredTypeOK
  <2>2. a \in Accounts /\ a # target
    BY <2>1 DEF StoredTypeOK
  <2>. QED
    BY <2>1, <2>2 DEF Kept, Holder
<1>. HIDE DEF LifecycleInv, LifecycleTypeOK, Goal
<1>. QED
  BY <1>1, <1>2, <1>3, <1>4, <1>5, <1>6, <1>7
  DEF Next, Unlock, vars, EnableLock, Start, Maintain, RemoveCommand, Stop, Halt,
      Select, UnlockOpen, Unlocked, Opening, UnlockStored, UnlockPending, UnlockLegacy,
      BeginLogin, Authorize, Register, Bootstrap, Spawn, Unseen, Load, Loaded, LoadEnds,
      LogoutCommand, Connect, Disconnect, AskLogout, CancelLogout, ConfirmLogout,
      Removal, Leave, RemoveLocally, RemoveRecord

\* The key of a registered account is lost by no step of a login, a promotion or
\* a conversion, on whichever thread, unless a second account was added with
\* the key that is still pending.
THEOREM KeysKeptAlways == LifecycleSpec => KeysKept
<1>1. LifecycleInv /\ [Next]_vars =>
         [\A a \in registry' \ (unfinished' \cup outlived') :
             Kept(a) =>
                Kept(a)' \/ \E b \in Accounts \ {a} : vault'[b] = Holder(a).key]_vars
  BY KeysStep
<1>. QED
  BY LifecycleInvariant, <1>1, PTL DEF LifecycleSpec, KeysKept
=============================================================================
