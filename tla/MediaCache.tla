------------------------------- MODULE MediaCache -------------------------------
(***************************************************************************)
(* The cache of redownloadable media of one account, the pictures and kept *)
(* originals that go through it, and the policy that keeps the media of a  *)
(* chat (crates/intuigram-media/src/cache/,                                *)
(* crates/intuigram-app/src/actor_session/local_effect/).                  *)
(*                                                                         *)
(* The cache is a directory and nothing else: no lock and no index.  Every *)
(* effect runs its file operations on a thread of its own, one operation   *)
(* at a time here, so the operations of several effects interleave.  A     *)
(* file that lacks bytes is cut: it is being rewritten, or its rewriting   *)
(* was interrupted, or wrote back what was read while it was cut.  An      *)
(* entry is one unit long, or none while it is cut.  The times of the      *)
(* files, by which eviction sorts them, are left out: it takes any order.  *)
(***************************************************************************)
EXTENDS Integers, FiniteSets

CONSTANTS Avatars,    \* pictures without an original in the cache
          Messages,   \* of one chat, each with a picture and an original
          Workers,    \* the effects that run at once
          Limit,      \* MediaCache.limit, in entries
          Nothing

ASSUME CacheAssumption ==
    /\ Avatars \cap Messages = {} /\ Nothing \notin Avatars \cup Messages
    /\ Limit \in Nat

Pictures == Avatars \cup Messages

\* CacheKind, and the namespace of the owner that eviction does not scan.
OrdinaryDirs == {"media", "thumbnails"}
KeptDirs == {"kept media", "kept thumbnails"}
Unkept == [d \in KeptDirs |-> IF d = "kept media" THEN "media" ELSE "thumbnails"]

\* A file: its directory, its key and its extension.
Locations == (OrdinaryDirs \cup KeptDirs) \X Pictures \X {"cache", "partial"}

ASSUME NoFileAssumption == Nothing \notin Locations

VARIABLES files,     \* the files there are
          cut,       \* the files whose bytes are not all there
          damaged,   \* of them: last truncated by who had read it cut, or before a stop
          dirs,      \* the directories of kept files that exist
          job,       \* what each worker does
          kept,      \* the stored policy of the chat
          keeping,   \* App.offline_media holds the chat
          reported,  \* the messages MediaCachedOffline promised to keep
          lost,      \* of them: moved by a release that failed
          ended,     \* an error of the cache has ended the application
          loose      \* since the last eviction began: what excuses a cache over its bound

fileVars   == <<files, cut, damaged, dirs>>
policyVars == <<kept, keeping, reported, lost>>
cacheVars  == <<fileVars, policyVars, job, ended, loose>>

Idle == [task |-> "none", key |-> Nothing, dir |-> "media", at |-> "idle", seen |-> "nothing",
         open |-> Nothing, hand |-> Nothing, list |-> {}, bytes |-> 0, awaited |-> FALSE,
         overtaken |-> FALSE]  \* a release runs or ran since it began

CacheInit ==
    /\ files = {} /\ cut = {} /\ damaged = {} /\ dirs = {}
    /\ job = [w \in Workers |-> Idle]
    /\ kept = FALSE /\ keeping = FALSE /\ reported = {} /\ lost = {}
    /\ ended = FALSE /\ loose = FALSE

-------------------------------------------------------------------------------
(* Files.  A worker that has a file open follows it when it is renamed.    *)

Exists(file) == file \in files
Entry(file) == file[3] = "cache"
File(w, extension) == <<job[w].dir, job[w].key, extension>>
Original(m) == <<"kept media", m, "cache">>

\* How the jobs of the other workers see file go, or move to another name.
Closed(j, file)   == IF j.open = file THEN [j EXCEPT !.open = Nothing] ELSE j
Moved(j, from, to) == IF j.open = from THEN [j EXCEPT !.open = to] ELSE Closed(j, to)

\* The steps below say what becomes of the files, and the job of w, next.
Becomes(w, next) == job' = [job EXCEPT ![w] = next]

\* What an open worker writes: the media, or what it has read.
Writes(j) == IF j.at = "write" THEN "whole" ELSE j.seen

\* File::create truncates a file or makes it.
Create(w, file, next) ==
    /\ files' = files \cup {file} /\ cut' = cut \cup {file}
    /\ damaged' = IF Writes(next) = "whole" THEN damaged ELSE damaged \cup {file}
    /\ Becomes(w, [next EXCEPT !.open = file])

\* The bytes are written to the file that was opened, wherever it is now.  A
\* part of them adds nothing to a file that has them, and completes no other.
Fill(w, next) ==
    LET file == job[w].open
    IN  /\ files' = files
        /\ IF Writes(job[w]) = "whole" THEN cut' = cut \ {file} /\ damaged' = damaged \ {file}
                                       ELSE UNCHANGED <<cut, damaged>>
        /\ loose' = (loose \/ (file # Nothing /\ file[1] \in OrdinaryDirs /\ Entry(file)))
        /\ Becomes(w, [next EXCEPT !.open = Nothing])

Unlink(w, file, next) ==
    /\ files' = files \ {file} /\ cut' = cut \ {file} /\ damaged' = damaged \ {file}
    /\ job' = [v \in Workers |-> IF v = w THEN next ELSE Closed(job[v], file)]

\* What a set of files becomes when from is renamed to to.
Renamed(set, from, to) == (set \ {from, to}) \cup (IF from \in set THEN {to} ELSE {})

Rename(w, from, to, next) ==
    /\ files' = Renamed(files, from, to) /\ cut' = Renamed(cut, from, to)
    /\ damaged' = Renamed(damaged, from, to)
    /\ job' = [v \in Workers |-> IF v = w THEN next ELSE Moved(job[v], from, to)]

-------------------------------------------------------------------------------
(* The end of an effect.                                                   *)

\* An error of the cache is no connection failure: the runtime quits.  The
\* release of a chat reports its own, and stores the old policy again, but
\* what it has moved does not come back.
Fail(w) ==
    /\ Becomes(w, Idle) /\ loose' = TRUE
    /\ IF job[w].task = "release"
       THEN /\ kept' = TRUE /\ lost' = lost \cup {m \in reported : ~Exists(Original(m))}
            /\ UNCHANGED ended
       ELSE ended' = (ended \/ job[w].awaited) /\ UNCHANGED <<kept, lost>>
    /\ UNCHANGED <<fileVars, keeping, reported>>

\* MediaCachedOffline.  What a release overlaps promises nothing.
Report(w) == IF job[w].overtaken THEN UNCHANGED <<reported, lost>>
             ELSE reported' = reported \cup {job[w].key} /\ lost' = lost \ {job[w].key}

\* The policy is off, and with it what was promised.
Withdrawn == keeping' = FALSE /\ reported' = {} /\ lost' = {}

Leaves == UNCHANGED <<dirs, kept, keeping, ended>>

-------------------------------------------------------------------------------
(* Effects.  The reducer asks for a picture once at a time, and for one    *)
(* original to keep at a time.                                             *)

Begun(task, key, dir, at) ==
    [Idle EXCEPT !.task = task, !.key = key, !.dir = dir, !.at = at, !.awaited = TRUE]

Overtaken(j) == IF j.task = "keep" THEN [j EXCEPT !.overtaken = TRUE] ELSE j

Running(task) == {v \in Workers : job[v].task = task /\ job[v].awaited}

Ready(w) == job[w].at = "idle" /\ ~ended
            /\ UNCHANGED <<fileVars, ended, loose>>

\* LoadAvatar and LoadMediaPreview.
Show(w, k) == /\ Ready(w) /\ \A v \in Running("show") : job[v].key # k
              /\ Becomes(w, Begun("show", k, "thumbnails", "read")) /\ UNCHANGED policyVars

\* CacheMediaOffline.
Keep(w, m) == /\ Ready(w) /\ keeping /\ Running("keep") = {}
              /\ Becomes(w, [Begun("keep", m, "kept media", "read") EXCEPT !.overtaken = ~kept])
              /\ UNCHANGED policyVars

\* SetChatMediaOffline, off and on.
Release(w) == /\ Ready(w) /\ keeping /\ Running("release") = {}
              /\ kept' = FALSE /\ UNCHANGED <<keeping, reported, lost>>
              /\ job' = [v \in Workers |-> IF v = w THEN Begun("release", Nothing, "kept media", "list")
                                            ELSE Overtaken(job[v])]

KeepChat == /\ ~keeping /\ ~ended /\ Running("release") = {}
            /\ kept' = TRUE /\ keeping' = TRUE /\ UNCHANGED <<reported, lost>>
            /\ UNCHANGED <<fileVars, job, ended, loose>>

\* Navigation cancels the pictures of the previous view.  What runs on a
\* thread goes on to its end, and nobody hears of it.
Cancel(w) == /\ job[w].task = "show" /\ job[w].awaited
             /\ Becomes(w, IF job[w].at = "telegram" THEN Idle ELSE [job[w] EXCEPT !.awaited = FALSE])
             /\ UNCHANGED <<fileVars, policyVars, ended, loose>>

-------------------------------------------------------------------------------
(* get and get_retained.                                                   *)

\* decode: an empty file is no media, and a picture that lacks bytes is no
\* picture, but an original that lacks bytes may pass for one.
Decoded(w, seen) == IF seen = "cut" /\ job[w].task = "keep"
                    THEN {"cut", "nothing"} ELSE {IF seen = "cut" THEN "nothing" ELSE seen}

\* What follows a read in cached_preview, cached_avatar and execute.
AfterRead(w, got) ==
    LET j == [job[w] EXCEPT !.seen = "nothing"]
        telegram == IF j.awaited THEN [j EXCEPT !.at = "telegram"] ELSE Idle
    IN  CASE j.task = "show" /\ got = "whole" ->
                 IF j.dir = "thumbnails" THEN Idle
                 ELSE [j EXCEPT !.dir = "kept thumbnails", !.at = "create"]
          [] j.task = "show" /\ got # "whole" /\ j.dir = "thumbnails" /\ j.key \in Messages /\ j.awaited ->
                 [j EXCEPT !.dir = "kept media", !.at = "read"]
          [] j.task = "keep" /\ got # "nothing" -> Idle
          [] OTHER -> telegram

Promised(w, got) == IF job[w].task = "keep" /\ got # "nothing" THEN Report(w) ELSE UNCHANGED <<reported, lost>>

Read(w) ==
    /\ job[w].at = "read"
    /\ IF Exists(File(w, "cache"))
       THEN Becomes(w, [job[w] EXCEPT !.seen = IF File(w, "cache") \in cut THEN "cut" ELSE "whole",
                                      !.at = "touch"])
       ELSE Becomes(w, AfterRead(w, "nothing"))
    /\ Leaves /\ UNCHANGED <<files, cut, damaged, reported, lost, loose>>

\* The bytes are written back, for the time of the file: an entry that was
\* evicted meanwhile is made again.
Touch(w) ==
    /\ job[w].at = "touch" /\ job[w].dir \in OrdinaryDirs \cup dirs
    /\ Create(w, File(w, "cache"), [job[w] EXCEPT !.at = "fill"])
    /\ Leaves /\ UNCHANGED <<reported, lost, loose>>

TouchFails(w) == job[w].at = "touch" /\ job[w].dir \in KeptDirs \ dirs /\ Fail(w)

Refill(w) ==
    /\ job[w].at = "fill"
    /\ \E got \in Decoded(w, job[w].seen) : Fill(w, AfterRead(w, got)) /\ Promised(w, got)
    /\ Leaves

-------------------------------------------------------------------------------
(* Telegram, put and put_retained.                                         *)

\* The media arrive, or there are none, or the connection is lost.
Telegram(w) ==
    /\ job[w].at = "telegram"
    /\ \/ Becomes(w, Idle)
       \/ Becomes(w, [job[w] EXCEPT !.at = "create",
                         !.dir = IF job[w].task = "show" THEN "thumbnails" ELSE "kept media"])
    /\ Leaves /\ UNCHANGED <<files, cut, damaged, reported, lost, loose>>

\* write_path: the directory, a partial file beside the entry, and a rename
\* over the entry.
MakeDirectory(w) ==
    /\ job[w].at = "create" /\ dirs' = dirs \cup ({job[w].dir} \cap KeptDirs)
    /\ Becomes(w, [job[w] EXCEPT !.at = "partial"])
    /\ UNCHANGED <<files, cut, damaged, policyVars, ended, loose>>

CreatePartial(w) ==
    /\ job[w].at = "partial" /\ job[w].dir \in OrdinaryDirs \cup dirs
    /\ Create(w, File(w, "partial"), [job[w] EXCEPT !.at = "write"])
    /\ Leaves /\ UNCHANGED <<reported, lost, loose>>

CreateFails(w) == job[w].at = "partial" /\ job[w].dir \in KeptDirs \ dirs /\ Fail(w)

\* A mutated form of the next definition, for checking the properties.
WriteNothing(w) == /\ job[w].at = "write"
                   /\ Becomes(w, [job[w] EXCEPT !.at = "install", !.open = Nothing])
                   /\ Leaves /\ UNCHANGED <<files, cut, damaged, reported, lost, loose>>

WritePartial(w) == /\ job[w].at = "write" /\ Fill(w, [job[w] EXCEPT !.at = "install"])
                   /\ Leaves /\ UNCHANGED <<reported, lost>>

\* The next of an entry that is stored: an ordinary one is followed by an
\* eviction, a kept original by its picture, if it has one.
Stored(w) == CASE job[w].dir = "thumbnails" -> {[job[w] EXCEPT !.at = "scan"]}
               [] job[w].dir = "kept media" -> {[job[w] EXCEPT !.dir = "kept thumbnails", !.at = "create"], Idle}
               [] OTHER -> {Idle}

Install(w) ==
    /\ job[w].at = "install" /\ Exists(File(w, "partial"))
    /\ \E next \in Stored(w) :
          /\ Rename(w, File(w, "partial"), File(w, "cache"), next)
          /\ IF job[w].task = "keep" /\ next = Idle THEN Report(w) ELSE UNCHANGED <<reported, lost>>
    /\ Leaves /\ UNCHANGED loose

InstallFails(w) == job[w].at = "install" /\ ~Exists(File(w, "partial")) /\ Fail(w)

-------------------------------------------------------------------------------
(* enforce_limit.                                                          *)

Entries(inDirs) == {f \in files : f[1] \in inDirs /\ Entry(f)}

\* Mutated forms of the next definition, for checking the properties.
ScanAll == Entries(OrdinaryDirs \cup KeptDirs)
ScanThumbnails == Entries({"thumbnails"})

\* entries: the kept ones are not listed.
Listed == Entries(OrdinaryDirs)

Scan(w) ==
    /\ job[w].at = "scan" /\ loose' = FALSE
    /\ Becomes(w, [job[w] EXCEPT !.at = "evict", !.bytes = Cardinality(Listed \ cut),
                                 !.list = {<<f, IF f \in cut THEN 0 ELSE 1>> : f \in Listed}])
    /\ UNCHANGED <<fileVars, policyVars, ended>>

Evicting(w) == job[w].at = "evict" /\ job[w].bytes > Limit /\ job[w].list # {}

Evict(w) ==
    /\ Evicting(w)
    /\ \E entry \in job[w].list :
          /\ Exists(entry[1])
          /\ Unlink(w, entry[1], [job[w] EXCEPT !.list = @ \ {entry}, !.bytes = @ - entry[2]])
    /\ Leaves /\ UNCHANGED <<reported, lost, loose>>

\* Another eviction has removed the entry.
EvictFails(w) == Evicting(w) /\ (\E entry \in job[w].list : ~Exists(entry[1])) /\ Fail(w)

Evicted(w) ==
    /\ job[w].at = "evict" /\ ~Evicting(w) /\ Becomes(w, Idle)
    /\ IF job[w].task = "release" THEN Withdrawn ELSE UNCHANGED <<keeping, reported, lost>>
    /\ UNCHANGED <<fileVars, kept, ended, loose>>

-------------------------------------------------------------------------------
(* release: one directory of the chat after the other.  A directory that   *)
(* is being read may show what is put there meanwhile, or not.             *)

InKept(w) == {f \in files : f[1] = job[w].dir}
Destination(file) == <<Unkept[file[1]], file[2], file[3]>>

After(w) == IF job[w].dir = "kept media" THEN [job[w] EXCEPT !.dir = "kept thumbnails", !.at = "list"]
            ELSE [job[w] EXCEPT !.at = "scan"]

ListKept(w) ==
    /\ job[w].at = "list"
    /\ Becomes(w, IF job[w].dir \in dirs THEN [job[w] EXCEPT !.at = "look", !.list = InKept(w)] ELSE After(w))
    /\ UNCHANGED <<fileVars, policyVars, ended, loose>>

\* source.is_file, for a file whatever its extension.
LookKept(w) ==
    /\ job[w].at = "look"
    /\ \E file \in job[w].list \cup InKept(w) :
       LET next == [job[w] EXCEPT !.list = @ \ {file}]
       IN  Becomes(w, IF Exists(file) THEN [next EXCEPT !.at = "compare", !.hand = file] ELSE next)
    /\ UNCHANGED <<fileVars, policyVars, ended, loose>>

\* destination.is_file.
LookOrdinary(w) ==
    /\ job[w].at = "compare"
    /\ Becomes(w, [job[w] EXCEPT !.at = IF Exists(Destination(job[w].hand)) THEN "drop" ELSE "move"])
    /\ UNCHANGED <<fileVars, policyVars, ended, loose>>

\* The file goes, or moves to the ordinary directory, over one of its name
\* that has come there since.
MoveKept(w) ==
    LET file == job[w].hand
        next == [job[w] EXCEPT !.at = "look", !.hand = Nothing]
    IN  /\ job[w].at \in {"drop", "move"} /\ Exists(file)
        /\ IF job[w].at = "drop" THEN Unlink(w, file, next) ELSE Rename(w, file, Destination(file), next)
        /\ Leaves /\ UNCHANGED <<reported, lost, loose>>

\* A store has renamed the file meanwhile.
MoveFails(w) == job[w].at \in {"drop", "move"} /\ ~Exists(job[w].hand) /\ Fail(w)

\* remove_dir_all, of what was put there since.
ClearKept(w) ==
    /\ job[w].at = "look" /\ job[w].list = {}
    /\ Becomes(w, [job[w] EXCEPT !.at = "clear", !.list = InKept(w)])
    /\ UNCHANGED <<fileVars, policyVars, ended, loose>>

UnlinkKept(w) ==
    /\ job[w].at = "clear"
    /\ \E file \in job[w].list \cup InKept(w) : Unlink(w, file, [job[w] EXCEPT !.list = @ \ {file}])
    /\ Leaves /\ UNCHANGED <<reported, lost, loose>>

RemoveKept(w) ==
    /\ job[w].at = "clear" /\ job[w].list = {} /\ InKept(w) = {}
    /\ Becomes(w, After(w)) /\ dirs' = dirs \ {job[w].dir}
    /\ UNCHANGED <<files, cut, damaged, policyVars, ended, loose>>

\* A store has put a file there since the directory was read.
RemoveFails(w) == job[w].at = "clear" /\ job[w].list = {} /\ InKept(w) # {} /\ Fail(w)

-------------------------------------------------------------------------------
(* The process stops, and starts again with the entries on disk.  A        *)
(* partial file that is left behind is left out: nothing reads it, and it  *)
(* is truncated before it is renamed.                                      *)

Stop == /\ job' = [w \in Workers |-> Idle] /\ ended' = FALSE /\ loose' = TRUE
        /\ files' = {f \in files : Entry(f)} /\ cut' = {f \in cut : Entry(f)} /\ damaged' = cut'
        /\ IF kept THEN keeping' = TRUE /\ UNCHANGED <<reported, lost>> ELSE Withdrawn
        /\ UNCHANGED <<dirs, kept>>

Effect(w) == \/ \E k \in Pictures : Show(w, k)
             \/ \E m \in Messages : Keep(w, m)
             \/ Release(w) \/ Cancel(w)

Step(w) == \/ Read(w) \/ Touch(w) \/ TouchFails(w) \/ Refill(w) \/ Telegram(w)
           \/ MakeDirectory(w) \/ CreatePartial(w) \/ CreateFails(w) \/ WritePartial(w)
           \/ Install(w) \/ InstallFails(w)
           \/ Scan(w) \/ Evict(w) \/ EvictFails(w) \/ Evicted(w)
           \/ ListKept(w) \/ LookKept(w) \/ LookOrdinary(w) \/ MoveKept(w) \/ MoveFails(w)
           \/ ClearKept(w) \/ UnlinkKept(w) \/ RemoveKept(w) \/ RemoveFails(w)

CacheNext == (\E w \in Workers : Effect(w) \/ Step(w)) \/ KeepChat \/ Stop

CacheSpec == CacheInit /\ [][CacheNext]_cacheVars

-------------------------------------------------------------------------------
\* The shape of the cache's state: a kept file has a directory.
CacheTypeOK ==
    /\ files \subseteq Locations /\ cut \subseteq files /\ damaged \subseteq cut
    /\ \A f \in files : f[1] \in OrdinaryDirs \cup dirs
    /\ reported \subseteq Messages /\ lost \subseteq reported

\* A file has its bytes, or the effect that has it open is about to write all
\* of them.
Intact(f) == f \notin cut \/ \E w \in Workers : job[w].open = f /\ Writes(job[w]) = "whole"

\* While a chat is kept, a message reported as kept stays on disk with its
\* bytes, whatever is shown, stored, evicted and stopped, and through a release
\* that fails.  The excuses are two: the release had moved the original before
\* it failed, or the bytes were damaged by overlapping reads or a stop
\* (offline_media.rs retain, cache/mod.rs put_retained, entries and release).
KeptThere ==
    kept => \A m \in reported \ lost :
        Exists(Original(m)) /\ (Intact(Original(m)) \/ Original(m) \in damaged)

\* No entry is left without its bytes by effects that overlap, fail or are
\* cancelled, except by one that wrote back what it had read of a cut entry,
\* or was stopped: whoever truncated it is about to write all of them, under
\* whatever name the file has by then (cache/mod.rs read_path, write_path).
NothingLeftCut == \A f \in files : Entry(f) => Intact(f) \/ f \in damaged

\* What the code does not keep: two reads of one entry, the second while the
\* first has it truncated, leave it empty, and so does a stop.
EntriesStayWhole == \A f \in files : Entry(f) => Intact(f)

\* When no effect runs, the entries that can be evicted fit the limit, unless
\* one was written back, or an effect failed, since the last eviction began:
\* concurrent stores and releases leave no more (cache/mod.rs put, release).
BoundedWhenQuiet ==
    (~loose /\ \A w \in Workers : job[w].at = "idle") =>
        Cardinality(Entries(OrdinaryDirs) \ cut) <= Limit
=================================================================================
