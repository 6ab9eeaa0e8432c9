---------------------------- MODULE MediaCacheProofs ----------------------------
(* For any pictures, messages and workers, any limit and any number of stops: *)
(* what was promised is on disk (KeptThere), no entry is left without its     *)
(* bytes (NothingLeftCut), and the cache is within its limit when it is quiet *)
(* (BoundedWhenQuiet).                                                        *)
EXTENDS MediaCache, FiniteSetTheorems, TLAPS

\* The places of an effect that reads and stores media, and of a release.
Fetching == {"read", "touch", "fill", "telegram", "create", "partial", "write", "install"}
Moving == {"look", "compare", "drop", "move", "clear"}
Releasing == {"list"} \cup Moving
Places == {"idle", "scan", "evict"} \cup Fetching \cup Releasing

\* What is listed: files to move, or entries with their sizes.
Listing == Locations \cup (Locations \X {0, 1})

JobRecord == [task : {"none", "show", "keep", "release"}, key : Pictures \cup {Nothing},
              dir : OrdinaryDirs \cup KeptDirs, at : Places, seen : {"nothing", "cut", "whole"},
              open : Locations \cup {Nothing}, hand : Locations \cup {Nothing},
              list : SUBSET Listing, bytes : Int, awaited : BOOLEAN, overtaken : BOOLEAN]

Ones(list) == { e \in list : e[2] = 1 }

\* What each place in an effect supposes of it.
JobOK(j) ==
    /\ j \in JobRecord
    /\ j.at = "idle" => j = Idle
    /\ j.at \in Fetching => j.task \in {"show", "keep"} /\ j.key \in Pictures /\ j.dir # "media"
    /\ j.at \in Releasing => j.task = "release" /\ j.dir \in KeptDirs
    /\ j.task = "release" => j.awaited
    /\ j.task = "keep" => /\ j.key \in Messages /\ j.dir \in KeptDirs
                          /\ j.at \in {"read", "touch", "fill"} => j.dir = "kept media"
    /\ j.open # Nothing => j.at \in {"fill", "write"}
    /\ j.at \in Moving => j.list \subseteq Locations /\ \A f \in j.list : f[1] \in KeptDirs
    /\ j.at \in {"compare", "drop", "move"} => j.hand \in Locations /\ j.hand[1] \in KeptDirs
    /\ j.at = "evict" => /\ j.list \subseteq Locations \X {0, 1} /\ IsFiniteSet(j.list)
                         /\ \A e \in j.list : e[1][1] \in OrdinaryDirs
                         /\ Cardinality(Ones(j.list)) <= j.bytes

FilesOK == /\ files \subseteq Locations /\ IsFiniteSet(files)
           /\ cut \subseteq files /\ damaged \subseteq cut
           /\ \A f \in files : f[1] \in OrdinaryDirs \cup dirs

CacheShape == /\ FilesOK /\ reported \subseteq Messages /\ lost \subseteq reported
              /\ job \in [Workers -> JobRecord] /\ \A w \in Workers : JobOK(job[w])

\* The same effect, but for the file it has open, or a release that overtook it.
Kin(k, j) ==
    /\ k \in JobRecord
    /\ k.task = j.task /\ k.key = j.key /\ k.dir = j.dir /\ k.at = j.at /\ k.seen = j.seen
    /\ k.hand = j.hand /\ k.list = j.list /\ k.bytes = j.bytes /\ k.awaited = j.awaited
    /\ k.open # Nothing => j.open # Nothing
    /\ j.overtaken => k.overtaken
    /\ j.at = "idle" => k = j

\* The same effect, at another of its operations.
Same(k, j) == /\ k.task = j.task /\ k.key = j.key /\ k.dir = j.dir
              /\ k.overtaken = j.overtaken /\ k.awaited = j.awaited

\* A file that is cut has its excuse, or somebody is about to write all of it.
Covered == \A f \in cut : \/ f \in damaged
                          \/ \E w \in Workers : job[w].open = f /\ Writes(job[w]) = "whole"

Whole == Entries(OrdinaryDirs) \ cut

-----------------------------------------------------------------------------
(* Files and jobs. *)

LEMMA LocationParts ==
    /\ \A f \in Locations : /\ f[1] \in OrdinaryDirs \cup KeptDirs /\ f[2] \in Pictures
                            /\ f[3] \in {"cache", "partial"} /\ f # Nothing
                            /\ f = <<f[1], f[2], f[3]>>
    /\ \A d \in OrdinaryDirs \cup KeptDirs, k \in Pictures, e \in {"cache", "partial"} :
           <<d, k, e>> \in Locations
BY NoFileAssumption DEF Locations

LEMMA KinOK ==
    ASSUME NEW j, NEW k, JobOK(j), Kin(k, j)
    PROVE  JobOK(k)
BY DEF JobOK, Kin

LEMMA SameKin ==
    ASSUME NEW j, JobOK(j)
    PROVE  Kin(j, j)
BY DEF JobOK, Kin

LEMMA ClosedKin ==
    ASSUME NEW j, JobOK(j), NEW file \in Locations
    PROVE  /\ Kin(Closed(j, file), j)
           /\ Closed(j, file).open = IF j.open = file THEN Nothing ELSE j.open
<1>1. file # Nothing /\ Idle.open = Nothing
  BY LocationParts DEF Idle
<1>2. CASE j.open = file
  <2>1. Closed(j, file) = [j EXCEPT !.open = Nothing] /\ j.at # "idle"
    BY <1>1, <1>2 DEF Closed, JobOK
  <2> QED
    BY <1>2, <2>1 DEF JobOK, JobRecord, Kin
<1>3. CASE j.open # file
  <2>1. Closed(j, file) = j
    BY <1>3 DEF Closed
  <2> QED
    BY <1>3, <2>1, SameKin
<1> QED
  BY <1>2, <1>3

LEMMA MovedKin ==
    ASSUME NEW j, JobOK(j), NEW from \in Locations, NEW to \in Locations
    PROVE  /\ Kin(Moved(j, from, to), j)
           /\ Moved(j, from, to).open = IF j.open = from THEN to
                                        ELSE IF j.open = to THEN Nothing ELSE j.open
<1>1. from # Nothing /\ Idle.open = Nothing
  BY LocationParts DEF Idle
<1>2. CASE j.open = from
  <2>1. Moved(j, from, to) = [j EXCEPT !.open = to] /\ j.at # "idle"
    BY <1>1, <1>2 DEF Moved, JobOK
  <2> QED
    BY <1>1, <1>2, <2>1 DEF JobOK, JobRecord, Kin
<1>3. CASE j.open # from
  <2>1. Moved(j, from, to) = Closed(j, to)
    BY <1>3 DEF Moved
  <2> QED
    BY <1>3, <2>1, ClosedKin
<1> QED
  BY <1>2, <1>3

LEMMA OvertakenKin ==
    ASSUME NEW j, JobOK(j)
    PROVE  /\ Kin(Overtaken(j), j) /\ Overtaken(j).open = j.open
           /\ j.task = "keep" => Overtaken(j).overtaken
<1>1. CASE j.task = "keep"
  <2>1. Overtaken(j) = [j EXCEPT !.overtaken = TRUE] /\ j \in JobRecord
    BY <1>1 DEF Overtaken, JobOK
  <2>2. Idle.task = "none"
    BY DEF Idle
  <2>3. j.at # "idle"
    BY <1>1, <2>2 DEF JobOK
  <2> QED
    BY <2>1, <2>3 DEF JobRecord, Kin
<1>2. CASE j.task # "keep"
  BY <1>2, SameKin DEF Overtaken
<1> QED
  BY <1>1, <1>2

-----------------------------------------------------------------------------
(* File operations: what becomes of the files, the jobs and what is cut. *)

Others(w) == \A v \in Workers : v # w => Kin(job'[v], job[v])

\* The files alone are in order.
FilesTyped == /\ files \subseteq Locations /\ IsFiniteSet(files)
              /\ cut \subseteq files /\ damaged \subseteq cut

\* The other effects write what they wrote, to where it is now.
LEMMA OthersWrite ==
    ASSUME NEW w \in Workers, Others(w), NEW v \in Workers, v # w
    PROVE  Writes(job'[v]) = Writes(job[v])
BY DEF Others, Kin, Writes

LEMMA BecomesDone ==
    ASSUME CacheShape, NEW w \in Workers, NEW next \in JobRecord, Becomes(w, next),
           UNCHANGED <<files, cut, damaged>>,
           job[w].open = Nothing \/ (next.open = job[w].open /\ Writes(next) = Writes(job[w]))
    PROVE  /\ FilesTyped' /\ job' \in [Workers -> JobRecord] /\ job'[w] = next /\ Others(w)
           /\ Covered => Covered'
<1>1. /\ job' \in [Workers -> JobRecord] /\ job'[w] = next
      /\ \A v \in Workers : v # w => job'[v] = job[v]
  BY DEF CacheShape, Becomes
<1>2. Others(w)
  BY <1>1, SameKin DEF CacheShape, Others
<1>3. \A f \in cut : f # Nothing
  BY LocationParts DEF CacheShape, FilesOK
<1>4. Covered => Covered'
  BY <1>1, <1>3 DEF Covered
<1> QED
  BY <1>1, <1>2, <1>4 DEF CacheShape, FilesOK, FilesTyped

LEMMA CreateDone ==
    ASSUME CacheShape, NEW w \in Workers, NEW file \in Locations, NEW next \in JobRecord,
           Create(w, file, next), job[w].open = Nothing
    PROVE  /\ files' = files \cup {file} /\ cut' = cut \cup {file} /\ FilesTyped'
           /\ job' \in [Workers -> JobRecord] /\ job'[w] = [next EXCEPT !.open = file]
           /\ Others(w) /\ (Covered => Covered')
<1>1. /\ files' = files \cup {file} /\ cut' = cut \cup {file}
      /\ damaged' = IF Writes(next) = "whole" THEN damaged ELSE damaged \cup {file}
      /\ Becomes(w, [next EXCEPT !.open = file])
  BY DEF Create
<1>2. /\ [next EXCEPT !.open = file] \in JobRecord /\ [next EXCEPT !.open = file].open = file
      /\ Writes([next EXCEPT !.open = file]) = Writes(next)
  BY DEF JobRecord, Writes
<1>3. /\ job' \in [Workers -> JobRecord] /\ job'[w] = [next EXCEPT !.open = file]
      /\ \A v \in Workers : v # w => job'[v] = job[v]
  BY <1>1, <1>2 DEF CacheShape, Becomes
<1>4. Others(w)
  BY <1>3, SameKin DEF CacheShape, Others
<1>5. FilesTyped'
  BY <1>1, FS_AddElement DEF CacheShape, FilesOK, FilesTyped
<1>6. \A f \in cut : f # Nothing
  BY LocationParts DEF CacheShape, FilesOK
<1>7. ASSUME Covered, NEW f \in cut'
      PROVE  f \in damaged' \/ \E v \in Workers : job'[v].open = f /\ Writes(job'[v]) = "whole"
  <2>1. CASE f = file
    BY <1>1, <1>2, <1>3, <2>1
  <2>2. CASE f # file
    <3>1. f \in cut
      BY <1>1, <1>7, <2>2
    <3>2. CASE f \in damaged
      BY <1>1, <3>2
    <3>3. CASE f \notin damaged
      BY <1>3, <1>6, <1>7, <3>1, <3>3 DEF Covered
    <3> QED
      BY <3>2, <3>3
  <2> QED
    BY <2>1, <2>2
<1>8. Covered => Covered'
  BY <1>7 DEF Covered
<1> QED
  BY <1>1, <1>3, <1>4, <1>5, <1>8

LEMMA FillDone ==
    ASSUME CacheShape, NEW w \in Workers, NEW next \in JobRecord, Fill(w, next)
    PROVE  /\ files' = files /\ cut \ {job[w].open} \subseteq cut' /\ FilesTyped'
           /\ job' \in [Workers -> JobRecord] /\ job'[w] = [next EXCEPT !.open = Nothing]
           /\ Others(w) /\ (Covered => Covered')
           /\ ~loose' => /\ ~loose
                         /\ job[w].open = Nothing
                            \/ ~(job[w].open[1] \in OrdinaryDirs /\ Entry(job[w].open))
<1>1. /\ files' = files
      /\ \/ /\ Writes(job[w]) = "whole"
            /\ cut' = cut \ {job[w].open} /\ damaged' = damaged \ {job[w].open}
         \/ Writes(job[w]) # "whole" /\ cut' = cut /\ damaged' = damaged
      /\ Becomes(w, [next EXCEPT !.open = Nothing])
      /\ loose' = (loose \/ (job[w].open # Nothing /\ job[w].open[1] \in OrdinaryDirs
                             /\ Entry(job[w].open)))
  BY DEF Fill
<1>2. [next EXCEPT !.open = Nothing] \in JobRecord
  BY DEF JobRecord
<1>3. /\ job' \in [Workers -> JobRecord] /\ job'[w] = [next EXCEPT !.open = Nothing]
      /\ \A v \in Workers : v # w => job'[v] = job[v]
  BY <1>1, <1>2 DEF CacheShape, Becomes
<1>4. Others(w)
  BY <1>3, SameKin DEF CacheShape, Others
<1>5. FilesTyped'
  BY <1>1 DEF CacheShape, FilesOK, FilesTyped
<1>6. ASSUME Covered, NEW f \in cut'
      PROVE  f \in damaged' \/ \E v \in Workers : job'[v].open = f /\ Writes(job'[v]) = "whole"
  <2>1. f \in cut /\ (f = job[w].open => Writes(job[w]) # "whole")
    BY <1>1, <1>6
  <2>2. CASE f \in damaged
    BY <1>1, <2>1, <2>2
  <2>3. CASE f \notin damaged
    <3>1. PICK v \in Workers : job[v].open = f /\ Writes(job[v]) = "whole"
      BY <1>6, <2>1, <2>3 DEF Covered
    <3> QED
      BY <1>3, <2>1, <3>1
  <2> QED
    BY <2>2, <2>3
<1>7. ~loose' => /\ ~loose
                 /\ job[w].open = Nothing
                    \/ ~(job[w].open[1] \in OrdinaryDirs /\ Entry(job[w].open))
  BY <1>1, Zenon
<1>8. Covered => Covered'
  BY <1>6 DEF Covered
<1> QED
  BY <1>1, <1>3, <1>4, <1>5, <1>7, <1>8

LEMMA UnlinkDone ==
    ASSUME CacheShape, NEW w \in Workers, NEW file \in Locations, NEW next \in JobRecord,
           Unlink(w, file, next), job[w].open = Nothing
    PROVE  /\ files' = files \ {file} /\ cut' = cut \ {file} /\ FilesTyped'
           /\ job' \in [Workers -> JobRecord] /\ job'[w] = next
           /\ Others(w) /\ (Covered => Covered')
<1>1. /\ files' = files \ {file} /\ cut' = cut \ {file} /\ damaged' = damaged \ {file}
      /\ job' = [v \in Workers |-> IF v = w THEN next ELSE Closed(job[v], file)]
  BY DEF Unlink
<1>2. \A v \in Workers : Kin(Closed(job[v], file), job[v])
                         /\ Closed(job[v], file).open = IF job[v].open = file THEN Nothing ELSE job[v].open
  BY ClosedKin DEF CacheShape
<1>3. /\ job'[w] = next
      /\ \A v \in Workers : v # w => job'[v] = Closed(job[v], file)
  BY <1>1
<1>4. Others(w)
  BY <1>2, <1>3 DEF Others
<1>5. job' \in [Workers -> JobRecord]
  BY <1>1, <1>2 DEF Kin
<1>6. FilesTyped'
  BY <1>1, FS_RemoveElement DEF CacheShape, FilesOK, FilesTyped
<1>7. \A f \in cut : f # Nothing
  BY LocationParts DEF CacheShape, FilesOK
<1>8. ASSUME Covered, NEW f \in cut'
      PROVE  f \in damaged' \/ \E v \in Workers : job'[v].open = f /\ Writes(job'[v]) = "whole"
  <2>1. f \in cut /\ f # file
    BY <1>1, <1>8
  <2>2. CASE f \in damaged
    BY <1>1, <2>1, <2>2
  <2>3. CASE f \notin damaged
    <3>1. PICK v \in Workers : job[v].open = f /\ Writes(job[v]) = "whole"
      BY <1>8, <2>1, <2>3 DEF Covered
    <3>2. v # w
      BY <1>7, <2>1, <3>1
    <3>3. Writes(job'[v]) = "whole"
      BY <1>4, <3>1, <3>2, OthersWrite
    <3> QED
      BY <1>2, <1>3, <2>1, <3>1, <3>2, <3>3
  <2> QED
    BY <2>2, <2>3
<1> QED
  BY <1>1, <1>3, <1>4, <1>5, <1>6, <1>8 DEF Covered

LEMMA RenameDone ==
    ASSUME CacheShape, NEW w \in Workers, NEW from \in Locations, NEW to \in Locations,
           from \in files, from # to,
           NEW next \in JobRecord, Rename(w, from, to, next), job[w].open = Nothing
    PROVE  /\ files' = (files \ {from}) \cup {to} /\ FilesTyped'
           /\ cut' = (cut \ {from, to}) \cup (IF from \in cut THEN {to} ELSE {})
           /\ job' \in [Workers -> JobRecord] /\ job'[w] = next
           /\ Others(w) /\ (Covered => Covered')
<1>1. /\ files' = (files \ {from}) \cup {to}
      /\ cut' = (cut \ {from, to}) \cup (IF from \in cut THEN {to} ELSE {})
      /\ damaged' = (damaged \ {from, to}) \cup (IF from \in damaged THEN {to} ELSE {})
      /\ job' = [v \in Workers |-> IF v = w THEN next ELSE Moved(job[v], from, to)]
  BY DEF Rename, Renamed
<1>2. \A v \in Workers : /\ Kin(Moved(job[v], from, to), job[v])
                         /\ Moved(job[v], from, to).open = IF job[v].open = from THEN to
                                ELSE IF job[v].open = to THEN Nothing ELSE job[v].open
  BY MovedKin DEF CacheShape
<1>3. /\ job'[w] = next
      /\ \A v \in Workers : v # w => job'[v] = Moved(job[v], from, to)
  BY <1>1
<1>4. Others(w)
  BY <1>2, <1>3 DEF Others
<1>5. job' \in [Workers -> JobRecord]
  BY <1>1, <1>2 DEF Kin
<1>6. FilesTyped'
  <2>1. IsFiniteSet(files \ {from})
    BY FS_RemoveElement DEF CacheShape, FilesOK
  <2>2. IsFiniteSet(files')
    BY <1>1, <2>1, FS_AddElement
  <2>3. cut' \subseteq files' /\ damaged' \subseteq cut'
    BY <1>1 DEF CacheShape, FilesOK
  <2> QED
    BY <1>1, <2>2, <2>3 DEF CacheShape, FilesOK, FilesTyped
<1>7. (\A f \in cut : f # Nothing) /\ from # Nothing
  BY LocationParts DEF CacheShape, FilesOK
<1>8. ASSUME Covered, NEW f \in cut'
      PROVE  f \in damaged' \/ \E v \in Workers : job'[v].open = f /\ Writes(job'[v]) = "whole"
  <2> DEFINE was == IF f = to THEN from ELSE f
  <2>1. was \in cut /\ (f = to \/ (f # from /\ f # to))
    BY <1>1, <1>8
  <2>2. CASE was \in damaged
    BY <1>1, <2>1, <2>2
  <2>3. CASE was \notin damaged
    <3>1. PICK v \in Workers : job[v].open = was /\ Writes(job[v]) = "whole"
      BY <1>8, <2>1, <2>3 DEF Covered
    <3>2. v # w
      BY <1>7, <2>1, <3>1
    <3>3. Writes(job'[v]) = "whole"
      BY <1>4, <3>1, <3>2, OthersWrite
    <3>4. job'[v].open = f
      BY <1>2, <1>3, <2>1, <3>1, <3>2
    <3> QED
      BY <3>3, <3>4
  <2> QED
    BY <2>2, <2>3
<1> QED
  BY <1>1, <1>3, <1>4, <1>5, <1>6, <1>8 DEF Covered

-----------------------------------------------------------------------------
(* Every step leaves files and jobs in order. *)

\* A step of w: the other effects are the same, but for the files they have open.
Sound(w) == CacheShape' /\ Others(w) /\ (Covered => Covered')

LEMMA ShapeFrom ==
    ASSUME CacheShape, NEW w \in Workers, Others(w), JobOK(job'[w]), Covered => Covered',
           job' \in [Workers -> JobRecord], FilesTyped',
           \A f \in files' : f[1] \in OrdinaryDirs \cup dirs',
           reported' \subseteq Messages, lost' \subseteq reported'
    PROVE  Sound(w)
<1>1. \A v \in Workers : JobOK(job'[v])
  BY KinOK DEF CacheShape, Others
<1>2. FilesOK'
  BY DEF FilesTyped, FilesOK
<1> QED
  BY <1>1, <1>2 DEF Sound, CacheShape

LEMMA IdleOK == Idle \in JobRecord /\ JobOK(Idle) /\ Idle.open = Nothing /\ Idle.task = "none" /\ Idle.at = "idle"
<1>1. Idle \in JobRecord
  BY DEF Idle, JobRecord, Places, OrdinaryDirs
<1>2. Idle.open = Nothing /\ Idle.task = "none" /\ Idle.at = "idle"
  BY DEF Idle
<1> QED
  BY <1>1, <1>2 DEF JobOK, Fetching, Releasing, Moving

\* A step that touches no file.
LEMMA BecomesSound ==
    ASSUME CacheShape, NEW w \in Workers, NEW next, JobOK(next), Becomes(w, next),
           UNCHANGED <<files, cut, damaged, dirs>>,
           reported' \subseteq Messages, lost' \subseteq reported',
           job[w].at \in {"fill", "write"} => next.open = job[w].open /\ Writes(next) = Writes(job[w])
    PROVE  Sound(w) /\ job'[w] = next
<1>1. next \in JobRecord
  BY DEF JobOK
<1>2. job[w].open = Nothing \/ (next.open = job[w].open /\ Writes(next) = Writes(job[w]))
  BY DEF CacheShape, JobOK
<1>3. /\ FilesTyped' /\ job' \in [Workers -> JobRecord] /\ job'[w] = next /\ Others(w)
      /\ Covered => Covered'
  BY <1>1, <1>2, BecomesDone
<1> QED
  BY <1>3, ShapeFrom DEF CacheShape, FilesOK

LEMMA FailSound ==
    ASSUME CacheShape, NEW w \in Workers, Fail(w), job[w].at \notin {"fill", "write"}
    PROVE  Sound(w) /\ job'[w] = Idle
<1>1. /\ Becomes(w, Idle) /\ UNCHANGED <<files, cut, damaged, dirs, reported>>
      /\ lost' = lost \/ lost' = lost \cup {m \in reported : ~Exists(Original(m))}
  BY DEF Fail, fileVars
<1>2. lost' \subseteq reported' /\ reported' \subseteq Messages
  BY <1>1 DEF CacheShape
<1> QED
  BY <1>1, <1>2, IdleOK, BecomesSound

LEMMA BegunOK ==
    /\ \A k \in Pictures : /\ Begun("show", k, "thumbnails", "read") \in JobRecord
                           /\ JobOK(Begun("show", k, "thumbnails", "read"))
    /\ \A m \in Messages, b \in BOOLEAN :
           /\ [Begun("keep", m, "kept media", "read") EXCEPT !.overtaken = b] \in JobRecord
           /\ JobOK([Begun("keep", m, "kept media", "read") EXCEPT !.overtaken = b])
           /\ [Begun("keep", m, "kept media", "read") EXCEPT !.overtaken = b].task = "keep"
           /\ [Begun("keep", m, "kept media", "read") EXCEPT !.overtaken = b].at = "read"
           /\ [Begun("keep", m, "kept media", "read") EXCEPT !.overtaken = b].dir = "kept media"
           /\ [Begun("keep", m, "kept media", "read") EXCEPT !.overtaken = b].overtaken = b
    /\ Begun("release", Nothing, "kept media", "list") \in JobRecord
    /\ JobOK(Begun("release", Nothing, "kept media", "list"))
    /\ Begun("release", Nothing, "kept media", "list").open = Nothing
<1>1. ASSUME NEW task \in {"show", "keep", "release"}, NEW key \in Pictures \cup {Nothing},
             NEW dir \in OrdinaryDirs \cup KeptDirs, NEW at \in {"read", "list"}
      PROVE  /\ Begun(task, key, dir, at) \in JobRecord
             /\ Begun(task, key, dir, at).task = task /\ Begun(task, key, dir, at).key = key
             /\ Begun(task, key, dir, at).dir = dir /\ Begun(task, key, dir, at).at = at
             /\ Begun(task, key, dir, at).open = Nothing /\ Begun(task, key, dir, at).awaited
  <2>1. at \in Places
    BY DEF Places, Fetching, Releasing
  <2>2. Begun(task, key, dir, at) \in JobRecord
    BY <2>1, IdleOK DEF Begun, JobRecord
  <2> QED
    BY <2>2, IdleOK DEF Begun, JobRecord
<1>2. ASSUME NEW j \in JobRecord, NEW b \in BOOLEAN
      PROVE  LET k == [j EXCEPT !.overtaken = b]
             IN  /\ k \in JobRecord /\ k.task = j.task /\ k.key = j.key /\ k.dir = j.dir /\ k.at = j.at
                 /\ k.open = j.open /\ k.overtaken = b
  BY DEF JobRecord
<1>3. ASSUME NEW k \in Pictures
      PROVE  /\ Begun("show", k, "thumbnails", "read") \in JobRecord
             /\ JobOK(Begun("show", k, "thumbnails", "read"))
  <2> DEFINE j == Begun("show", k, "thumbnails", "read")
  <2>1. /\ j \in JobRecord /\ j.task = "show" /\ j.key = k /\ j.dir = "thumbnails" /\ j.at = "read"
        /\ j.open = Nothing
    BY <1>1 DEF OrdinaryDirs
  <2> HIDE DEF j
  <2> QED
    BY <2>1 DEF JobOK, Fetching, Releasing, Moving, j
<1>4. ASSUME NEW m \in Messages, NEW b \in BOOLEAN
      PROVE  LET j == [Begun("keep", m, "kept media", "read") EXCEPT !.overtaken = b]
             IN  /\ j \in JobRecord /\ JobOK(j)
                 /\ j.task = "keep" /\ j.at = "read" /\ j.dir = "kept media" /\ j.overtaken = b
  <2> DEFINE i == Begun("keep", m, "kept media", "read")
  <2>1. /\ i \in JobRecord /\ i.task = "keep" /\ i.key = m /\ i.dir = "kept media" /\ i.at = "read"
        /\ i.open = Nothing
    BY IdleOK DEF Begun, JobRecord, Places, Fetching, Releasing, KeptDirs, Pictures
  <2> HIDE DEF i
  <2> DEFINE j == [i EXCEPT !.overtaken = b]
  <2>2. /\ j \in JobRecord /\ j.task = "keep" /\ j.key = m /\ j.dir = "kept media" /\ j.at = "read"
        /\ j.open = Nothing /\ j.overtaken = b
    BY <1>2, <2>1
  <2> HIDE DEF j
  <2>3. JobOK(j)
    BY <2>2 DEF JobOK, Fetching, Releasing, Moving, KeptDirs, Pictures
  <2> QED
    BY <2>2, <2>3 DEF i, j
<1>5. /\ Begun("release", Nothing, "kept media", "list") \in JobRecord
      /\ JobOK(Begun("release", Nothing, "kept media", "list"))
      /\ Begun("release", Nothing, "kept media", "list").open = Nothing
  <2> DEFINE j == Begun("release", Nothing, "kept media", "list")
  <2>1. /\ j \in JobRecord /\ j.task = "release" /\ j.dir = "kept media" /\ j.at = "list"
        /\ j.open = Nothing /\ j.awaited
    BY IdleOK DEF Begun, JobRecord, Places, Fetching, Releasing, KeptDirs, Pictures
  <2> HIDE DEF j
  <2> QED
    BY <2>1 DEF JobOK, Fetching, Releasing, Moving, KeptDirs, j
<1> QED
  BY <1>3, <1>4, <1>5

LEMMA EffectSound ==
    ASSUME CacheShape, NEW w \in Workers, Effect(w)
    PROVE  Sound(w)
<1>1. ASSUME NEW k \in Pictures, Show(w, k) PROVE Sound(w)
  <2>1. /\ job[w].at = "idle" /\ UNCHANGED <<files, cut, damaged, dirs, reported, lost>>
        /\ Becomes(w, Begun("show", k, "thumbnails", "read"))
    BY <1>1 DEF Show, Ready, fileVars, policyVars
  <2> QED
    BY <2>1, BegunOK, BecomesSound DEF CacheShape
<1>2. ASSUME NEW m \in Messages, Keep(w, m) PROVE Sound(w)
  <2> DEFINE b == ~kept
  <2>1. /\ job[w].at = "idle" /\ UNCHANGED <<files, cut, damaged, dirs, reported, lost>>
        /\ Becomes(w, [Begun("keep", m, "kept media", "read") EXCEPT !.overtaken = b])
    BY <1>2 DEF Keep, Ready, fileVars, policyVars
  <2>2. b \in BOOLEAN
    OBVIOUS
  <2> HIDE DEF b
  <2> QED
    BY <2>1, <2>2, BegunOK, BecomesSound DEF CacheShape
<1>3. CASE Release(w)
  <2> DEFINE first == Begun("release", Nothing, "kept media", "list")
  <2>1. /\ job[w].at = "idle" /\ UNCHANGED <<files, cut, damaged, dirs, reported, lost>>
        /\ job' = [v \in Workers |-> IF v = w THEN first ELSE Overtaken(job[v])]
    BY <1>3 DEF Release, Ready, fileVars
  <2>2. first \in JobRecord /\ JobOK(first) /\ first.open = Nothing
    BY BegunOK
  <2> HIDE DEF first
  <2>3. \A v \in Workers : Kin(Overtaken(job[v]), job[v]) /\ Overtaken(job[v]).open = job[v].open
    BY OvertakenKin DEF CacheShape
  <2>4. job'[w] = first /\ \A v \in Workers : v # w => job'[v] = Overtaken(job[v])
    BY <2>1
  <2>5. job' \in [Workers -> JobRecord]
    BY <2>1, <2>2, <2>3 DEF Kin
  <2>6. Others(w)
    BY <2>3, <2>4 DEF Others
  <2>7. job[w].open = Nothing /\ \A f \in cut : f # Nothing
    BY <2>1, LocationParts DEF CacheShape, FilesOK, JobOK
  <2>8. Covered => Covered'
    <3>1. \A v \in Workers : v # w => Writes(job'[v]) = Writes(job[v])
      BY <2>6, OthersWrite
    <3> QED
      BY <2>1, <2>3, <2>4, <2>7, <3>1 DEF Covered
  <2> QED
    BY <2>1, <2>2, <2>4, <2>5, <2>6, <2>8, ShapeFrom DEF CacheShape, FilesOK, FilesTyped
<1>4. CASE Cancel(w)
  <2>1. /\ UNCHANGED <<files, cut, damaged, dirs, reported, lost>>
        /\ Becomes(w, IF job[w].at = "telegram" THEN Idle ELSE [job[w] EXCEPT !.awaited = FALSE])
        /\ job[w].task = "show"
    BY <1>4 DEF Cancel, fileVars, policyVars
  <2>2. CASE job[w].at = "telegram"
    BY <2>1, <2>2, IdleOK, BecomesSound DEF CacheShape
  <2>3. CASE job[w].at # "telegram"
    <3> DEFINE next == [job[w] EXCEPT !.awaited = FALSE]
    <3>1. job[w] # Idle /\ JobOK(job[w]) /\ job[w] \in JobRecord
      BY <2>1, IdleOK DEF CacheShape
    <3>2. /\ next \in JobRecord /\ next.open = job[w].open /\ next.task = job[w].task
          /\ next.at = job[w].at /\ next.key = job[w].key /\ next.dir = job[w].dir
          /\ next.list = job[w].list /\ next.bytes = job[w].bytes /\ next.hand = job[w].hand
          /\ Writes(next) = Writes(job[w])
      BY <3>1 DEF JobRecord, Writes
    <3>3. JobOK(next)
      BY <2>1, <3>1, <3>2 DEF JobOK
    <3> HIDE DEF next
    <3>4. Becomes(w, next)
      BY <2>1, <2>3 DEF next
    <3> QED
      BY <2>1, <3>2, <3>3, <3>4, BecomesSound DEF CacheShape
  <2> QED
    BY <2>2, <2>3
<1> QED
  BY <1>1, <1>2, <1>3, <1>4 DEF Effect

-----------------------------------------------------------------------------
(* The steps of an effect. *)

LEMMA FetchingOK ==
    ASSUME NEW j \in JobRecord, j.at \in Fetching, j.task \in {"show", "keep"}, j.key \in Pictures,
           j.dir # "media",
           j.task = "keep" => /\ j.key \in Messages /\ j.dir \in KeptDirs
                              /\ j.at \in {"read", "touch", "fill"} => j.dir = "kept media",
           j.open = Nothing \/ j.at \in {"fill", "write"}
    PROVE  JobOK(j)
BY DEF JobOK, Fetching, Releasing, Moving

\* What follows a read.
LEMMA AfterReadOK ==
    ASSUME NEW w \in Workers, JobOK(job[w]), job[w].at \in {"read", "fill"}, NEW got
    PROVE  /\ AfterRead(w, got) \in JobRecord
           /\ AfterRead(w, got).open \in {Nothing, job[w].open}
           /\ JobOK([AfterRead(w, got) EXCEPT !.open = Nothing])
           /\ AfterRead(w, got).task # "release"
           /\ AfterRead(w, got).task = "keep" =>
                  AfterRead(w, got).at = "telegram" /\ AfterRead(w, got).dir = "kept media"
           /\ AfterRead(w, got).task = "keep" => job[w].task = "keep" /\ AfterRead(w, got).overtaken = job[w].overtaken
<1> DEFINE j == [job[w] EXCEPT !.seen = "nothing"]
<1>1. /\ job[w] \in JobRecord /\ job[w].task \in {"show", "keep"} /\ job[w].key \in Pictures
      /\ job[w].task = "keep" => job[w].key \in Messages /\ job[w].dir = "kept media"
      /\ job[w].dir # "media"
  BY DEF JobOK, Fetching, Releasing, Moving
<1>2. /\ j \in JobRecord /\ j.task = job[w].task /\ j.key = job[w].key /\ j.dir = job[w].dir
      /\ j.open = job[w].open /\ j.overtaken = job[w].overtaken
  BY <1>1 DEF JobRecord
<1>3. \/ AfterRead(w, got) = Idle
      \/ j.task = "show" /\ AfterRead(w, got) = [j EXCEPT !.dir = "kept thumbnails", !.at = "create"]
      \/ j.task = "show" /\ AfterRead(w, got) = [j EXCEPT !.dir = "kept media", !.at = "read"]
      \/ AfterRead(w, got) = [j EXCEPT !.at = "telegram"]
  BY DEF AfterRead
<1> HIDE DEF j
<1> DEFINE n == AfterRead(w, got)
<1>4. CASE n = Idle
  <2>1. [Idle EXCEPT !.open = Nothing] = Idle
    BY IdleOK DEF JobRecord
  <2> QED
    BY <1>4, <2>1, IdleOK
<1>5. ASSUME n # Idle
      PROVE  /\ n \in JobRecord /\ n.at \in {"create", "read", "telegram"} /\ n.task = j.task /\ n.key = j.key
             /\ n.open = j.open /\ n.overtaken = j.overtaken /\ n.dir # "media"
             /\ n.task = "keep" => n.at = "telegram" /\ n.dir = "kept media"
  <2>1. CASE j.task = "show" /\ n = [j EXCEPT !.dir = "kept thumbnails", !.at = "create"]
    BY <1>2, <2>1 DEF JobRecord, Places, Fetching, KeptDirs
  <2>2. CASE j.task = "show" /\ n = [j EXCEPT !.dir = "kept media", !.at = "read"]
    BY <1>2, <2>2 DEF JobRecord, Places, Fetching, KeptDirs
  <2>3. CASE n = [j EXCEPT !.at = "telegram"]
    BY <1>1, <1>2, <2>3 DEF JobRecord, Places, Fetching
  <2> QED
    BY <1>3, <1>5, <2>1, <2>2, <2>3
<1> HIDE DEF n
<1>6. ASSUME n # Idle PROVE JobOK([n EXCEPT !.open = Nothing])
  <2> DEFINE k == [n EXCEPT !.open = Nothing]
  <2>1. /\ k \in JobRecord /\ k.at = n.at /\ k.task = n.task /\ k.key = n.key /\ k.dir = n.dir
        /\ k.open = Nothing
    BY <1>5, <1>6 DEF JobRecord
  <2> HIDE DEF k
  <2>2. JobOK(k)
    BY <1>1, <1>2, <1>5, <1>6, <2>1, FetchingOK DEF Fetching, KeptDirs
  <2> QED
    BY <2>2 DEF k
<1>7. CASE n # Idle
  BY <1>1, <1>2, <1>5, <1>6, <1>7 DEF n
<1> QED
  BY <1>4, <1>7 DEF n

LEMMA JobFacts ==
    ASSUME CacheShape, NEW w \in Workers
    PROVE  /\ job[w] \in JobRecord /\ JobOK(job[w])
           /\ job[w].at \notin {"fill", "write"} => job[w].open = Nothing
           /\ job[w].at \in Fetching => /\ job[w].task \in {"show", "keep"} /\ job[w].key \in Pictures
                                        /\ job[w].dir # "media"
                                        /\ File(w, "cache") \in Locations
                                        /\ File(w, "partial") \in Locations
           /\ job[w].dir \in OrdinaryDirs \cup KeptDirs
<1>1. job[w] \in JobRecord /\ JobOK(job[w])
  BY DEF CacheShape
<1>2. job[w].dir \in OrdinaryDirs \cup KeptDirs
  BY <1>1 DEF JobRecord
<1> QED
  BY <1>1, <1>2, LocationParts DEF JobOK, Fetching, File

LEMMA ReadSound ==
    ASSUME CacheShape, NEW w \in Workers, Read(w)
    PROVE  /\ Sound(w)
           /\ \/ Same(job'[w], job[w]) /\ job'[w].at = "touch"
              \/ job'[w] = AfterRead(w, "nothing")
<1>1. job[w].at = "read" /\ UNCHANGED <<files, cut, damaged, dirs, reported, lost>>
  BY DEF Read, Leaves
<1>2. JobOK(job[w]) /\ job[w] \in JobRecord /\ job[w].open = Nothing
  BY <1>1, JobFacts
<1>3. CASE Exists(File(w, "cache"))
  <2> DEFINE seen == IF File(w, "cache") \in cut THEN "cut" ELSE "whole"
             next == [job[w] EXCEPT !.seen = seen, !.at = "touch"]
  <2>1. Becomes(w, next)
    BY <1>3 DEF Read
  <2>2. seen \in {"nothing", "cut", "whole"}
    OBVIOUS
  <2> HIDE DEF seen
  <2>3. next \in JobRecord /\ next.at = "touch" /\ Same(next, job[w]) /\ next.open = Nothing
    BY <1>2, <2>2 DEF JobRecord, Places, Fetching, Same
  <2> HIDE DEF next
  <2>4. JobOK(next)
    BY <1>1, <1>2, <2>3, FetchingOK DEF JobOK, Fetching, Same
  <2>5. Sound(w) /\ job'[w] = next
    BY <1>1, <2>1, <2>4, BecomesSound DEF CacheShape
  <2> QED
    BY <2>3, <2>5
<1>4. CASE ~Exists(File(w, "cache"))
  <2> DEFINE next == AfterRead(w, "nothing")
  <2>1. Becomes(w, next)
    BY <1>4 DEF Read
  <2>2. next \in JobRecord /\ next.open \in {Nothing, job[w].open} /\ JobOK([next EXCEPT !.open = Nothing])
    BY <1>1, <1>2, AfterReadOK
  <2> HIDE DEF next
  <2>3. next.open = Nothing /\ [next EXCEPT !.open = Nothing] = next
    BY <1>2, <2>2 DEF JobRecord
  <2>4. JobOK(next)
    BY <2>2, <2>3
  <2>5. Sound(w) /\ job'[w] = next
    BY <1>1, <2>1, <2>4, BecomesSound DEF CacheShape
  <2> QED
    BY <2>5 DEF next
<1> QED
  BY <1>3, <1>4

LEMMA TouchSound ==
    ASSUME CacheShape, NEW w \in Workers, Touch(w)
    PROVE  /\ Sound(w) /\ Same(job'[w], job[w]) /\ job'[w].at = "fill"
           /\ files' = files \cup {File(w, "cache")}
<1> DEFINE next == [job[w] EXCEPT !.at = "fill"]
           file == File(w, "cache")
<1>1. /\ job[w].at = "touch" /\ job[w].dir \in OrdinaryDirs \cup dirs /\ Create(w, file, next)
      /\ UNCHANGED <<dirs, reported, lost>>
  BY DEF Touch, Leaves
<1>2. JobOK(job[w]) /\ job[w] \in JobRecord /\ job[w].open = Nothing /\ file \in Locations
  BY <1>1, JobFacts DEF Fetching
<1>3. file[1] = job[w].dir /\ file # Nothing
  BY <1>2, LocationParts DEF File
<1>4. next \in JobRecord /\ next.at = "fill" /\ Same(next, job[w])
  BY <1>2 DEF JobRecord, Places, Fetching, Same
<1> HIDE DEF next, file
<1>5. /\ files' = files \cup {file} /\ FilesTyped' /\ job' \in [Workers -> JobRecord]
      /\ job'[w] = [next EXCEPT !.open = file] /\ Others(w) /\ (Covered => Covered')
  BY <1>1, <1>2, <1>4, CreateDone
<1> DEFINE last == [next EXCEPT !.open = file]
<1>6. last \in JobRecord /\ last.at = "fill" /\ Same(last, job[w])
  BY <1>2, <1>4 DEF JobRecord, Same
<1> HIDE DEF last
<1>7. JobOK(last)
  BY <1>1, <1>2, <1>6, FetchingOK DEF JobOK, Fetching, Same
<1>8. JobOK(job'[w])
  BY <1>5, <1>7 DEF last
<1>9. \A f \in files' : f[1] \in OrdinaryDirs \cup dirs'
  BY <1>1, <1>3, <1>5 DEF CacheShape, FilesOK
<1>10. Sound(w)
  BY <1>1, <1>5, <1>8, <1>9, ShapeFrom DEF CacheShape
<1> QED
  BY <1>5, <1>6, <1>10 DEF last, file

LEMMA RefillSound ==
    ASSUME CacheShape, NEW w \in Workers, Refill(w)
    PROVE  /\ Sound(w) /\ files' = files
           /\ \E got : job'[w] = [AfterRead(w, got) EXCEPT !.open = Nothing] /\ Promised(w, got)
<1>1. job[w].at = "fill" /\ UNCHANGED dirs
  BY DEF Refill, Leaves
<1>2. JobOK(job[w]) /\ job[w] \in JobRecord
  BY JobFacts
<1>3. PICK got : Fill(w, AfterRead(w, got)) /\ Promised(w, got)
  BY DEF Refill
<1> DEFINE next == AfterRead(w, got)
<1>4. next \in JobRecord /\ JobOK([next EXCEPT !.open = Nothing])
  BY <1>1, <1>2, AfterReadOK
<1>5. reported' \subseteq Messages /\ lost' \subseteq reported'
  BY <1>2, <1>3 DEF Promised, Report, JobOK, CacheShape
<1>6. Fill(w, next)
  BY <1>3
<1> HIDE DEF next
<1>7. /\ files' = files /\ FilesTyped' /\ job' \in [Workers -> JobRecord]
      /\ job'[w] = [next EXCEPT !.open = Nothing] /\ Others(w) /\ (Covered => Covered')
  BY <1>4, <1>6, FillDone
<1>8. \A f \in files' : f[1] \in OrdinaryDirs \cup dirs'
  BY <1>1, <1>7 DEF CacheShape, FilesOK
<1>9. JobOK(job'[w])
  BY <1>4, <1>7
<1>10. Sound(w)
  BY <1>1, <1>5, <1>7, <1>8, <1>9, ShapeFrom DEF CacheShape
<1> QED
  BY <1>3, <1>7, <1>10 DEF next

LEMMA TelegramSound ==
    ASSUME CacheShape, NEW w \in Workers, Telegram(w)
    PROVE  /\ Sound(w)
           /\ \/ job'[w] = Idle
              \/ /\ job'[w].task = job[w].task /\ job'[w].overtaken = job[w].overtaken
                 /\ job'[w].at = "create"
                 /\ job'[w].task = "keep" => job'[w].dir = "kept media"
<1>1. job[w].at = "telegram" /\ UNCHANGED <<files, cut, damaged, dirs, reported, lost>>
  BY DEF Telegram, Leaves
<1>2. JobOK(job[w]) /\ job[w] \in JobRecord /\ job[w].open = Nothing /\ job[w].task \in {"show", "keep"}
  BY <1>1, JobFacts DEF Fetching
<1>3. CASE Becomes(w, Idle)
  BY <1>1, <1>3, IdleOK, BecomesSound DEF CacheShape
<1> DEFINE dir == IF job[w].task = "show" THEN "thumbnails" ELSE "kept media"
           next == [job[w] EXCEPT !.at = "create", !.dir = dir]
<1>4. CASE Becomes(w, next)
  <2>1. /\ dir \in OrdinaryDirs \cup KeptDirs /\ dir # "media"
        /\ job[w].task = "keep" => dir \in KeptDirs /\ dir = "kept media"
    BY <1>2 DEF OrdinaryDirs, KeptDirs
  <2> HIDE DEF dir
  <2>2. /\ next \in JobRecord /\ next.at = "create" /\ next.task = job[w].task /\ next.key = job[w].key
        /\ next.dir = dir /\ next.open = Nothing /\ next.overtaken = job[w].overtaken
    BY <1>2, <2>1 DEF JobRecord, Places, Fetching
  <2> HIDE DEF next
  <2>3. JobOK(next)
    BY <1>1, <1>2, <2>1, <2>2, FetchingOK DEF JobOK, Fetching
  <2>4. Sound(w) /\ job'[w] = next
    BY <1>1, <1>4, <2>3, BecomesSound DEF CacheShape
  <2> QED
    BY <2>1, <2>2, <2>4
<1> QED
  BY <1>3, <1>4 DEF Telegram

LEMMA MakeDirectorySound ==
    ASSUME CacheShape, NEW w \in Workers, MakeDirectory(w)
    PROVE  Sound(w) /\ Same(job'[w], job[w]) /\ job'[w].at = "partial"
<1> DEFINE next == [job[w] EXCEPT !.at = "partial"]
<1>1. /\ job[w].at = "create" /\ Becomes(w, next) /\ dirs' = dirs \cup ({job[w].dir} \cap KeptDirs)
      /\ UNCHANGED <<files, cut, damaged, reported, lost>>
  BY DEF MakeDirectory, policyVars
<1>2. JobOK(job[w]) /\ job[w] \in JobRecord /\ job[w].open = Nothing
  BY <1>1, JobFacts DEF Fetching
<1>3. next \in JobRecord /\ next.at = "partial" /\ Same(next, job[w]) /\ next.open = Nothing
  BY <1>2 DEF JobRecord, Places, Fetching, Same
<1> HIDE DEF next
<1>4. JobOK(next)
  BY <1>1, <1>2, <1>3, FetchingOK DEF JobOK, Fetching, Same
<1>5. /\ FilesTyped' /\ job' \in [Workers -> JobRecord] /\ job'[w] = next /\ Others(w)
      /\ Covered => Covered'
  BY <1>1, <1>2, <1>3, BecomesDone
<1>6. \A f \in files' : f[1] \in OrdinaryDirs \cup dirs'
  BY <1>1 DEF CacheShape, FilesOK
<1>7. Sound(w)
  BY <1>1, <1>4, <1>5, <1>6, ShapeFrom DEF CacheShape
<1> QED
  BY <1>3, <1>5, <1>7

LEMMA CreatePartialSound ==
    ASSUME CacheShape, NEW w \in Workers, CreatePartial(w)
    PROVE  /\ Sound(w) /\ Same(job'[w], job[w]) /\ job'[w].at = "write"
           /\ files' = files \cup {File(w, "partial")}
<1> DEFINE next == [job[w] EXCEPT !.at = "write"]
           file == File(w, "partial")
<1>1. /\ job[w].at = "partial" /\ job[w].dir \in OrdinaryDirs \cup dirs /\ Create(w, file, next)
      /\ UNCHANGED <<dirs, reported, lost>>
  BY DEF CreatePartial, Leaves
<1>2. /\ JobOK(job[w]) /\ job[w] \in JobRecord /\ job[w].open = Nothing /\ file \in Locations
      /\ job[w].dir \in OrdinaryDirs \cup KeptDirs
  BY <1>1, JobFacts DEF Fetching
<1>3. file[1] = job[w].dir
  BY <1>2, LocationParts DEF File
<1>4. next \in JobRecord /\ next.at = "write" /\ Same(next, job[w])
  BY <1>2 DEF JobRecord, Places, Fetching, Same
<1> HIDE DEF next, file
<1>5. /\ files' = files \cup {file} /\ FilesTyped' /\ job' \in [Workers -> JobRecord]
      /\ job'[w] = [next EXCEPT !.open = file] /\ Others(w) /\ (Covered => Covered')
  BY <1>1, <1>2, <1>4, CreateDone
<1> DEFINE last == [next EXCEPT !.open = file]
<1>6. last \in JobRecord /\ last.at = "write" /\ Same(last, job[w])
  BY <1>2, <1>4 DEF JobRecord, Same
<1> HIDE DEF last
<1>7. JobOK(last)
  BY <1>1, <1>2, <1>6, FetchingOK DEF JobOK, Fetching, Same
<1>8. JobOK(job'[w])
  BY <1>5, <1>7 DEF last
<1>9. \A f \in files' : f[1] \in OrdinaryDirs \cup dirs'
  BY <1>1, <1>2, <1>3, <1>5 DEF CacheShape, FilesOK
<1>10. Sound(w)
  BY <1>1, <1>5, <1>8, <1>9, ShapeFrom DEF CacheShape
<1> QED
  BY <1>5, <1>6, <1>10 DEF last, file

LEMMA WritePartialSound ==
    ASSUME CacheShape, NEW w \in Workers, WritePartial(w)
    PROVE  Sound(w) /\ Same(job'[w], job[w]) /\ job'[w].at = "install"
<1> DEFINE next == [job[w] EXCEPT !.at = "install"]
<1>1. job[w].at = "write" /\ Fill(w, next) /\ UNCHANGED <<dirs, reported, lost>>
  BY DEF WritePartial, Leaves
<1>2. JobOK(job[w]) /\ job[w] \in JobRecord
  BY JobFacts
<1>4. next \in JobRecord
  BY <1>2 DEF JobRecord, Places, Fetching
<1> DEFINE last == [next EXCEPT !.open = Nothing]
<1>5. last \in JobRecord /\ last.at = "install" /\ Same(last, job[w]) /\ last.open = Nothing
  BY <1>2 DEF JobRecord, Places, Fetching, Same
<1> HIDE DEF next
<1>6. /\ files' = files /\ FilesTyped' /\ job' \in [Workers -> JobRecord]
      /\ job'[w] = last /\ Others(w) /\ (Covered => Covered')
  BY <1>1, <1>4, FillDone
<1> HIDE DEF last
<1>7. JobOK(job'[w])
  BY <1>1, <1>2, <1>5, <1>6, FetchingOK DEF JobOK, Fetching, Same
<1>8. \A f \in files' : f[1] \in OrdinaryDirs \cup dirs'
  BY <1>1, <1>6 DEF CacheShape, FilesOK
<1>9. Sound(w)
  BY <1>1, <1>6, <1>7, <1>8, ShapeFrom DEF CacheShape
<1> QED
  BY <1>5, <1>6, <1>9

\* What follows an entry that is stored.
LEMMA StoredOK ==
    ASSUME CacheShape, NEW w \in Workers, job[w].at = "install", NEW next \in Stored(w)
    PROVE  /\ next \in JobRecord /\ JobOK(next) /\ next.open = Nothing
           /\ \/ job[w].dir = "thumbnails" /\ next.task = "show" /\ next.at = "scan"
              \/ /\ job[w].dir = "kept media" /\ next.task = job[w].task /\ next.key = job[w].key
                 /\ next.dir = "kept thumbnails" /\ next.at = "create"
                 /\ next.overtaken = job[w].overtaken
              \/ job[w].dir # "thumbnails" /\ next = Idle
<1>1. /\ JobOK(job[w]) /\ job[w] \in JobRecord /\ job[w].open = Nothing
      /\ job[w].task \in {"show", "keep"}
  BY JobFacts DEF Fetching
<1>2. CASE job[w].dir = "thumbnails"
  <2>1. next = [job[w] EXCEPT !.at = "scan"]
    BY <1>2 DEF Stored
  <2>2. job[w].task = "show"
    BY <1>1, <1>2 DEF JobOK, KeptDirs
  <2>3. next \in JobRecord /\ next.at = "scan" /\ next.task = "show" /\ next.open = Nothing
    BY <1>1, <2>1, <2>2 DEF JobRecord, Places, Fetching
  <2> QED
    BY <1>2, <2>3 DEF JobOK, Fetching, Releasing, Moving
<1>3. CASE job[w].dir = "kept media" /\ next # Idle
  <2>1. next = [job[w] EXCEPT !.dir = "kept thumbnails", !.at = "create"]
    BY <1>3 DEF Stored
  <2>2. /\ next \in JobRecord /\ next.at = "create" /\ next.task = job[w].task /\ next.open = Nothing
        /\ next.key = job[w].key /\ next.dir = "kept thumbnails" /\ next.overtaken = job[w].overtaken
    BY <1>1, <2>1 DEF JobRecord, Places, Fetching, KeptDirs
  <2>3. JobOK(next)
    BY <1>1, <2>2, FetchingOK DEF JobOK, Fetching, KeptDirs
  <2> QED
    BY <1>3, <2>2, <2>3
<1>4. CASE job[w].dir # "thumbnails" /\ next = Idle
  BY <1>4, IdleOK
<1>5. job[w].dir = "thumbnails" \/ (job[w].dir = "kept media" /\ next # Idle)
      \/ (job[w].dir # "thumbnails" /\ next = Idle)
  BY DEF Stored
<1> QED
  BY <1>2, <1>3, <1>4, <1>5

LEMMA InstallSound ==
    ASSUME CacheShape, NEW w \in Workers, Install(w)
    PROVE  /\ Sound(w) /\ files' = (files \ {File(w, "partial")}) \cup {File(w, "cache")}
           /\ job'[w] \in Stored(w)
           /\ IF job[w].task = "keep" /\ job'[w] = Idle THEN Report(w) ELSE UNCHANGED <<reported, lost>>
<1> DEFINE from == File(w, "partial")
           to == File(w, "cache")
<1>1. job[w].at = "install" /\ from \in files /\ UNCHANGED dirs
  BY DEF Install, Leaves, Exists
<1>2. PICK next \in Stored(w) : /\ Rename(w, from, to, next)
                                /\ IF job[w].task = "keep" /\ next = Idle THEN Report(w) ELSE UNCHANGED <<reported, lost>>
  BY DEF Install
<1>3. /\ JobOK(job[w]) /\ job[w] \in JobRecord /\ job[w].open = Nothing
      /\ from \in Locations /\ to \in Locations
  BY <1>1, JobFacts DEF Fetching
<1>4. next \in JobRecord /\ JobOK(next)
  BY <1>1, StoredOK
<1>5. reported' \subseteq Messages /\ lost' \subseteq reported'
  BY <1>2, <1>3 DEF Report, JobOK, CacheShape
<1>6. from[1] = job[w].dir /\ to[1] = job[w].dir /\ from # to
  BY <1>3, LocationParts DEF File
<1> HIDE DEF from, to
<1>7. /\ files' = (files \ {from}) \cup {to} /\ FilesTyped' /\ job' \in [Workers -> JobRecord]
      /\ job'[w] = next /\ Others(w) /\ (Covered => Covered')
  BY <1>1, <1>2, <1>3, <1>4, <1>6, RenameDone
<1>8. \A f \in files' : f[1] \in OrdinaryDirs \cup dirs'
  BY <1>1, <1>6, <1>7 DEF CacheShape, FilesOK
<1>9. JobOK(job'[w])
  BY <1>4, <1>7
<1>10. Sound(w)
  BY <1>1, <1>5, <1>7, <1>8, <1>9, ShapeFrom DEF CacheShape
<1> QED
  BY <1>2, <1>7, <1>10 DEF from, to

\* The list of an eviction: each entry with its size.
LEMMA ListingOK ==
    ASSUME FilesOK, NEW list, list = {<<f, IF f \in cut THEN 0 ELSE 1>> : f \in Listed}
    PROVE  /\ list \subseteq Locations \X {0, 1} /\ IsFiniteSet(list)
           /\ \A e \in list : e[1][1] \in OrdinaryDirs
           /\ Cardinality(Ones(list)) <= Cardinality(Listed \ cut) /\ Cardinality(Listed \ cut) \in Nat
           /\ \A f \in Whole : <<f, 1>> \in list
<1>1. Listed \subseteq files /\ IsFiniteSet(Listed) /\ \A f \in Listed : f[1] \in OrdinaryDirs
  <2>1. Listed \in SUBSET files /\ \A f \in Listed : f[1] \in OrdinaryDirs
    BY DEF Listed, Entries
  <2> QED
    BY <2>1, FS_Subset DEF FilesOK
<1>2. list \subseteq Locations \X {0, 1} /\ \A e \in list : e[1] \in Listed
  BY <1>1 DEF FilesOK
<1>3. IsFiniteSet(list)
  <2> DEFINE size == [f \in Listed |-> <<f, IF f \in cut THEN 0 ELSE 1>>]
  <2>1. size \in Surjection(Listed, list)
    BY DEF Surjection
  <2> QED
    BY <1>1, <2>1, FS_Surjection
<1>4. IsFiniteSet(Listed \ cut) /\ Cardinality(Listed \ cut) \in Nat
  <2>1. Listed \ cut \in SUBSET Listed
    OBVIOUS
  <2> QED
    BY <1>1, <2>1, FS_Subset, FS_CardinalityType
<1>5. Cardinality(Ones(list)) <= Cardinality(Listed \ cut)
  <2> DEFINE one == [f \in Listed \ cut |-> <<f, 1>>]
  <2>1. Ones(list) = {<<f, 1>> : f \in Listed \ cut}
    BY DEF Ones
  <2>2. one \in Surjection(Listed \ cut, Ones(list))
    BY <2>1 DEF Surjection
  <2> QED
    BY <1>4, <2>2, FS_Surjection
<1>6. \A f \in Whole : <<f, 1>> \in list
  BY DEF Whole, Listed
<1> QED
  BY <1>1, <1>2, <1>3, <1>4, <1>5, <1>6

LEMMA ScanSound ==
    ASSUME CacheShape, NEW w \in Workers, Scan(w)
    PROVE  /\ Sound(w) /\ Same(job'[w], job[w]) /\ job'[w].at = "evict"
           /\ \A f \in Whole : <<f, 1>> \in job'[w].list
<1> DEFINE list == {<<f, IF f \in cut THEN 0 ELSE 1>> : f \in Listed}
           bytes == Cardinality(Listed \ cut)
           next == [job[w] EXCEPT !.at = "evict", !.bytes = bytes, !.list = list]
<1>1. job[w].at = "scan" /\ Becomes(w, next) /\ UNCHANGED <<files, cut, damaged, dirs, reported, lost>>
  BY DEF Scan, fileVars, policyVars
<1>2. /\ JobOK(job[w]) /\ job[w] \in JobRecord /\ job[w].open = Nothing
      /\ job[w].task = "keep" => job[w].key \in Messages /\ job[w].dir \in KeptDirs
      /\ job[w].task = "release" => job[w].awaited
  BY <1>1, JobFacts DEF JobOK
<1>3. /\ list \subseteq Locations \X {0, 1} /\ IsFiniteSet(list) /\ \A e \in list : e[1][1] \in OrdinaryDirs
      /\ Cardinality(Ones(list)) <= bytes /\ bytes \in Nat /\ \A f \in Whole : <<f, 1>> \in list
  BY ListingOK DEF CacheShape
<1> HIDE DEF list, bytes
<1>4. list \in SUBSET Listing /\ bytes \in Int
  BY <1>3 DEF Listing
<1>5. /\ next \in JobRecord /\ next.at = "evict" /\ Same(next, job[w])
      /\ next.open = Nothing /\ next.list = list /\ next.bytes = bytes
  BY <1>2, <1>4 DEF JobRecord, Places, Fetching, Same
<1> HIDE DEF next
<1>6. JobOK(next)
  BY <1>2, <1>3, <1>5 DEF JobOK, Fetching, Releasing, Moving, Same
<1>7. Sound(w) /\ job'[w] = next
  BY <1>1, <1>6, BecomesSound DEF CacheShape
<1> QED
  BY <1>3, <1>5, <1>7

\* An entry that is removed is no longer listed.
LEMMA EvictSound ==
    ASSUME CacheShape, NEW w \in Workers, Evict(w)
    PROVE  /\ Sound(w) /\ job'[w].at = "evict" /\ Same(job'[w], job[w])
           /\ \E entry \in job[w].list : /\ entry[1] \in Locations /\ entry[1][1] \in OrdinaryDirs
                                         /\ files' = files \ {entry[1]} /\ cut' = cut \ {entry[1]}
                                         /\ job'[w].list = job[w].list \ {entry}
<1>1. job[w].at = "evict" /\ UNCHANGED <<dirs, reported, lost>>
  BY DEF Evict, Evicting, Leaves
<1>2. PICK entry \in job[w].list :
         Unlink(w, entry[1], [job[w] EXCEPT !.list = @ \ {entry}, !.bytes = @ - entry[2]])
  BY DEF Evict
<1> DEFINE list == job[w].list \ {entry}
           bytes == job[w].bytes - entry[2]
           next == [job[w] EXCEPT !.list = list, !.bytes = bytes]
<1>3. /\ JobOK(job[w]) /\ job[w] \in JobRecord /\ job[w].open = Nothing
      /\ job[w].task = "keep" => job[w].key \in Messages /\ job[w].dir \in KeptDirs
      /\ job[w].task = "release" => job[w].awaited
      /\ job[w].list \subseteq Locations \X {0, 1} /\ IsFiniteSet(job[w].list)
      /\ \A e \in job[w].list : e[1][1] \in OrdinaryDirs
      /\ Cardinality(Ones(job[w].list)) <= job[w].bytes /\ job[w].bytes \in Int
  BY <1>1, JobFacts DEF JobOK, JobRecord
<1>4. /\ entry[1] \in Locations /\ entry[2] \in {0, 1} /\ entry[1][1] \in OrdinaryDirs
      /\ entry = <<entry[1], entry[2]>>
  BY <1>3
<1>5. IsFiniteSet(Ones(job[w].list)) /\ Cardinality(Ones(job[w].list)) \in Nat
  <2>1. Ones(job[w].list) \in SUBSET job[w].list
    BY DEF Ones
  <2> QED
    BY <1>3, <2>1, FS_Subset, FS_CardinalityType
<1>6. Cardinality(Ones(list)) <= bytes
  <2>1. CASE entry[2] = 1
    <3>1. Ones(list) = Ones(job[w].list) \ {entry} /\ entry \in Ones(job[w].list)
      BY <1>2, <2>1 DEF Ones
    <3>2. Cardinality(Ones(list)) = Cardinality(Ones(job[w].list)) - 1
      BY <1>5, <3>1, FS_RemoveElement
    <3> QED
      BY <1>3, <1>5, <2>1, <3>2
  <2>2. CASE entry[2] = 0
    <3>1. Ones(list) = Ones(job[w].list)
      BY <2>2 DEF Ones
    <3> QED
      BY <1>3, <1>5, <2>2, <3>1
  <2> QED
    BY <1>4, <2>1, <2>2
<1>7. IsFiniteSet(list) /\ list \in SUBSET Listing /\ bytes \in Int
  BY <1>3, <1>4, FS_RemoveElement DEF Listing
<1>8. Unlink(w, entry[1], next)
  BY <1>2
<1>9. list \subseteq job[w].list
  OBVIOUS
<1> HIDE DEF list, bytes
<1>10. /\ next \in JobRecord /\ next.at = "evict" /\ Same(next, job[w])
       /\ next.open = Nothing /\ next.list = list /\ next.bytes = bytes
  BY <1>1, <1>3, <1>7 DEF JobRecord, Places, Fetching, Same
<1> HIDE DEF next
<1>11. JobOK(next)
  BY <1>3, <1>6, <1>7, <1>9, <1>10 DEF JobOK, Fetching, Releasing, Moving, Same
<1>12. /\ files' = files \ {entry[1]} /\ cut' = cut \ {entry[1]} /\ FilesTyped'
       /\ job' \in [Workers -> JobRecord] /\ job'[w] = next /\ Others(w) /\ (Covered => Covered')
  BY <1>3, <1>4, <1>8, <1>10, UnlinkDone
<1>13. \A f \in files' : f[1] \in OrdinaryDirs \cup dirs'
  BY <1>1, <1>12 DEF CacheShape, FilesOK
<1>14. Sound(w)
  BY <1>1, <1>11, <1>12, <1>13, ShapeFrom DEF CacheShape
<1> QED
  BY <1>2, <1>4, <1>10, <1>12, <1>14 DEF list

LEMMA EvictedSound ==
    ASSUME CacheShape, NEW w \in Workers, Evicted(w)
    PROVE  Sound(w) /\ job'[w] = Idle
<1>1. /\ job[w].at = "evict" /\ Becomes(w, Idle) /\ UNCHANGED <<files, cut, damaged, dirs>>
      /\ UNCHANGED <<reported, lost>> \/ (reported' = {} /\ lost' = {})
  BY DEF Evicted, Withdrawn, fileVars
<1> QED
  BY <1>1, IdleOK, BecomesSound DEF CacheShape

\* The release between two of its operations.
LEMMA ReleaseFacts ==
    ASSUME CacheShape, NEW w \in Workers, job[w].at \in Releasing
    PROVE  /\ job[w] \in JobRecord /\ JobOK(job[w]) /\ job[w].open = Nothing
           /\ job[w].task = "release" /\ job[w].awaited /\ job[w].dir \in KeptDirs
           /\ job[w].at \in Moving => job[w].list \subseteq Locations /\ \A f \in job[w].list : f[1] \in KeptDirs
           /\ InKept(w) \subseteq Locations /\ \A f \in InKept(w) : f[1] \in KeptDirs
<1>1. JobOK(job[w]) /\ job[w] \in JobRecord /\ job[w].open = Nothing
  BY JobFacts DEF Releasing, Moving
<1>2. job[w].task = "release" /\ job[w].awaited /\ job[w].dir \in KeptDirs
  BY <1>1 DEF JobOK
<1> QED
  BY <1>1, <1>2 DEF JobOK, InKept, CacheShape, FilesOK

LEMMA ReleasingOK ==
    ASSUME NEW j \in JobRecord, j.at \in Releasing, j.task = "release", j.awaited, j.dir \in KeptDirs,
           j.open = Nothing,
           j.at \in Moving => j.list \subseteq Locations /\ \A f \in j.list : f[1] \in KeptDirs,
           j.at \in {"compare", "drop", "move"} => j.hand \in Locations /\ j.hand[1] \in KeptDirs
    PROVE  JobOK(j)
BY DEF JobOK, Fetching, Releasing, Moving

LEMMA AfterOK ==
    ASSUME CacheShape, NEW w \in Workers, job[w].at \in Releasing
    PROVE  /\ After(w) \in JobRecord /\ JobOK(After(w)) /\ After(w).open = Nothing
           /\ After(w).task = "release" /\ After(w).at \in {"list", "scan"}
<1>1. /\ JobOK(job[w]) /\ job[w] \in JobRecord /\ job[w].open = Nothing
      /\ job[w].task = "release" /\ job[w].awaited
  BY ReleaseFacts
<1>2. CASE job[w].dir = "kept media"
  <2>1. After(w) = [job[w] EXCEPT !.dir = "kept thumbnails", !.at = "list"]
    BY <1>2 DEF After
  <2>2. /\ After(w) \in JobRecord /\ After(w).open = Nothing /\ After(w).task = "release"
        /\ After(w).awaited /\ After(w).at = "list" /\ After(w).dir = "kept thumbnails"
    BY <1>1, <2>1 DEF JobRecord, Places, Releasing, KeptDirs
  <2> QED
    BY <2>2, ReleasingOK DEF Releasing, Moving, KeptDirs
<1>3. CASE job[w].dir # "kept media"
  <2>1. After(w) = [job[w] EXCEPT !.at = "scan"]
    BY <1>3 DEF After
  <2>2. /\ After(w) \in JobRecord /\ After(w).open = Nothing /\ After(w).task = "release"
        /\ After(w).awaited /\ After(w).at = "scan"
    BY <1>1, <2>1 DEF JobRecord, Places, Fetching
  <2> QED
    BY <2>2 DEF JobOK, Fetching, Releasing, Moving
<1> QED
  BY <1>2, <1>3

\* A step of a release that only looks.
LEMMA LooksSound ==
    ASSUME CacheShape, NEW w \in Workers, job[w].at \in Releasing, NEW next, JobOK(next),
           next.task = "release", next.at \in Releasing \cup {"scan"}, Becomes(w, next),
           UNCHANGED <<fileVars, policyVars>>
    PROVE  Sound(w) /\ job'[w].task = "release" /\ job'[w].at \in Releasing \cup {"scan"}
<1>1. job[w].at \notin {"fill", "write"}
  BY DEF Releasing, Moving
<1>2. Sound(w) /\ job'[w] = next
  BY <1>1, BecomesSound DEF CacheShape, fileVars, policyVars
<1> QED
  BY <1>2

LEMMA ListKeptSound ==
    ASSUME CacheShape, NEW w \in Workers, ListKept(w)
    PROVE  Sound(w) /\ job'[w].task = "release" /\ job'[w].at \in Releasing \cup {"scan"}
<1>1. job[w].at \in Releasing /\ UNCHANGED <<fileVars, policyVars>>
  BY DEF ListKept, Releasing
<1>2. /\ JobOK(job[w]) /\ job[w] \in JobRecord /\ job[w].open = Nothing
      /\ job[w].task = "release" /\ job[w].dir \in KeptDirs /\ job[w].awaited
      /\ InKept(w) \subseteq Locations /\ \A f \in InKept(w) : f[1] \in KeptDirs
  BY <1>1, ReleaseFacts
<1>3. CASE job[w].dir \in dirs
  <2> DEFINE list == InKept(w)
             next == [job[w] EXCEPT !.at = "look", !.list = list]
  <2>1. Becomes(w, next)
    BY <1>3 DEF ListKept
  <2>2. list \in SUBSET Listing /\ list \subseteq Locations /\ \A f \in list : f[1] \in KeptDirs
    BY <1>2 DEF Listing
  <2> HIDE DEF list
  <2>3. /\ next \in JobRecord /\ next.at = "look" /\ next.task = "release" /\ next.dir \in KeptDirs
        /\ next.open = Nothing /\ next.awaited /\ next.list = list
    BY <1>2, <2>2 DEF JobRecord, Places, Releasing, Moving
  <2> HIDE DEF next
  <2>4. JobOK(next)
    BY <2>2, <2>3, ReleasingOK DEF Releasing, Moving
  <2> QED
    BY <1>1, <2>1, <2>3, <2>4, LooksSound DEF Releasing, Moving
<1>4. CASE job[w].dir \notin dirs
  <2>1. Becomes(w, After(w))
    BY <1>4 DEF ListKept
  <2>2. JobOK(After(w)) /\ After(w).task = "release" /\ After(w).at \in {"list", "scan"}
    BY <1>1, AfterOK
  <2> QED
    BY <1>1, <2>1, <2>2, LooksSound DEF Releasing
<1> QED
  BY <1>3, <1>4

LEMMA LookKeptSound ==
    ASSUME CacheShape, NEW w \in Workers, LookKept(w)
    PROVE  Sound(w) /\ job'[w].task = "release" /\ job'[w].at \in Releasing \cup {"scan"}
<1>1. job[w].at = "look" /\ job[w].at \in Releasing /\ UNCHANGED <<fileVars, policyVars>>
  BY DEF LookKept, Releasing, Moving
<1>2. /\ JobOK(job[w]) /\ job[w] \in JobRecord /\ job[w].open = Nothing
      /\ job[w].task = "release" /\ job[w].dir \in KeptDirs /\ job[w].awaited
      /\ InKept(w) \subseteq Locations /\ \A f \in InKept(w) : f[1] \in KeptDirs
      /\ job[w].list \subseteq Locations /\ \A f \in job[w].list : f[1] \in KeptDirs
  BY <1>1, ReleaseFacts DEF Moving
<1>3. PICK file \in job[w].list \cup InKept(w) :
         LET next == [job[w] EXCEPT !.list = @ \ {file}]
         IN  Becomes(w, IF Exists(file) THEN [next EXCEPT !.at = "compare", !.hand = file] ELSE next)
  BY DEF LookKept
<1>4. file \in Locations /\ file[1] \in KeptDirs
  BY <1>2
<1> DEFINE list == job[w].list \ {file}
           next == [job[w] EXCEPT !.list = list]
           held == [next EXCEPT !.at = "compare", !.hand = file]
<1>5. list \in SUBSET Listing /\ list \subseteq Locations /\ \A f \in list : f[1] \in KeptDirs
  BY <1>2 DEF Listing
<1>6. Becomes(w, held) \/ Becomes(w, next)
  BY <1>3
<1> HIDE DEF list
<1>7. /\ next \in JobRecord /\ next.at = "look" /\ next.task = "release" /\ next.dir \in KeptDirs
      /\ next.open = Nothing /\ next.awaited /\ next.list = list
  BY <1>1, <1>2, <1>5 DEF JobRecord
<1> HIDE DEF next
<1>8. /\ held \in JobRecord /\ held.at = "compare" /\ held.task = "release" /\ held.dir \in KeptDirs
      /\ held.open = Nothing /\ held.awaited /\ held.list = list /\ held.hand = file
  BY <1>4, <1>7 DEF JobRecord, Places, Releasing, Moving
<1> HIDE DEF held
<1>9. JobOK(next)
  BY <1>5, <1>7, ReleasingOK DEF Releasing, Moving
<1>10. JobOK(held)
  BY <1>4, <1>5, <1>8, ReleasingOK DEF Releasing, Moving
<1>11. next.at \in Releasing \cup {"scan"} /\ held.at \in Releasing \cup {"scan"}
  BY <1>7, <1>8 DEF Releasing, Moving
<1> QED
  BY <1>1, <1>6, <1>7, <1>8, <1>9, <1>10, <1>11, LooksSound

LEMMA LookOrdinarySound ==
    ASSUME CacheShape, NEW w \in Workers, LookOrdinary(w)
    PROVE  Sound(w) /\ job'[w].task = "release" /\ job'[w].at \in Releasing \cup {"scan"}
<1> DEFINE at == IF Exists(Destination(job[w].hand)) THEN "drop" ELSE "move"
           next == [job[w] EXCEPT !.at = at]
<1>1. /\ job[w].at = "compare" /\ job[w].at \in Releasing /\ UNCHANGED <<fileVars, policyVars>>
      /\ Becomes(w, next)
  BY DEF LookOrdinary, Releasing, Moving
<1>2. /\ JobOK(job[w]) /\ job[w] \in JobRecord /\ job[w].open = Nothing
      /\ job[w].task = "release" /\ job[w].dir \in KeptDirs /\ job[w].awaited
      /\ job[w].list \subseteq Locations /\ \A f \in job[w].list : f[1] \in KeptDirs
      /\ job[w].hand \in Locations /\ job[w].hand[1] \in KeptDirs
  BY <1>1, ReleaseFacts DEF Moving, JobOK
<1>3. at \in {"drop", "move"}
  OBVIOUS
<1> HIDE DEF at
<1>4. /\ next \in JobRecord /\ next.at = at /\ next.task = "release" /\ next.dir \in KeptDirs
      /\ next.open = Nothing /\ next.awaited /\ next.list = job[w].list /\ next.hand = job[w].hand
  BY <1>2, <1>3 DEF JobRecord, Places, Releasing, Moving
<1> HIDE DEF next
<1>5. next.at \in Releasing
  BY <1>3, <1>4 DEF Releasing, Moving
<1>6. JobOK(next)
  BY <1>2, <1>4, <1>5, ReleasingOK
<1> QED
  BY <1>1, <1>4, <1>5, <1>6, LooksSound

LEMMA DestinationOK ==
    ASSUME NEW file \in Locations, file[1] \in KeptDirs
    PROVE  /\ Destination(file) \in Locations /\ Destination(file)[1] \in OrdinaryDirs
           /\ Destination(file) # file
<1>1. Unkept[file[1]] \in OrdinaryDirs
  BY DEF Unkept, OrdinaryDirs
<1>2. Destination(file) \in Locations /\ Destination(file)[1] = Unkept[file[1]]
  BY <1>1, LocationParts DEF Destination
<1>3. file[1] \notin OrdinaryDirs
  BY DEF OrdinaryDirs, KeptDirs
<1> QED
  BY <1>1, <1>2, <1>3

LEMMA MoveKeptSound ==
    ASSUME CacheShape, NEW w \in Workers, MoveKept(w)
    PROVE  Sound(w) /\ job'[w].task = "release" /\ job'[w].at \in Releasing \cup {"scan"}
<1> DEFINE file == job[w].hand
           next == [job[w] EXCEPT !.at = "look", !.hand = Nothing]
<1>1. /\ job[w].at \in {"drop", "move"} /\ job[w].at \in Releasing /\ file \in files
      /\ UNCHANGED <<dirs, reported, lost>>
      /\ Unlink(w, file, next) \/ Rename(w, file, Destination(file), next)
  BY DEF MoveKept, Leaves, Exists, Releasing, Moving
<1>2. /\ JobOK(job[w]) /\ job[w] \in JobRecord /\ job[w].open = Nothing
      /\ job[w].task = "release" /\ job[w].dir \in KeptDirs /\ job[w].awaited
      /\ job[w].list \subseteq Locations /\ \A f \in job[w].list : f[1] \in KeptDirs
      /\ file \in Locations /\ file[1] \in KeptDirs
  BY <1>1, ReleaseFacts DEF Moving, JobOK
<1>3. Destination(file) \in Locations /\ Destination(file)[1] \in OrdinaryDirs /\ Destination(file) # file
  BY <1>2, DestinationOK
<1>4. /\ next \in JobRecord /\ next.at = "look" /\ next.task = "release" /\ next.dir \in KeptDirs
      /\ next.open = Nothing /\ next.awaited /\ next.list = job[w].list
  BY <1>2 DEF JobRecord, Places, Releasing, Moving
<1> HIDE DEF file, next
<1>5. JobOK(next) /\ next.at \in Releasing
  BY <1>2, <1>4, ReleasingOK DEF Releasing, Moving
<1>6. CASE Unlink(w, file, next)
  <2>1. /\ files' = files \ {file} /\ FilesTyped' /\ job' \in [Workers -> JobRecord]
        /\ job'[w] = next /\ Others(w) /\ (Covered => Covered')
    BY <1>2, <1>4, <1>6, UnlinkDone
  <2>2. \A f \in files' : f[1] \in OrdinaryDirs \cup dirs'
    BY <1>1, <2>1 DEF CacheShape, FilesOK
  <2>3. Sound(w)
    BY <1>1, <1>5, <2>1, <2>2, ShapeFrom DEF CacheShape
  <2> QED
    BY <1>4, <1>5, <2>1, <2>3
<1>7. CASE Rename(w, file, Destination(file), next)
  <2>1. /\ files' = (files \ {file}) \cup {Destination(file)} /\ FilesTyped' /\ job' \in [Workers -> JobRecord]
        /\ job'[w] = next /\ Others(w) /\ (Covered => Covered')
    BY <1>1, <1>2, <1>3, <1>4, <1>7, RenameDone
  <2>2. \A f \in files' : f[1] \in OrdinaryDirs \cup dirs'
    BY <1>1, <1>3, <2>1 DEF CacheShape, FilesOK
  <2>3. Sound(w)
    BY <1>1, <1>5, <2>1, <2>2, ShapeFrom DEF CacheShape
  <2> QED
    BY <1>4, <1>5, <2>1, <2>3
<1> QED
  BY <1>1, <1>6, <1>7

LEMMA ClearKeptSound ==
    ASSUME CacheShape, NEW w \in Workers, ClearKept(w)
    PROVE  Sound(w) /\ job'[w].task = "release" /\ job'[w].at \in Releasing \cup {"scan"}
<1> DEFINE list == InKept(w)
           next == [job[w] EXCEPT !.at = "clear", !.list = list]
<1>1. job[w].at \in Releasing /\ UNCHANGED <<fileVars, policyVars>> /\ Becomes(w, next)
  BY DEF ClearKept, Releasing, Moving
<1>2. /\ JobOK(job[w]) /\ job[w] \in JobRecord /\ job[w].open = Nothing
      /\ job[w].task = "release" /\ job[w].dir \in KeptDirs /\ job[w].awaited
      /\ list \subseteq Locations /\ \A f \in list : f[1] \in KeptDirs
  BY <1>1, ReleaseFacts
<1> HIDE DEF list
<1>3. list \in SUBSET Listing
  BY <1>2 DEF Listing
<1>4. /\ next \in JobRecord /\ next.at = "clear" /\ next.task = "release" /\ next.dir \in KeptDirs
      /\ next.open = Nothing /\ next.awaited /\ next.list = list
  BY <1>2, <1>3 DEF JobRecord, Places, Releasing, Moving
<1> HIDE DEF next
<1>5. JobOK(next) /\ next.at \in Releasing
  BY <1>2, <1>4, ReleasingOK DEF Releasing, Moving
<1> QED
  BY <1>1, <1>4, <1>5, LooksSound

LEMMA UnlinkKeptSound ==
    ASSUME CacheShape, NEW w \in Workers, UnlinkKept(w)
    PROVE  Sound(w) /\ job'[w].task = "release" /\ job'[w].at \in Releasing \cup {"scan"}
<1>1. job[w].at = "clear" /\ job[w].at \in Releasing /\ UNCHANGED <<dirs, reported, lost>>
  BY DEF UnlinkKept, Leaves, Releasing, Moving
<1>2. /\ JobOK(job[w]) /\ job[w] \in JobRecord /\ job[w].open = Nothing
      /\ job[w].task = "release" /\ job[w].dir \in KeptDirs /\ job[w].awaited
      /\ InKept(w) \subseteq Locations
      /\ job[w].list \subseteq Locations /\ \A f \in job[w].list : f[1] \in KeptDirs
  BY <1>1, ReleaseFacts DEF Moving
<1>3. PICK file \in job[w].list \cup InKept(w) : Unlink(w, file, [job[w] EXCEPT !.list = @ \ {file}])
  BY DEF UnlinkKept
<1> DEFINE list == job[w].list \ {file}
           next == [job[w] EXCEPT !.list = list]
<1>4. list \in SUBSET Listing /\ list \subseteq Locations /\ \A f \in list : f[1] \in KeptDirs
  BY <1>2 DEF Listing
<1>5. Unlink(w, file, next) /\ file \in Locations
  BY <1>2, <1>3
<1> HIDE DEF list
<1>6. /\ next \in JobRecord /\ next.at = "clear" /\ next.task = "release" /\ next.dir \in KeptDirs
      /\ next.open = Nothing /\ next.awaited /\ next.list = list
  BY <1>1, <1>2, <1>4 DEF JobRecord
<1> HIDE DEF next
<1>7. JobOK(next) /\ next.at \in Releasing
  BY <1>4, <1>6, ReleasingOK DEF Releasing, Moving
<1>8. /\ files' = files \ {file} /\ FilesTyped' /\ job' \in [Workers -> JobRecord]
      /\ job'[w] = next /\ Others(w) /\ (Covered => Covered')
  BY <1>2, <1>5, <1>6, UnlinkDone
<1>9. \A f \in files' : f[1] \in OrdinaryDirs \cup dirs'
  BY <1>1, <1>8 DEF CacheShape, FilesOK
<1>10. Sound(w)
  BY <1>1, <1>7, <1>8, <1>9, ShapeFrom DEF CacheShape
<1> QED
  BY <1>6, <1>7, <1>8, <1>10

LEMMA RemoveKeptSound ==
    ASSUME CacheShape, NEW w \in Workers, RemoveKept(w)
    PROVE  Sound(w) /\ job'[w].task = "release" /\ job'[w].at \in Releasing \cup {"scan"}
<1>1. /\ job[w].at \in Releasing /\ Becomes(w, After(w)) /\ InKept(w) = {}
      /\ UNCHANGED <<files, cut, damaged, reported, lost>> /\ dirs' = dirs \ {job[w].dir}
  BY DEF RemoveKept, policyVars, Releasing, Moving
<1>2. /\ After(w) \in JobRecord /\ JobOK(After(w)) /\ After(w).open = Nothing
      /\ After(w).task = "release" /\ After(w).at \in {"list", "scan"}
  BY <1>1, AfterOK
<1>3. job[w].open = Nothing
  BY <1>1, ReleaseFacts
<1> DEFINE next == After(w)
<1>4. /\ FilesTyped' /\ job' \in [Workers -> JobRecord] /\ job'[w] = next /\ Others(w)
      /\ Covered => Covered'
  BY <1>1, <1>2, <1>3, BecomesDone
<1>5. \A f \in files' : f[1] \in OrdinaryDirs \cup dirs'
  BY <1>1 DEF CacheShape, FilesOK, InKept
<1>6. Sound(w)
  BY <1>1, <1>2, <1>4, <1>5, ShapeFrom DEF CacheShape
<1> QED
  BY <1>2, <1>4, <1>6 DEF Releasing

-----------------------------------------------------------------------------
(* The shape of the cache holds always, and what is cut is being written,     *)
(* or has its excuse.                                                         *)

Fails(w) == \/ TouchFails(w) \/ CreateFails(w) \/ InstallFails(w) \/ EvictFails(w)
            \/ MoveFails(w) \/ RemoveFails(w)

Releases(w) == \/ ListKept(w) \/ LookKept(w) \/ LookOrdinary(w) \/ MoveKept(w)
               \/ ClearKept(w) \/ UnlinkKept(w) \/ RemoveKept(w)

LEMMA FailsSound ==
    ASSUME CacheShape, NEW w \in Workers, Fails(w)
    PROVE  Fail(w) /\ Sound(w) /\ job'[w] = Idle
<1>1. Fail(w) /\ job[w].at \notin {"fill", "write"}
  BY DEF Fails, TouchFails, CreateFails, InstallFails, EvictFails, Evicting, MoveFails, RemoveFails
<1> QED
  BY <1>1, FailSound

LEMMA ReleasesSound ==
    ASSUME CacheShape, NEW w \in Workers, Releases(w)
    PROVE  Sound(w) /\ job'[w].task = "release" /\ job'[w].at \in Releasing \cup {"scan"}
BY ListKeptSound, LookKeptSound, LookOrdinarySound, MoveKeptSound, ClearKeptSound, UnlinkKeptSound,
   RemoveKeptSound DEF Releases

LEMMA StepSound ==
    ASSUME CacheShape, NEW w \in Workers, Step(w)
    PROVE  Sound(w)
<1>1. CASE Read(w) \/ Touch(w) \/ Refill(w) \/ Telegram(w)
  BY <1>1, ReadSound, TouchSound, RefillSound, TelegramSound
<1>2. CASE MakeDirectory(w) \/ CreatePartial(w) \/ WritePartial(w) \/ Install(w)
  BY <1>2, MakeDirectorySound, CreatePartialSound, WritePartialSound, InstallSound
<1>3. CASE Scan(w) \/ Evict(w) \/ Evicted(w)
  BY <1>3, ScanSound, EvictSound, EvictedSound
<1>4. CASE Releases(w)
  BY <1>4, ReleasesSound
<1>5. CASE Fails(w)
  BY <1>5, FailsSound
<1> QED
  BY <1>1, <1>2, <1>3, <1>4, <1>5 DEF Step, Fails, Releases

LEMMA StopShape ==
    ASSUME CacheShape, Stop
    PROVE  CacheShape' /\ Covered' /\ job' = [w \in Workers |-> Idle]
<1>1. /\ job' = [w \in Workers |-> Idle] /\ UNCHANGED dirs
      /\ files' = {f \in files : Entry(f)} /\ cut' = {f \in cut : Entry(f)} /\ damaged' = cut'
      /\ UNCHANGED <<reported, lost>> \/ (reported' = {} /\ lost' = {})
  BY DEF Stop, Withdrawn
<1>2. Covered'
  BY <1>1 DEF Covered
<1>3. files' \in SUBSET files
  BY <1>1
<1>4. IsFiniteSet(files')
  BY <1>3, FS_Subset DEF CacheShape, FilesOK
<1>5. FilesOK'
  BY <1>1, <1>4 DEF CacheShape, FilesOK
<1>6. job' \in [Workers -> JobRecord] /\ \A w \in Workers : JobOK(job'[w])
  BY <1>1, IdleOK
<1> QED
  BY <1>1, <1>2, <1>5, <1>6 DEF CacheShape

CutInv == CacheShape /\ Covered

LEMMA CutInit == CacheInit => CutInv
<1> SUFFICES ASSUME CacheInit PROVE CutInv
  OBVIOUS
<1>1. FilesOK
  BY FS_EmptySet DEF CacheInit, FilesOK
<1>2. job \in [Workers -> JobRecord] /\ \A w \in Workers : JobOK(job[w])
  BY IdleOK DEF CacheInit
<1> QED
  BY <1>1, <1>2 DEF CacheInit, CutInv, CacheShape, Covered

LEMMA CutNext == CutInv /\ [CacheNext]_cacheVars => CutInv'
<1> SUFFICES ASSUME CutInv, [CacheNext]_cacheVars PROVE CutInv'
  OBVIOUS
<1>1. CacheShape
  BY DEF CutInv
<1>2. ASSUME NEW w \in Workers, Sound(w) PROVE CutInv'
  BY <1>2 DEF Sound, CutInv
<1>3. CASE \E w \in Workers : Effect(w) \/ Step(w)
  BY <1>1, <1>2, <1>3, EffectSound, StepSound
<1>4. CASE KeepChat
  <2>1. UNCHANGED <<files, cut, damaged, dirs, job, reported, lost>>
    BY <1>4 DEF KeepChat, fileVars
  <2> QED
    BY <2>1 DEF CutInv, CacheShape, FilesOK, Covered
<1>5. CASE Stop
  BY <1>1, <1>5, StopShape DEF CutInv
<1>6. CASE UNCHANGED cacheVars
  BY <1>6 DEF CutInv, CacheShape, FilesOK, Covered, cacheVars, fileVars, policyVars
<1> QED
  BY <1>3, <1>4, <1>5, <1>6 DEF CacheNext

LEMMA CutAlways == CacheSpec => []CutInv
BY CutInit, CutNext, PTL DEF CacheSpec

\* The cache has its types, and every kept file has its directory (put_retained
\* makes it, and release removes it with what is in it).
THEOREM CacheTypeCorrect == CacheSpec => []CacheTypeOK
<1>1. CutInv => CacheTypeOK
  BY DEF CutInv, CacheShape, FilesOK, CacheTypeOK
<1> QED
  BY <1>1, CutAlways, PTL

\* Effects that overlap, fail or are cancelled leave no entry without its bytes,
\* but for one that wrote back a cut entry, or was stopped: whoever truncated it
\* is about to write all of it (cache/mod.rs read_path and write_path).
THEOREM NothingLeftCutAlways == CacheSpec => []NothingLeftCut
<1>1. CutInv => NothingLeftCut
  BY DEF CutInv, Covered, NothingLeftCut, Intact
<1> QED
  BY <1>1, CutAlways, PTL

-----------------------------------------------------------------------------
(* What was promised is on disk.                                              *)

\* An effect that is past the write of an original it keeps has it on disk,
\* unless a release has overtaken it.
HeldFor(j) ==
    j.task = "keep" /\ ~j.overtaken /\ (j.at = "fill" \/ j.dir = "kept thumbnails")
        => Original(j.key) \in files

\* One release at a time, while the policy is off but the application still
\* shows the chat as kept.
ReleaseAlone ==
    /\ \A v, w \in Workers : job[v].task = "release" /\ job[w].task = "release" => v = w
    /\ (\E w \in Workers : job[w].task = "release") => ~kept /\ keeping

\* What promises something runs while the policy is on, and nothing is promised
\* of a chat that is not kept.
PolicyInv ==
    /\ kept => keeping
    /\ ~keeping => reported = {}
    /\ \A w \in Workers : job[w].task = "keep" => kept \/ job[w].overtaken

\* What was promised is on disk, but for what a failed release has moved.
OnDisk == kept => \A m \in reported \ lost : Original(m) \in files

PromiseInv == /\ CacheShape /\ ReleaseAlone /\ PolicyInv /\ OnDisk
              /\ \A w \in Workers : HeldFor(job[w])

\* What a step of w does to files, promises and the policy.
OriginalsStay == \A m \in Messages : Original(m) \in files => Original(m) \in files'

PromisesOnlyWhatIsKept(w) ==
    \/ reported' = reported /\ lost' = lost
    \/ /\ kept /\ reported' = reported \cup {job[w].key} /\ lost' = lost \ {job[w].key}
       /\ Original(job[w].key) \in files'

\* The effects that keep an original are still overtaken, or run while the
\* policy is on.
LEMMA OthersPromise ==
    ASSUME PromiseInv, NEW w \in Workers, Sound(w)
    PROVE  \A v \in Workers : v # w =>
               /\ job'[v].task = job[v].task
               /\ job'[v].task = "keep" => kept \/ job'[v].overtaken
               /\ OriginalsStay => HeldFor(job[v])'
<1> SUFFICES ASSUME NEW v \in Workers, v # w
             PROVE  /\ job'[v].task = job[v].task
                    /\ job'[v].task = "keep" => kept \/ job'[v].overtaken
                    /\ OriginalsStay => HeldFor(job[v])'
  OBVIOUS
<1>1. /\ Kin(job'[v], job[v]) /\ HeldFor(job[v]) /\ JobOK(job[v])
      /\ job[v].task = "keep" => kept \/ job[v].overtaken
  BY DEF PromiseInv, CacheShape, PolicyInv, Sound, Others
<1>2. job[v].task = "keep" => job[v].key \in Messages
  BY <1>1 DEF JobOK
<1>3. job'[v].overtaken \in BOOLEAN /\ job[v].overtaken \in BOOLEAN
  BY <1>1 DEF Kin, JobOK, JobRecord
<1> QED
  BY <1>1, <1>2, <1>3 DEF HeldFor, Kin, OriginalsStay

LEMMA PromiseFrom ==
    ASSUME PromiseInv, NEW w \in Workers, Sound(w),
           job'[w].task = "release" => job[w].task = "release",
           job'[w].task = "keep" => \/ job[w].task = "keep" /\ (job[w].overtaken => job'[w].overtaken)
                                    \/ ~kept => job'[w].overtaken,
           UNCHANGED <<kept, keeping>>,
           PromisesOnlyWhatIsKept(w), HeldFor(job[w])',
           OriginalsStay \/ job[w].task = "release"
    PROVE  PromiseInv'
<1>1. /\ CacheShape' /\ ReleaseAlone /\ PolicyInv /\ OnDisk
  BY DEF Sound, PromiseInv
<1>2. \A v \in Workers : v # w => /\ job'[v].task = job[v].task
                                  /\ job'[v].task = "keep" => kept \/ job'[v].overtaken
                                  /\ OriginalsStay => HeldFor(job[v])'
  BY OthersPromise
<1>3. \A v \in Workers : job'[v].task = "release" => job[v].task = "release"
  BY <1>2
<1>4. ReleaseAlone'
  BY <1>1, <1>3 DEF ReleaseAlone
<1>5. \A v \in Workers : job'[v].task = "keep" => kept' \/ job'[v].overtaken
  <2>1. job'[w].task = "keep" => kept' \/ job'[w].overtaken
    BY <1>1 DEF PolicyInv
  <2> QED
    BY <1>2, <2>1
<1>6. PolicyInv'
  BY <1>1, <1>5 DEF PolicyInv, PromisesOnlyWhatIsKept
<1>7. CASE OriginalsStay
  <2>1. reported \subseteq Messages
    BY DEF PromiseInv, CacheShape
  <2>2. OnDisk'
    BY <1>1, <1>7, <2>1 DEF OnDisk, OriginalsStay, PromisesOnlyWhatIsKept, Original
  <2> QED
    BY <1>1, <1>2, <1>4, <1>6, <1>7, <2>2 DEF PromiseInv
<1>8. CASE job[w].task = "release"
  <2>1. ~kept
    BY <1>1, <1>8 DEF ReleaseAlone
  <2>2. OnDisk'
    BY <2>1 DEF OnDisk
  <2>3. \A v \in Workers : v # w => HeldFor(job[v])'
    BY <1>2, <2>1 DEF HeldFor
  <2> QED
    BY <1>1, <1>4, <1>6, <2>2, <2>3 DEF PromiseInv
<1> QED
  BY <1>7, <1>8

LEMMA OriginalParts ==
    ASSUME CacheShape, NEW w \in Workers
    PROVE  /\ \A m \in Messages : /\ Original(m) \in Locations /\ Original(m)[1] = "kept media"
                                  /\ Original(m)[3] = "cache"
           /\ File(w, "cache")[1] = job[w].dir /\ File(w, "cache")[3] = "cache"
           /\ File(w, "partial")[3] = "partial"
           /\ job[w].task = "keep" => job[w].key \in Messages
           /\ job[w].dir = "kept media" => File(w, "cache") = Original(job[w].key)
<1>1. job[w].task = "keep" => job[w].key \in Messages
  BY DEF CacheShape, JobOK
<1>2. \A m \in Messages : Original(m) \in Locations
  BY LocationParts DEF Original, Pictures, KeptDirs
<1> QED
  BY <1>1, <1>2 DEF Original, File

\* A step that ends an effect.
LEMMA EndsKept ==
    ASSUME PromiseInv, NEW w \in Workers, Sound(w), job'[w] = Idle,
           UNCHANGED <<kept, keeping, reported, lost>>, OriginalsStay
    PROVE  PromiseInv'
<1>1. job'[w].task = "none" /\ HeldFor(job[w])'
  BY IdleOK DEF HeldFor
<1>2. PromisesOnlyWhatIsKept(w)
  BY DEF PromisesOnlyWhatIsKept
<1> QED
  BY <1>1, <1>2, PromiseFrom

\* The release ends, or fails: no other is left, and all that keeps an original
\* is overtaken.
LEMMA ReleaseEnds ==
    ASSUME PromiseInv, NEW w \in Workers, Sound(w), job'[w] = Idle, job[w].task = "release"
    PROVE  /\ ReleaseAlone' /\ ~kept /\ keeping
           /\ \A v \in Workers : job'[v].task = "keep" => job'[v].overtaken
           /\ \A v \in Workers : HeldFor(job[v])'
<1>1. ReleaseAlone
  BY DEF PromiseInv
<1>2. ~kept /\ keeping
  BY <1>1 DEF ReleaseAlone
<1>3. \A v \in Workers : v # w => /\ job'[v].task = job[v].task
                                  /\ job'[v].task = "keep" => kept \/ job'[v].overtaken
  BY OthersPromise
<1>4. job'[w].task = "none"
  BY IdleOK
<1>5. \A v \in Workers : job'[v].task = "keep" => job'[v].overtaken
  BY <1>2, <1>3, <1>4
<1>6. \A v \in Workers : job'[v].task # "release"
  BY <1>1, <1>3, <1>4 DEF ReleaseAlone
<1> QED
  BY <1>2, <1>5, <1>6 DEF ReleaseAlone, HeldFor

LEMMA EffectPromise ==
    ASSUME PromiseInv, NEW w \in Workers, Effect(w)
    PROVE  PromiseInv'
<1>1. CacheShape /\ Sound(w) /\ JobOK(job[w])
  BY EffectSound DEF PromiseInv, CacheShape
<1>2. ASSUME NEW k \in Pictures, Show(w, k) PROVE PromiseInv'
  <2> DEFINE first == Begun("show", k, "thumbnails", "read")
  <2>1. job' = [job EXCEPT ![w] = first] /\ UNCHANGED <<files, kept, keeping, reported, lost>>
    BY <1>2 DEF Show, Ready, Becomes, fileVars, policyVars
  <2>2. first.task = "show"
    BY IdleOK DEF Begun, JobRecord
  <2> HIDE DEF first
  <2>3. job'[w].task = "show"
    BY <1>1, <2>1, <2>2 DEF CacheShape
  <2>4. HeldFor(job[w])' /\ PromisesOnlyWhatIsKept(w) /\ OriginalsStay
    BY <2>1, <2>3 DEF HeldFor, PromisesOnlyWhatIsKept, OriginalsStay
  <2> QED
    BY <1>1, <2>1, <2>3, <2>4, PromiseFrom
<1>3. ASSUME NEW m \in Messages, Keep(w, m) PROVE PromiseInv'
  <2> DEFINE b == ~kept
             first == [Begun("keep", m, "kept media", "read") EXCEPT !.overtaken = b]
  <2>1. job' = [job EXCEPT ![w] = first] /\ UNCHANGED <<files, kept, keeping, reported, lost>>
    BY <1>3 DEF Keep, Ready, Becomes, fileVars, policyVars
  <2>2. b \in BOOLEAN /\ (~kept => b)
    OBVIOUS
  <2> HIDE DEF b
  <2>3. first.task = "keep" /\ first.at = "read" /\ first.dir = "kept media" /\ first.overtaken = b
    BY <2>2, BegunOK
  <2> HIDE DEF first
  <2>4. job'[w] = first
    BY <1>1, <2>1 DEF CacheShape
  <2>5. HeldFor(job[w])' /\ PromisesOnlyWhatIsKept(w) /\ OriginalsStay
    BY <2>1, <2>3, <2>4 DEF HeldFor, PromisesOnlyWhatIsKept, OriginalsStay
  <2>6. job'[w].task # "release" /\ (job'[w].task = "keep" => (~kept => job'[w].overtaken))
    BY <2>2, <2>3, <2>4
  <2> QED
    BY <1>1, <2>1, <2>5, <2>6, PromiseFrom
<1>4. CASE Release(w)
  <2> DEFINE first == Begun("release", Nothing, "kept media", "list")
  <2>1. /\ kept' = FALSE /\ keeping /\ Running("release") = {}
        /\ UNCHANGED <<files, keeping, reported, lost>>
        /\ job' = [v \in Workers |-> IF v = w THEN first ELSE Overtaken(job[v])]
    BY <1>4 DEF Release, Ready, fileVars
  <2>2. \A v \in Workers : JobOK(job[v]) /\ job[v].task # "release"
    BY <1>1, <2>1 DEF Running, CacheShape, JobOK
  <2>3. first.task = "release"
    BY IdleOK DEF Begun, JobRecord
  <2> HIDE DEF first
  <2>4. /\ job'[w].task = "release"
        /\ \A v \in Workers : v # w => job'[v] = Overtaken(job[v])
    BY <2>1, <2>3
  <2>5. ASSUME NEW v \in Workers, v # w
        PROVE  job'[v].task # "release" /\ (job'[v].task = "keep" => job'[v].overtaken)
    <3>1. /\ Kin(Overtaken(job[v]), job[v])
          /\ job[v].task = "keep" => Overtaken(job[v]).overtaken
      BY <2>2, OvertakenKin
    <3> QED
      BY <2>2, <2>4, <2>5, <3>1 DEF Kin
  <2>6. \A v \in Workers : HeldFor(job[v])'
    BY <2>4, <2>5 DEF HeldFor
  <2>7. ReleaseAlone'
    BY <2>1, <2>4, <2>5 DEF ReleaseAlone
  <2>8. PolicyInv'
    BY <2>1, <2>4, <2>5 DEF PolicyInv
  <2>9. OnDisk' /\ CacheShape'
    BY <1>1, <2>1 DEF OnDisk, Sound
  <2> QED
    BY <2>6, <2>7, <2>8, <2>9 DEF PromiseInv
<1>5. CASE Cancel(w)
  <2>1. /\ UNCHANGED <<files, kept, keeping, reported, lost>> /\ job[w].task = "show"
        /\ Becomes(w, IF job[w].at = "telegram" THEN Idle ELSE [job[w] EXCEPT !.awaited = FALSE])
    BY <1>5 DEF Cancel, fileVars, policyVars
  <2>2. job'[w] \in {Idle, [job[w] EXCEPT !.awaited = FALSE]}
    BY <1>1, <2>1 DEF Becomes, CacheShape
  <2>3. [job[w] EXCEPT !.awaited = FALSE].task = "show"
    BY <1>1, <2>1 DEF JobOK, JobRecord
  <2>4. job'[w].task \in {"none", "show"}
    BY <2>2, <2>3, IdleOK
  <2>5. HeldFor(job[w])' /\ PromisesOnlyWhatIsKept(w) /\ OriginalsStay
    BY <2>1, <2>4 DEF HeldFor, PromisesOnlyWhatIsKept, OriginalsStay
  <2> QED
    BY <1>1, <2>1, <2>4, <2>5, PromiseFrom
<1> QED
  BY <1>2, <1>3, <1>4, <1>5 DEF Effect

\* A step of an effect that goes on, and promises nothing yet.
LEMMA GoesOnKept ==
    ASSUME PromiseInv, NEW w \in Workers, Sound(w), UNCHANGED <<kept, keeping, reported, lost>>,
           OriginalsStay \/ job[w].task = "release", Same(job'[w], job[w]),
           job[w].task = "keep" /\ job'[w].at = "fill" => Original(job[w].key) \in files'
    PROVE  PromiseInv'
<1>1. HeldFor(job[w]) /\ JobOK(job[w])
  BY DEF PromiseInv, CacheShape
<1>2. job[w].task = "keep" => job[w].key \in Messages /\ OriginalsStay
  BY <1>1 DEF JobOK
<1>3. HeldFor(job[w])'
  BY <1>1, <1>2 DEF HeldFor, Same, OriginalsStay
<1>4. PromisesOnlyWhatIsKept(w)
  BY DEF PromisesOnlyWhatIsKept
<1>5. /\ job'[w].task = "release" => job[w].task = "release"
      /\ job'[w].task = "keep" => job[w].task = "keep" /\ (job[w].overtaken => job'[w].overtaken)
  BY DEF Same
<1> QED
  BY <1>3, <1>4, <1>5, PromiseFrom

\* What follows a read keeps on only to ask Telegram.
LEMMA AfterReadPromise ==
    ASSUME PromiseInv, NEW w \in Workers, Sound(w), job[w].at \in {"read", "fill"}, NEW got,
           job'[w] \in {AfterRead(w, got), [AfterRead(w, got) EXCEPT !.open = Nothing]},
           files' = files, UNCHANGED <<kept, keeping>>, PromisesOnlyWhatIsKept(w)
    PROVE  PromiseInv'
<1> DEFINE next == AfterRead(w, got)
<1>1. JobOK(job[w])
  BY DEF PromiseInv, CacheShape
<1>2. /\ next \in JobRecord /\ next.task # "release"
      /\ next.task = "keep" => /\ next.at = "telegram" /\ next.dir = "kept media"
                               /\ job[w].task = "keep" /\ next.overtaken = job[w].overtaken
  BY <1>1, AfterReadOK
<1> HIDE DEF next
<1>3. /\ job'[w].task # "release"
      /\ job'[w].task = "keep" => /\ job'[w].at = "telegram" /\ job'[w].dir = "kept media"
                                  /\ job[w].task = "keep" /\ job'[w].overtaken = job[w].overtaken
  <2>1. job'[w] = next \/ job'[w] = [next EXCEPT !.open = Nothing]
    BY DEF next
  <2> QED
    BY <1>2, <2>1 DEF JobRecord
<1>4. HeldFor(job[w])'
  BY <1>3 DEF HeldFor
<1>5. OriginalsStay
  BY DEF OriginalsStay
<1> QED
  BY <1>3, <1>4, <1>5, PromiseFrom

LEMMA InstallPromise ==
    ASSUME PromiseInv, NEW w \in Workers, Install(w)
    PROVE  PromiseInv'
<1>1. /\ CacheShape /\ HeldFor(job[w])
      /\ JobOK(job[w]) /\ job[w].at = "install" /\ UNCHANGED <<kept, keeping>>
  BY DEF PromiseInv, CacheShape, Install, Leaves
<1>2. /\ Sound(w) /\ files' = (files \ {File(w, "partial")}) \cup {File(w, "cache")}
      /\ job'[w] \in Stored(w)
      /\ IF job[w].task = "keep" /\ job'[w] = Idle THEN Report(w) ELSE UNCHANGED <<reported, lost>>
  BY <1>1, InstallSound
<1>3. \/ job[w].dir = "thumbnails" /\ job'[w].task = "show"
      \/ /\ job[w].dir = "kept media" /\ job'[w].task = job[w].task /\ job'[w].key = job[w].key
         /\ job'[w].at = "create" /\ job'[w].overtaken = job[w].overtaken
      \/ job[w].dir # "thumbnails" /\ job'[w] = Idle
  <2> DEFINE next == job'[w]
  <2>1. next \in Stored(w)
    BY <1>2
  <2> HIDE DEF next
  <2>2. \/ job[w].dir = "thumbnails" /\ next.task = "show" /\ next.at = "scan"
        \/ /\ job[w].dir = "kept media" /\ next.task = job[w].task /\ next.key = job[w].key
           /\ next.dir = "kept thumbnails" /\ next.at = "create"
           /\ next.overtaken = job[w].overtaken
        \/ job[w].dir # "thumbnails" /\ next = Idle
    BY <1>1, <2>1, StoredOK
  <2> QED
    BY <2>2 DEF next
<1>4. OriginalsStay
  BY <1>1, <1>2, OriginalParts DEF OriginalsStay
<1>5. /\ job[w].task = "keep" => job[w].key \in Messages /\ job[w].dir \in {"kept media", "kept thumbnails"}
      /\ job[w].dir = "kept media" => Original(job[w].key) \in files'
      /\ job[w].task # "release"
  BY <1>1, <1>2, OriginalParts DEF JobOK, KeptDirs, Fetching
<1>6. HeldFor(job[w])'
  BY <1>3, <1>5, IdleOK DEF HeldFor
<1>7. PromisesOnlyWhatIsKept(w)
  <2>1. CASE job[w].task = "keep" /\ job'[w] = Idle /\ ~job[w].overtaken
    <3>1. reported' = reported \cup {job[w].key} /\ lost' = lost \ {job[w].key}
      BY <1>2, <2>1 DEF Report
    <3>2. Original(job[w].key) \in files'
      BY <1>1, <1>4, <1>5, <2>1 DEF HeldFor, OriginalsStay
    <3>3. kept
      BY <2>1 DEF PromiseInv, PolicyInv
    <3> QED
      BY <3>1, <3>2, <3>3 DEF PromisesOnlyWhatIsKept
  <2>2. CASE ~(job[w].task = "keep" /\ job'[w] = Idle /\ ~job[w].overtaken)
    BY <1>2, <2>2 DEF Report, PromisesOnlyWhatIsKept
  <2> QED
    BY <2>1, <2>2
<1>8. /\ job'[w].task # "release"
      /\ job'[w].task = "keep" => job[w].task = "keep" /\ (job[w].overtaken => job'[w].overtaken)
  BY <1>3, <1>5, IdleOK
<1> QED
  BY <1>1, <1>2, <1>4, <1>6, <1>7, <1>8, PromiseFrom

LEMMA RefillPromise ==
    ASSUME PromiseInv, NEW w \in Workers, Refill(w)
    PROVE  PromiseInv'
<1>1. CacheShape /\ HeldFor(job[w]) /\ JobOK(job[w]) /\ job[w].at = "fill" /\ UNCHANGED <<kept, keeping>>
  BY DEF PromiseInv, CacheShape, Refill, Leaves
<1>2. /\ Sound(w) /\ files' = files
      /\ \E got : job'[w] = [AfterRead(w, got) EXCEPT !.open = Nothing] /\ Promised(w, got)
  BY <1>1, RefillSound
<1>3. PICK got : job'[w] = [AfterRead(w, got) EXCEPT !.open = Nothing] /\ Promised(w, got)
  BY <1>2
<1>4. PromisesOnlyWhatIsKept(w)
  <2>1. CASE job[w].task = "keep" /\ ~job[w].overtaken
    <3>1. Original(job[w].key) \in files'
      BY <1>1, <1>2, <2>1 DEF HeldFor
    <3>2. kept
      BY <2>1 DEF PromiseInv, PolicyInv
    <3> QED
      BY <1>3, <2>1, <3>1, <3>2 DEF Promised, Report, PromisesOnlyWhatIsKept
  <2>2. CASE ~(job[w].task = "keep" /\ ~job[w].overtaken)
    BY <1>3, <2>2 DEF Promised, Report, PromisesOnlyWhatIsKept
  <2> QED
    BY <2>1, <2>2
<1> QED
  BY <1>1, <1>2, <1>3, <1>4, AfterReadPromise

LEMMA FailsPromise ==
    ASSUME PromiseInv, NEW w \in Workers, Fails(w)
    PROVE  PromiseInv'
<1>1. Fail(w) /\ Sound(w) /\ job'[w] = Idle
  BY FailsSound DEF PromiseInv
<1>2. UNCHANGED <<files, keeping, reported>>
  BY <1>1 DEF Fail, fileVars
<1>3. CASE job[w].task = "release"
  <2>1. kept' = TRUE /\ lost' = lost \cup {m \in reported : ~Exists(Original(m))}
    BY <1>1, <1>3 DEF Fail
  <2>2. /\ ReleaseAlone' /\ keeping
        /\ \A v \in Workers : job'[v].task = "keep" => job'[v].overtaken
        /\ \A v \in Workers : HeldFor(job[v])'
    BY <1>1, <1>3, ReleaseEnds
  <2>3. PolicyInv'
    BY <1>2, <2>1, <2>2 DEF PolicyInv
  <2>4. OnDisk'
    BY <1>2, <2>1 DEF OnDisk, Exists
  <2> QED
    BY <1>1, <2>2, <2>3, <2>4 DEF PromiseInv, Sound
<1>4. CASE job[w].task # "release"
  <2>1. UNCHANGED <<kept, lost>>
    BY <1>1, <1>4 DEF Fail
  <2>2. OriginalsStay
    BY <1>2 DEF OriginalsStay
  <2> QED
    BY <1>1, <1>2, <2>1, <2>2, EndsKept
<1> QED
  BY <1>3, <1>4

LEMMA EvictedPromise ==
    ASSUME PromiseInv, NEW w \in Workers, Evicted(w)
    PROVE  PromiseInv'
<1>1. Sound(w) /\ job'[w] = Idle /\ UNCHANGED <<files, kept>>
  BY EvictedSound DEF PromiseInv, Evicted, fileVars
<1>2. CASE job[w].task = "release"
  <2>1. keeping' = FALSE /\ reported' = {}
    BY <1>2 DEF Evicted, Withdrawn
  <2>2. /\ ReleaseAlone' /\ ~kept
        /\ \A v \in Workers : job'[v].task = "keep" => job'[v].overtaken
        /\ \A v \in Workers : HeldFor(job[v])'
    BY <1>1, <1>2, ReleaseEnds
  <2>3. PolicyInv' /\ OnDisk'
    BY <1>1, <2>1, <2>2 DEF PolicyInv, OnDisk
  <2> QED
    BY <1>1, <2>2, <2>3 DEF PromiseInv, Sound
<1>3. CASE job[w].task # "release"
  <2>1. UNCHANGED <<keeping, reported, lost>>
    BY <1>3 DEF Evicted
  <2>2. OriginalsStay
    BY <1>1 DEF OriginalsStay
  <2> QED
    BY <1>1, <2>1, <2>2, EndsKept
<1> QED
  BY <1>2, <1>3

LEMMA TelegramPromise ==
    ASSUME PromiseInv, NEW w \in Workers, Telegram(w)
    PROVE  PromiseInv'
<1>1. CacheShape /\ JobOK(job[w]) /\ job[w].at = "telegram" /\ UNCHANGED <<files, kept, keeping, reported, lost>>
  BY DEF PromiseInv, CacheShape, Telegram, Leaves
<1>2. /\ Sound(w)
      /\ \/ job'[w] = Idle
         \/ /\ job'[w].task = job[w].task /\ job'[w].overtaken = job[w].overtaken
            /\ job'[w].at = "create"
            /\ job'[w].task = "keep" => job'[w].dir = "kept media"
  BY <1>1, TelegramSound
<1>3. OriginalsStay /\ PromisesOnlyWhatIsKept(w)
  BY <1>1 DEF OriginalsStay, PromisesOnlyWhatIsKept
<1>4. CASE job'[w] = Idle
  BY <1>1, <1>2, <1>3, <1>4, EndsKept
<1>5. CASE job'[w] # Idle
  <2>1. HeldFor(job[w])'
    BY <1>2, <1>5 DEF HeldFor
  <2> QED
    BY <1>1, <1>2, <1>3, <1>5, <2>1, PromiseFrom
<1> QED
  BY <1>4, <1>5

LEMMA StepPromise ==
    ASSUME PromiseInv, NEW w \in Workers, Step(w)
    PROVE  PromiseInv'
<1>1. CacheShape /\ Sound(w) /\ JobOK(job[w]) /\ HeldFor(job[w])
  BY StepSound DEF PromiseInv, CacheShape
<1>2. files' = files => OriginalsStay
  BY DEF OriginalsStay
<1>3. UNCHANGED <<reported, lost>> => PromisesOnlyWhatIsKept(w)
  BY DEF PromisesOnlyWhatIsKept
<1>4. CASE Read(w)
  <2>1. job[w].at = "read" /\ UNCHANGED <<files, kept, keeping, reported, lost>>
    BY <1>4 DEF Read, Leaves
  <2>2. \/ Same(job'[w], job[w]) /\ job'[w].at = "touch"
        \/ job'[w] = AfterRead(w, "nothing")
    BY <1>1, <1>4, ReadSound
  <2>3. CASE Same(job'[w], job[w]) /\ job'[w].at = "touch"
    BY <1>1, <1>2, <2>1, <2>3, GoesOnKept
  <2>4. CASE job'[w] = AfterRead(w, "nothing")
    BY <1>1, <1>3, <2>1, <2>4, AfterReadPromise
  <2> QED
    BY <2>2, <2>3, <2>4
<1>5. CASE Touch(w)
  <2>1. job[w].at = "touch" /\ UNCHANGED <<kept, keeping, reported, lost>>
    BY <1>5 DEF Touch, Leaves
  <2>2. Same(job'[w], job[w]) /\ files' = files \cup {File(w, "cache")}
    BY <1>1, <1>5, TouchSound
  <2>3. job[w].task = "keep" => Original(job[w].key) \in files'
    BY <1>1, <2>1, <2>2, OriginalParts DEF JobOK
  <2>4. OriginalsStay
    BY <2>2 DEF OriginalsStay
  <2> QED
    BY <1>1, <2>1, <2>2, <2>3, <2>4, GoesOnKept
<1>6. CASE CreatePartial(w)
  <2>1. UNCHANGED <<kept, keeping, reported, lost>>
    BY <1>6 DEF CreatePartial, Leaves
  <2>2. Same(job'[w], job[w]) /\ job'[w].at = "write" /\ files' = files \cup {File(w, "partial")}
    BY <1>1, <1>6, CreatePartialSound
  <2>3. OriginalsStay
    BY <2>2 DEF OriginalsStay
  <2> QED
    BY <1>1, <2>1, <2>2, <2>3, GoesOnKept
<1>7. CASE WritePartial(w)
  <2>1. UNCHANGED <<kept, keeping, reported, lost>> /\ files' = files
    BY <1>7 DEF WritePartial, Leaves, Fill
  <2>2. Same(job'[w], job[w]) /\ job'[w].at = "install"
    BY <1>1, <1>7, WritePartialSound
  <2> QED
    BY <1>1, <1>2, <2>1, <2>2, GoesOnKept
<1>8. CASE Scan(w)
  <2>1. UNCHANGED <<files, kept, keeping, reported, lost>>
    BY <1>8 DEF Scan, fileVars, policyVars
  <2>2. Same(job'[w], job[w]) /\ job'[w].at = "evict"
    BY <1>1, <1>8, ScanSound
  <2> QED
    BY <1>1, <1>2, <2>1, <2>2, GoesOnKept
<1>9. CASE Evict(w)
  <2>1. UNCHANGED <<kept, keeping, reported, lost>>
    BY <1>9 DEF Evict, Leaves
  <2>2. Same(job'[w], job[w]) /\ job'[w].at = "evict"
    BY <1>1, <1>9, EvictSound
  <2>3. PICK entry \in job[w].list : /\ entry[1] \in Locations /\ entry[1][1] \in OrdinaryDirs
                                     /\ files' = files \ {entry[1]}
    BY <1>1, <1>9, EvictSound
  <2>4. OriginalsStay
    BY <1>1, <2>3, OriginalParts DEF OriginalsStay, OrdinaryDirs
  <2> QED
    BY <1>1, <2>1, <2>2, <2>4, GoesOnKept
<1>10. CASE MakeDirectory(w)
  <2>1. UNCHANGED <<files, kept, keeping, reported, lost>>
    BY <1>10 DEF MakeDirectory, policyVars
  <2>2. Same(job'[w], job[w]) /\ job'[w].at = "partial"
    BY <1>1, <1>10, MakeDirectorySound
  <2> QED
    BY <1>1, <1>2, <2>1, <2>2, GoesOnKept
<1>11. CASE Releases(w)
  <2>1. UNCHANGED <<kept, keeping, reported, lost>> /\ job[w].at \in Releasing
    BY <1>11 DEF Releases, ListKept, LookKept, LookOrdinary, MoveKept, ClearKept, UnlinkKept, RemoveKept,
                 Leaves, policyVars, Releasing, Moving
  <2>2. job[w].task = "release"
    BY <1>1, <2>1 DEF JobOK
  <2>3. job'[w].task = "release"
    BY <1>1, <1>11, ReleasesSound
  <2>4. HeldFor(job[w])'
    BY <2>3 DEF HeldFor
  <2> QED
    BY <1>1, <1>3, <2>1, <2>2, <2>3, <2>4, PromiseFrom
<1> QED
  BY <1>4, <1>5, <1>6, <1>7, <1>8, <1>9, <1>10, <1>11, InstallPromise, RefillPromise, FailsPromise,
     EvictedPromise, TelegramPromise DEF Step, Fails, Releases

LEMMA PromiseInit == CacheInit => PromiseInv
<1> SUFFICES ASSUME CacheInit PROVE PromiseInv
  OBVIOUS
<1>1. CacheShape
  BY CutInit DEF CutInv
<1>2. \A w \in Workers : job[w].task = "none"
  BY IdleOK DEF CacheInit
<1>3. reported = {} /\ ~kept
  BY DEF CacheInit
<1> QED
  BY <1>1, <1>2, <1>3 DEF PromiseInv, ReleaseAlone, PolicyInv, OnDisk, HeldFor

LEMMA PromiseNext == PromiseInv /\ [CacheNext]_cacheVars => PromiseInv'
<1> SUFFICES ASSUME PromiseInv, [CacheNext]_cacheVars PROVE PromiseInv'
  OBVIOUS
<1>1. CacheShape /\ ReleaseAlone /\ PolicyInv /\ OnDisk /\ \A w \in Workers : HeldFor(job[w])
  BY DEF PromiseInv
<1>2. CASE \E w \in Workers : Effect(w) \/ Step(w)
  BY <1>2, EffectPromise, StepPromise
<1>3. CASE KeepChat
  <2>1. /\ UNCHANGED <<files, cut, damaged, dirs, job, reported, lost>> /\ Running("release") = {}
        /\ keeping' = TRUE /\ ~keeping
    BY <1>3 DEF KeepChat, fileVars
  <2>2. CacheShape'
    BY <1>1, <2>1 DEF CacheShape, FilesOK
  <2>3. \A w \in Workers : job[w].task # "release"
    BY <1>1, <2>1 DEF ReleaseAlone
  <2>4. ReleaseAlone'
    BY <2>1, <2>3 DEF ReleaseAlone
  <2>5. OnDisk' /\ PolicyInv'
    BY <1>1, <1>3, <2>1 DEF OnDisk, PolicyInv, KeepChat
  <2> QED
    BY <1>1, <2>1, <2>2, <2>4, <2>5 DEF PromiseInv, HeldFor
<1>4. CASE Stop
  <2>1. CacheShape' /\ job' = [w \in Workers |-> Idle]
    BY <1>1, <1>4, StopShape
  <2>2. /\ files' = {f \in files : Entry(f)} /\ kept' = kept
        /\ \/ kept /\ keeping' = TRUE /\ UNCHANGED <<reported, lost>>
           \/ ~kept /\ keeping' = FALSE /\ reported' = {}
    BY <1>4 DEF Stop, Withdrawn
  <2>3. \A w \in Workers : job'[w].task = "none"
    BY <2>1, IdleOK
  <2>4. ReleaseAlone' /\ \A w \in Workers : HeldFor(job[w])'
    BY <2>3 DEF ReleaseAlone, HeldFor
  <2>5. PolicyInv'
    BY <2>2, <2>3 DEF PolicyInv
  <2>6. OnDisk'
    BY <1>1, <2>2 DEF OnDisk, Entry, Original
  <2> QED
    BY <2>1, <2>4, <2>5, <2>6 DEF PromiseInv
<1>5. CASE UNCHANGED cacheVars
  <2>1. UNCHANGED <<files, cut, damaged, dirs, job, reported, lost, kept, keeping>>
    BY <1>5 DEF cacheVars, fileVars, policyVars
  <2>2. CacheShape'
    BY <1>1, <2>1 DEF CacheShape, FilesOK
  <2> QED
    BY <1>1, <2>1, <2>2 DEF PromiseInv, ReleaseAlone, PolicyInv, OnDisk, HeldFor
<1> QED
  BY <1>2, <1>3, <1>4, <1>5 DEF CacheNext

\* While a chat is kept, a message reported as kept is on disk with its bytes,
\* across every effect that overlaps with it, every release that fails and every
\* stop, unless that release had moved it or its bytes are damaged
\* (offline_media.rs retain, cache/mod.rs put_retained, entries and release).
THEOREM KeptThereAlways == CacheSpec => []KeptThere
<1>1. PromiseInv /\ CutInv => KeptThere
  <2> SUFFICES ASSUME PromiseInv, CutInv, kept, NEW m \in reported \ lost
               PROVE  Exists(Original(m)) /\ (Intact(Original(m)) \/ Original(m) \in damaged)
    BY DEF KeptThere
  <2>1. Original(m) \in files
    BY DEF PromiseInv, OnDisk
  <2> QED
    BY <2>1 DEF CutInv, Covered, Exists, Intact
<1> QED
  BY <1>1, CutAlways, PromiseInit, PromiseNext, PTL DEF CacheSpec

-----------------------------------------------------------------------------
(* The bound of the cache.                                                    *)

\* Whoever is about to list the entries, or has listed all that are whole,
\* leaves no more than the limit behind.
Obliged(w) == \/ job[w].at \in Releasing \cup {"scan"}
              \/ job[w].at = "evict" /\ \A f \in Whole : <<f, 1>> \in job[w].list

Within == Cardinality(Whole) <= Limit

BoundInv == CacheShape /\ (~loose => Within \/ \E w \in Workers : Obliged(w))

LEMMA WholeFinite == CacheShape => IsFiniteSet(Whole) /\ Cardinality(Whole) \in Nat
<1> SUFFICES ASSUME CacheShape PROVE IsFiniteSet(Whole) /\ Cardinality(Whole) \in Nat
  OBVIOUS
<1>1. Whole \in SUBSET files
  BY DEF Whole, Entries
<1> QED
  BY <1>1, FS_Subset, FS_CardinalityType DEF CacheShape, FilesOK

LEMMA BoundFrom ==
    ASSUME BoundInv, NEW w \in Workers, Sound(w),
           ~loose' => ~loose /\ Whole' \subseteq Whole,
           Obliged(w) => Obliged(w)' \/ Within'
    PROVE  BoundInv'
<1> SUFFICES ASSUME ~loose' PROVE Within' \/ \E v \in Workers : Obliged(v)'
  BY DEF BoundInv, Sound
<1>1. CASE Within
  <2>1. IsFiniteSet(Whole) /\ Cardinality(Whole) \in Nat
    BY WholeFinite DEF BoundInv
  <2>2. Whole' \in SUBSET Whole
    OBVIOUS
  <2>3. Cardinality(Whole') <= Cardinality(Whole) /\ IsFiniteSet(Whole')
    BY <2>1, <2>2, FS_Subset
  <2>4. Cardinality(Whole') \in Nat
    BY <2>3, FS_CardinalityType
  <2> QED
    BY <1>1, <2>1, <2>3, <2>4, CacheAssumption DEF Within
<1>2. CASE Obliged(w)
  BY <1>2
<1>3. ASSUME NEW v \in Workers, v # w, Obliged(v) PROVE Obliged(v)'
  <2>1. job'[v].at = job[v].at /\ job'[v].list = job[v].list
    BY <1>3 DEF Sound, Others, Kin
  <2> QED
    BY <1>3, <2>1 DEF Obliged
<1> QED
  BY <1>1, <1>2, <1>3 DEF BoundInv

LEMMA BoundObliged ==
    ASSUME NEW w \in Workers, Sound(w), Obliged(w)'
    PROVE  BoundInv'
BY DEF Sound, BoundInv

\* The bytes that are written count only where they are.
LEMMA FillBound ==
    ASSUME CacheShape, NEW w \in Workers, NEW next \in JobRecord, Fill(w, next)
    PROVE  ~loose' => ~loose /\ Whole' \subseteq Whole
<1> SUFFICES ASSUME ~loose', NEW f \in Whole' PROVE ~loose /\ f \in Whole
  BY FillDone
<1>1. /\ files' = files /\ cut \ {job[w].open} \subseteq cut' /\ ~loose
      /\ job[w].open = Nothing \/ ~(job[w].open[1] \in OrdinaryDirs /\ Entry(job[w].open))
  BY FillDone
<1>2. f \in files /\ f[1] \in OrdinaryDirs /\ Entry(f) /\ f \notin cut \ {job[w].open}
  BY <1>1 DEF Whole, Entries
<1>3. f # Nothing
  BY <1>2, LocationParts DEF CacheShape, FilesOK
<1> QED
  BY <1>1, <1>2, <1>3 DEF Whole, Entries

LEMMA FilesBound ==
    /\ UNCHANGED <<files, cut>> => Whole' = Whole
    /\ \A f : files' = files \cup {f} /\ cut' = cut \cup {f} => Whole' \subseteq Whole
    /\ \A f : files' = files \ {f} /\ cut' = cut \ {f} => Whole' = Whole \ {f}
BY DEF Whole, Entries

\* An eviction that ends has left no more than the limit, if it listed all.
LEMMA EvictedWithin ==
    ASSUME CacheShape, NEW w \in Workers, Evicted(w), Obliged(w)
    PROVE  Within
<1>1. /\ job[w].at = "evict" /\ ~(job[w].bytes > Limit /\ job[w].list # {})
      /\ \A f \in Whole : <<f, 1>> \in job[w].list
  BY DEF Evicted, Evicting, Obliged, Releasing, Moving
<1>2. /\ IsFiniteSet(job[w].list) /\ Cardinality(Ones(job[w].list)) <= job[w].bytes
      /\ job[w].bytes \in Int
  BY <1>1 DEF CacheShape, JobOK, JobRecord
<1>3. CASE job[w].list = {}
  <2>1. Whole = {}
    BY <1>1, <1>3
  <2> QED
    BY <2>1, FS_EmptySet, CacheAssumption DEF Within
<1>4. CASE ~(job[w].bytes > Limit)
  <2> DEFINE one == [f \in Whole |-> <<f, 1>>]
  <2>1. IsFiniteSet(Ones(job[w].list)) /\ Cardinality(Ones(job[w].list)) \in Nat
    <3>1. Ones(job[w].list) \in SUBSET job[w].list
      BY DEF Ones
    <3> QED
      BY <1>2, <3>1, FS_Subset, FS_CardinalityType
  <2>2. one \in Injection(Whole, Ones(job[w].list))
    <3>1. \A f \in Whole : <<f, 1>> \in Ones(job[w].list)
      BY <1>1 DEF Ones
    <3> QED
      BY <3>1 DEF Injection, IsInjective
  <2>3. Cardinality(Whole) <= Cardinality(Ones(job[w].list))
    BY <2>1, <2>2, FS_Injection
  <2>4. Cardinality(Whole) \in Nat
    BY WholeFinite
  <2> QED
    BY <1>2, <1>4, <2>1, <2>3, <2>4, CacheAssumption DEF Within
<1> QED
  BY <1>1, <1>3, <1>4

\* A step that leaves or ends at a place where nothing is owed.
LEMMA BoundStays ==
    ASSUME BoundInv, NEW w \in Workers, Sound(w), ~loose' => ~loose /\ Whole' \subseteq Whole,
           job[w].at \in Fetching \/ job[w].at = "idle"
    PROVE  BoundInv'
<1>1. ~Obliged(w)
  BY DEF Obliged, Fetching, Releasing, Moving
<1> QED
  BY <1>1, BoundFrom

LEMMA InstallBound ==
    ASSUME BoundInv, NEW w \in Workers, Install(w)
    PROVE  BoundInv'
<1> DEFINE from == File(w, "partial")
           to == File(w, "cache")
<1>1. CacheShape /\ job[w].at = "install" /\ UNCHANGED loose
  BY DEF BoundInv, Install
<1>2. /\ Sound(w) /\ files' = (files \ {from}) \cup {to} /\ job'[w] \in Stored(w)
  BY <1>1, InstallSound
<1>3. cut' = (cut \ {from, to}) \cup (IF from \in cut THEN {to} ELSE {})
  BY DEF Install, Rename, Renamed
<1>4. /\ from[1] = job[w].dir /\ to[1] = job[w].dir
      /\ job[w].dir \in OrdinaryDirs \cup KeptDirs /\ job[w].dir # "media"
  BY <1>1, JobFacts DEF Fetching, File
<1> HIDE DEF from, to
<1>5. CASE job[w].dir = "thumbnails"
  <2>1. job'[w].at = "scan"
    <3> DEFINE next == job'[w]
    <3>1. next \in Stored(w)
      BY <1>2
    <3> HIDE DEF next
    <3>2. \/ job[w].dir = "thumbnails" /\ next.task = "show" /\ next.at = "scan"
          \/ /\ job[w].dir = "kept media" /\ next.task = job[w].task /\ next.key = job[w].key
             /\ next.dir = "kept thumbnails" /\ next.at = "create"
             /\ next.overtaken = job[w].overtaken
          \/ job[w].dir # "thumbnails" /\ next = Idle
      BY <1>1, <3>1, StoredOK
    <3> QED
      BY <1>5, <3>2 DEF next
  <2>2. Obliged(w)'
    BY <2>1 DEF Obliged
  <2> QED
    BY <1>2, <2>2, BoundObliged
<1>6. CASE job[w].dir # "thumbnails"
  <2>1. from[1] \notin OrdinaryDirs /\ to[1] \notin OrdinaryDirs
    BY <1>4, <1>6 DEF OrdinaryDirs, KeptDirs
  <2>2. Whole' \subseteq Whole
    BY <1>2, <1>3, <2>1 DEF Whole, Entries
  <2> QED
    BY <1>1, <1>2, <2>2, BoundStays DEF Fetching
<1> QED
  BY <1>5, <1>6

LEMMA StepBound ==
    ASSUME BoundInv, NEW w \in Workers, Step(w)
    PROVE  BoundInv'
<1>1. CacheShape /\ Sound(w) /\ JobOK(job[w]) /\ job[w] \in JobRecord
  BY StepSound DEF BoundInv, CacheShape
<1>2. CASE Read(w) \/ Telegram(w) \/ MakeDirectory(w)
  <2>1. job[w].at \in {"read", "telegram", "create"} /\ UNCHANGED <<files, cut, loose>>
    BY <1>2 DEF Read, Telegram, MakeDirectory
  <2> QED
    BY <1>1, <2>1, FilesBound, BoundStays DEF Fetching
<1>3. CASE Touch(w) \/ CreatePartial(w)
  <2>1. job[w].at \in {"touch", "partial"} /\ UNCHANGED loose
    BY <1>3 DEF Touch, CreatePartial
  <2>2. \E f : files' = files \cup {f} /\ cut' = cut \cup {f}
    BY <1>3 DEF Touch, CreatePartial, Create
  <2>3. Whole' \subseteq Whole
    BY <2>2, FilesBound
  <2> QED
    BY <1>1, <2>1, <2>3, BoundStays DEF Fetching
<1>4. CASE Refill(w)
  <2>1. job[w].at = "fill" /\ \E got : Fill(w, AfterRead(w, got))
    BY <1>4 DEF Refill
  <2>2. \A got : AfterRead(w, got) \in JobRecord
    BY <1>1, <2>1, AfterReadOK
  <2>3. ~loose' => ~loose /\ Whole' \subseteq Whole
    BY <1>1, <2>1, <2>2, FillBound
  <2> QED
    BY <1>1, <2>1, <2>3, BoundStays DEF Fetching
<1>5. CASE WritePartial(w)
  <2> DEFINE next == [job[w] EXCEPT !.at = "install"]
  <2>1. job[w].at = "write" /\ Fill(w, next)
    BY <1>5 DEF WritePartial
  <2>2. next \in JobRecord
    BY <1>1 DEF JobRecord, Places, Fetching
  <2> HIDE DEF next
  <2>3. ~loose' => ~loose /\ Whole' \subseteq Whole
    BY <1>1, <2>1, <2>2, FillBound
  <2> QED
    BY <1>1, <2>1, <2>3, BoundStays DEF Fetching
<1>6. CASE Fails(w)
  <2>1. loose'
    BY <1>1, <1>6, FailsSound DEF Fail
  <2> QED
    BY <1>1, <2>1 DEF BoundInv, Sound
<1>7. CASE Scan(w)
  <2>1. job'[w].at = "evict" /\ \A f \in Whole : <<f, 1>> \in job'[w].list
    BY <1>1, <1>7, ScanSound
  <2>2. Whole' = Whole
    BY <1>7, FilesBound DEF Scan, fileVars
  <2>3. Obliged(w)'
    BY <2>1, <2>2 DEF Obliged
  <2> QED
    BY <1>1, <2>3, BoundObliged
<1>8. CASE Evict(w)
  <2>1. PICK entry \in job[w].list : /\ files' = files \ {entry[1]} /\ cut' = cut \ {entry[1]}
                                     /\ job'[w].list = job[w].list \ {entry}
    BY <1>1, <1>8, EvictSound
  <2>2. Whole' = Whole \ {entry[1]}
    BY <2>1, FilesBound
  <2>3. job'[w].at = "evict" /\ job[w].at = "evict" /\ UNCHANGED loose
    BY <1>1, <1>8, EvictSound DEF Evict, Evicting
  <2>4. ASSUME Obliged(w) PROVE Obliged(w)'
    <3>1. \A f \in Whole : <<f, 1>> \in job[w].list
      BY <2>3, <2>4 DEF Obliged, Releasing, Moving
    <3>2. ASSUME NEW f \in Whole' PROVE <<f, 1>> \in job'[w].list
      <4>1. f \in Whole /\ f # entry[1] /\ <<f, 1>>[1] = f
        BY <2>2
      <4> QED
        BY <2>1, <3>1, <4>1
    <3> QED
      BY <2>3, <3>2 DEF Obliged
  <2> QED
    BY <1>1, <2>2, <2>3, <2>4, BoundFrom
<1>9. CASE Evicted(w)
  <2>1. UNCHANGED <<files, cut, loose>>
    BY <1>9 DEF Evicted, fileVars
  <2>2. Whole' = Whole
    BY <2>1, FilesBound
  <2>3. Obliged(w) => Within'
    BY <1>1, <1>9, <2>2, EvictedWithin DEF Within
  <2> QED
    BY <1>1, <2>1, <2>2, <2>3, BoundFrom
<1>10. CASE Releases(w)
  <2>1. job'[w].at \in Releasing \cup {"scan"}
    BY <1>1, <1>10, ReleasesSound
  <2>2. Obliged(w)'
    BY <2>1 DEF Obliged
  <2> QED
    BY <1>1, <2>2, BoundObliged
<1> QED
  BY <1>2, <1>3, <1>4, <1>5, <1>6, <1>7, <1>8, <1>9, <1>10, InstallBound DEF Step, Fails, Releases

LEMMA EffectBound ==
    ASSUME BoundInv, NEW w \in Workers, Effect(w)
    PROVE  BoundInv'
<1>1. CacheShape /\ Sound(w) /\ JobOK(job[w]) /\ job[w] \in JobRecord
  BY EffectSound DEF BoundInv, CacheShape
<1>2. UNCHANGED <<files, cut, loose>>
  BY DEF Effect, Show, Keep, Release, Cancel, Ready, fileVars
<1>3. Whole' = Whole
  BY <1>2, FilesBound
<1>4. CASE job[w].at = "idle"
  BY <1>1, <1>2, <1>3, <1>4, BoundStays
<1>5. CASE job[w].at # "idle"
  <2>1. /\ Becomes(w, IF job[w].at = "telegram" THEN Idle ELSE [job[w] EXCEPT !.awaited = FALSE])
    BY <1>5 DEF Effect, Show, Keep, Release, Cancel, Ready
  <2>2. CASE job[w].at = "telegram"
    BY <1>1, <1>2, <1>3, <2>2, BoundStays DEF Fetching
  <2>3. CASE job[w].at # "telegram"
    <3> DEFINE next == [job[w] EXCEPT !.awaited = FALSE]
    <3>1. next.at = job[w].at /\ next.list = job[w].list
      BY <1>1 DEF JobRecord
    <3> HIDE DEF next
    <3>2. job'[w] = next
      BY <1>1, <2>1, <2>3 DEF Becomes, CacheShape, next
    <3>3. Obliged(w) => Obliged(w)'
      BY <1>3, <3>1, <3>2 DEF Obliged
    <3> QED
      BY <1>1, <1>2, <1>3, <3>3, BoundFrom
  <2> QED
    BY <2>2, <2>3
<1> QED
  BY <1>4, <1>5

LEMMA BoundInit == CacheInit => BoundInv
<1> SUFFICES ASSUME CacheInit PROVE BoundInv
  OBVIOUS
<1>1. CacheShape
  BY CutInit DEF CutInv
<1>2. Whole = {}
  BY DEF CacheInit, Whole, Entries
<1> QED
  BY <1>1, <1>2, FS_EmptySet, CacheAssumption DEF BoundInv, Within

LEMMA BoundNext == BoundInv /\ [CacheNext]_cacheVars => BoundInv'
<1> SUFFICES ASSUME BoundInv, [CacheNext]_cacheVars PROVE BoundInv'
  OBVIOUS
<1>1. CacheShape
  BY DEF BoundInv
<1>2. CASE \E w \in Workers : Effect(w) \/ Step(w)
  BY <1>2, EffectBound, StepBound
<1>3. CASE Stop
  <2>1. loose'
    BY <1>3 DEF Stop
  <2> QED
    BY <1>1, <1>3, <2>1, StopShape DEF BoundInv
<1>4. CASE KeepChat \/ UNCHANGED cacheVars
  <2>1. UNCHANGED <<files, cut, damaged, dirs, job, reported, lost, loose>>
    BY <1>4 DEF KeepChat, cacheVars, fileVars, policyVars
  <2>2. CacheShape' /\ Whole' = Whole
    BY <1>1, <2>1, FilesBound DEF CacheShape, FilesOK
  <2>3. \A w \in Workers : Obliged(w) => Obliged(w)'
    BY <2>1, <2>2 DEF Obliged
  <2> QED
    BY <2>1, <2>2, <2>3 DEF BoundInv, Within
<1> QED
  BY <1>2, <1>3, <1>4 DEF CacheNext

\* When no effect runs, what can be evicted is within the limit, whatever stores,
\* releases and evictions overlapped, unless an entry was written back or an
\* effect failed since the last eviction began (cache/mod.rs put, release and
\* enforce_limit).
THEOREM BoundedWhenQuietAlways == CacheSpec => []BoundedWhenQuiet
<1>1. BoundInv => BoundedWhenQuiet
  BY DEF BoundInv, Obliged, Releasing, Moving, Within, Whole, BoundedWhenQuiet
<1> QED
  BY <1>1, BoundInit, BoundNext, PTL DEF CacheSpec

=================================================================================
