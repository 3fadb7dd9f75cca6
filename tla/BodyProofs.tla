----------------------------- MODULE BodyProofs ------------------------------
(***************************************************************************)
(* Proofs about bodies: of requests, collected before a handler (BodyRead) *)
(* or read by a multipart parser (MultipartGuard), and of the responses of *)
(* a directory (StaticFiles); for any body, chunks, delimiter, limits and  *)
(* delays, and any writes to the directory.                                *)
(***************************************************************************)
EXTENDS BodyRead, MultipartGuard, StaticFiles, SequenceTheorems,
        FiniteSetTheorems, Induction, TLAPS

-----------------------------------------------------------------------------
(* Every answer is justified and no body is waited for too long.            *)

UploadType ==
    /\ now \in Nat
    /\ woken \in Nat \union {None}
    /\ announced \in Nat \union {None}
    /\ uploaded \in Nat
    /\ upload \in {"open", "complete", "broken"}
    /\ started \in Nat \union {None}
    /\ collected \in Nat
    /\ bodyTimer \in Nat \union {None}
    /\ settled \in {200, 400, 408, 413, None}

(* The task that waits has a timer that has not fired, and one that was     *)
(* woken before its deadline is polled within Delay of it.                  *)
UploadTimely ==
    /\ woken # None => woken <= now /\ now <= woken + Delay
    /\ started = None => bodyTimer = None
    /\ started # None => started <= now /\ bodyTimer = started + ReadTimeout
    /\ started # None /\ settled = None =>
           IF woken = None THEN now < bodyTimer ELSE woken <= bodyTimer
    /\ settled # None => woken = None

UploadInv == UploadType /\ UploadTimely /\ UploadSettled

-----------------------------------------------------------------------------
(* A request starts with nothing collected and nothing answered.            *)
LEMMA UploadStarts == UploadInit => UploadInv
BY UploadAssumption, TimeAssumption, NoneAssumption
   DEF UploadInit, TimedInit, UploadInv, UploadType, UploadTimely, UploadSettled,
       Justified

(* Every step of the client, of the task and of the clock keeps the         *)
(* invariant.                                                               *)
LEMMA UploadGoesOn == UploadInv /\ [UploadNext]_uploadVars => UploadInv'
<1> SUFFICES ASSUME UploadInv, [UploadNext]_uploadVars
             PROVE  UploadInv'
  OBVIOUS
<1> USE UploadAssumption, TimeAssumption, NoneAssumption
    DEF UploadInv, UploadType, UploadTimely, UploadSettled, Justified, TooLarge
<1>1. CASE UploadByte
  BY <1>1 DEF UploadByte, Upload, Wake
<1>2. CASE CompleteUpload
  BY <1>2 DEF CompleteUpload, Upload, Wake
<1>3. CASE BreakOff
  BY <1>3 DEF BreakOff, Upload, Wake
<1>4. CASE RefuseAnnounced
  BY <1>4 DEF RefuseAnnounced, Settle
<1>5. CASE StartReading
  BY <1>5 DEF StartReading, timeVars
<1>6. CASE Overrun
  BY <1>6 DEF Overrun, Reading, Settle
<1>7. CASE Whole
  BY <1>7 DEF Whole, Reading, Settle
<1>8. CASE Interrupted
  BY <1>8 DEF Interrupted, Reading, Settle
<1>9. CASE Late
  BY <1>9 DEF Late, Reading, Settle
<1>10. CASE AwaitMore
  BY <1>10 DEF AwaitMore, Reading
<1>11. CASE UploadTick
  BY <1>11 DEF UploadTick, TickWith, bodyVars
<1>12. CASE UNCHANGED uploadVars
  BY <1>12 DEF uploadVars, bodyVars, timeVars
<1> QED
  BY <1>1, <1>2, <1>3, <1>4, <1>5, <1>6, <1>7, <1>8, <1>9, <1>10, <1>11, <1>12
     DEF UploadNext

(* prepare_matched: never more than the limit is kept, every status is the  *)
(* right one for what arrived, and a slow body is given up in time, for any *)
(* limit, timeout and order of bytes, timer and polls.                      *)
THEOREM UploadsSettled == UploadSpec => []UploadSettled
<1>1. UploadInv => UploadSettled
  BY DEF UploadInv
<1> QED
  BY <1>1, UploadStarts, UploadGoesOn, PTL DEF UploadSpec
-----------------------------------------------------------------------------
(* A 304 by tag is true, and a body is of one file: the invariant.          *)

FileStates == [bytes : Seq(Nat), modified : Nat]

DiskType == /\ files \in Seq(FileStates)
            /\ page \in DOMAIN files \union {Dir, None}
            /\ index \in DOMAIN files \union {None}
            /\ clock \in Nat

TagLists == (SUBSET ((Nat \X Nat) \union {Star})) \union {None}

Requests ==
    [stage : {"resolve", "open", "read", "stream"}, head : BOOLEAN, slash : BOOLEAN,
     v : [ifNoneMatch : TagLists, ifModifiedSince : Nat \union {None}],
     name : {"page", "index", None}, meta : FileStates \union {None},
     handle : Nat \union {Dir, None}, opened : FileStates \union {None},
     length : Nat, sent : Seq(Nat)]

(* No two files have the same modification time.                            *)
OwnTimes ==
    \A f \in DOMAIN files :
        /\ files[f].modified <= clock
        /\ \A g \in DOMAIN files : files[f].modified = files[g].modified => f = g

Prefix(s, t) == Len(s) <= Len(t) /\ \A i \in 1 .. Len(s) : s[i] = t[i]

(* What has the tag of a copy is the copy.                                  *)
Same(file, copy) ==
    file.modified = copy.modified /\ Len(file.bytes) = Len(copy.bytes) =>
        file.bytes = copy.bytes

CacheFits ==
    cache # None =>
        /\ cache.modified \in Nat /\ cache.modified <= clock
        /\ cache.bytes \in Seq(Nat)
        /\ cache.etag = <<Len(cache.bytes), cache.modified>>
        /\ \A f \in DOMAIN files : Same(files[f], cache)

(* What a request found describes the copy, if it has its tag.              *)
RequestFits ==
    request # None =>
        /\ request \in Requests
        /\ request.stage \in {"resolve", "open"} => request.sent = <<>>
        /\ request.stage = "open" =>
               /\ request.meta \in FileStates
               /\ request.meta.modified <= clock
               /\ cache # None => Same(request.meta, cache)

(* While a file keeps its time, what was read of it is its beginning.       *)
ReadFits ==
    request # None /\ request.stage \in {"read", "stream"} =>
        /\ request.meta \in FileStates
        /\ request.meta.modified <= clock
        /\ request.length = Len(request.meta.bytes)
        /\ Len(request.sent) <= request.length
        /\ request.handle = Dir => request.sent = <<>>
        /\ request.handle # Dir =>
               /\ request.handle \in DOMAIN files
               /\ request.opened = request.meta
               /\ \A f \in DOMAIN files :
                      files[f].modified = request.meta.modified =>
                          f = request.handle /\ Prefix(request.sent, files[f].bytes)

(* A body was read from a file that existed, and still is it or is newer.   *)
BodyFits ==
    /\ answer # None /\ answer.status = 200
    /\ ~answer.request.head /\ answer.request.handle # Dir
    => /\ answer.request.handle \in DOMAIN files
       /\ answer.request.opened.modified \in Nat
       /\ answer.request.opened.modified <= clock

FilesInv == /\ DiskType /\ OwnTimes
            /\ CacheFits /\ RequestFits /\ ReadFits
            /\ NotModifiedIsFresh /\ OneFile /\ BodyFits

-----------------------------------------------------------------------------
(* Writes.                                                                  *)

(* What is written is a state of a file.                                    *)
LEMMA WrittenType ==
    ASSUME clock \in Nat, NEW bytes \in Seq(Nat)
    PROVE  Written(bytes) \in FileStates /\ Written(bytes).modified = clock + 1
BY DEF Written, FileStates

(* A file is there for every position of the sequence.                      *)
LEMMA FileThere ==
    ASSUME DiskType, NEW f \in DOMAIN files
    PROVE  /\ files[f] \in FileStates /\ files[f].bytes \in Seq(Nat)
           /\ files[f].modified \in Nat /\ Len(files[f].bytes) \in Nat
           /\ f \in Nat /\ DOMAIN files = 1 .. Len(files) /\ Len(files) \in Nat
<1>1. DOMAIN files = 1 .. Len(files) /\ Len(files) \in Nat
  BY LenProperties DEF DiskType
<1>2. files[f] \in FileStates
  BY <1>1, ElementOfSeq DEF DiskType
<1> QED
  BY <1>1, <1>2, LenProperties DEF FileStates

(* A write changes at most one file, whose time is then the newest.         *)
WriteEffect ==
    /\ DiskType' /\ OwnTimes'
    /\ clock' = clock + 1
    /\ UNCHANGED <<request, cache, answer>>
    /\ DOMAIN files \subseteq DOMAIN files'
    /\ \A f \in DOMAIN files' :
           files'[f].modified = clock + 1 \/ (f \in DOMAIN files /\ files'[f] = files[f])

(* One newer file leaves every file a time of its own.                      *)
LEMMA OnlyOneNewer ==
    ASSUME DiskType, OwnTimes, NEW f, clock' = clock + 1,
           files'[f].modified = clock + 1,
           \A g \in DOMAIN files' \ {f} : g \in DOMAIN files /\ files'[g] = files[g]
    PROVE  OwnTimes'
<1>1. /\ clock \in Nat
      /\ \A g \in DOMAIN files : files[g].modified \in Nat /\ files[g].modified <= clock
  BY FileThere DEF OwnTimes, DiskType
<1>2. ASSUME NEW g \in DOMAIN files', g # f
      PROVE  /\ files'[g].modified <= clock /\ files'[g].modified \in Nat
             /\ files'[g].modified # clock + 1
  BY <1>1, <1>2
<1>3. ASSUME NEW g \in DOMAIN files'
      PROVE  files'[g].modified <= clock'
  BY <1>1, <1>2
<1>4. ASSUME NEW g \in DOMAIN files', NEW h \in DOMAIN files',
             files'[g].modified = files'[h].modified
      PROVE  g = h
  <2>1. CASE g # f /\ h # f
    BY <1>4, <2>1 DEF OwnTimes
  <2> QED
    BY <1>2, <1>4, <2>1
<1> QED
  BY <1>3, <1>4 DEF OwnTimes

(* A write in place.                                                        *)
LEMMA InPlaceEffect ==
    ASSUME DiskType, OwnTimes, NEW f \in DOMAIN files, NEW bytes \in Seq(Nat),
           InPlace(f, bytes)
    PROVE  WriteEffect
<1>1. /\ clock' = clock + 1 /\ UNCHANGED <<request, cache, answer, page, index>>
      /\ files' = [files EXCEPT ![f] = Written(bytes)]
  BY DEF InPlace, Write
<1>2. Written(bytes) \in FileStates /\ Written(bytes).modified = clock + 1
  BY WrittenType DEF DiskType
<1>3. DOMAIN files = 1 .. Len(files) /\ Len(files) \in Nat
  BY FileThere
<1>4. \A g \in DOMAIN files : files[g] \in FileStates
  BY FileThere
<1>5. /\ DOMAIN files' = DOMAIN files /\ files'[f] = Written(bytes)
      /\ \A g \in DOMAIN files : g # f => files'[g] = files[g]
  BY <1>1
<1>6. files' \in Seq(FileStates)
  BY <1>1, <1>2, ExceptSeq DEF DiskType
<1>7. OwnTimes'
  BY <1>1, <1>2, <1>5, OnlyOneNewer
<1> QED
  BY <1>1, <1>2, <1>5, <1>6, <1>7 DEF WriteEffect, DiskType

(* A new file.                                                              *)
LEMMA ReplaceEffect ==
    ASSUME DiskType, OwnTimes, NEW n \in 0 .. MaxSize, Replace(n)
    PROVE  WriteEffect
<1> DEFINE new == Written(Filled(n))
<1>1. /\ clock' = clock + 1 /\ UNCHANGED <<request, cache, answer, index>>
      /\ files' = Append(files, new)
      /\ page' = Len(files')
  BY DEF Replace, Write
<1>2. Filled(n) \in Seq(Nat)
  <2>1. n \in Nat
    BY FileAssumption
  <2> QED
    BY <2>1, IsASeq DEF Filled, DiskType
<1>3. new \in FileStates /\ new.modified = clock + 1
  BY <1>2, WrittenType DEF DiskType
<1> HIDE DEF new
<1>4. /\ Len(files) \in Nat /\ DOMAIN files = 1 .. Len(files)
      /\ \A g \in DOMAIN files : files[g] \in FileStates
  BY LenProperties, ElementOfSeq DEF DiskType
<1>5. /\ files' \in Seq(FileStates) /\ Len(files') = Len(files) + 1
      /\ \A g \in 1 .. Len(files) : files'[g] = files[g]
      /\ files'[Len(files) + 1] = new
  BY <1>1, <1>3, AppendProperties DEF DiskType
<1>6. DOMAIN files' = 1 .. Len(files) + 1
  BY <1>5, LenProperties
<1>7. OwnTimes'
  <2>1. \A g \in DOMAIN files' \ {Len(files) + 1} : g \in DOMAIN files /\ files'[g] = files[g]
    BY <1>4, <1>5, <1>6
  <2> QED
    BY <1>1, <1>3, <1>5, <2>1, OnlyOneNewer
<1>8. DiskType'
  BY <1>1, <1>4, <1>5, <1>6 DEF DiskType
<1> QED
  BY <1>1, <1>3, <1>4, <1>5, <1>6, <1>7, <1>8 DEF WriteEffect

(* Every write has that effect.                                             *)
LEMMA WriterEffect ==
    ASSUME DiskType, OwnTimes, Writer
    PROVE  WriteEffect
<1>1. CASE \E n \in 0 .. MaxSize : Replace(n)
  BY <1>1, ReplaceEffect
<1>2. CASE MakeDirectory \/ Unlink
  <2>1. \A g \in DOMAIN files : files[g].modified \in Nat
    BY FileThere
  <2> QED
    BY <1>2, <2>1 DEF MakeDirectory, Unlink, Write, WriteEffect, DiskType, OwnTimes
<1>3. ASSUME NEW f \in DOMAIN files, RollBack(f)
      PROVE  WriteEffect
  <2>1. /\ page' = f /\ clock' = clock + 1
        /\ UNCHANGED <<files, index, request, cache, answer>>
    BY <1>3 DEF RollBack, Write
  <2>2. \A g \in DOMAIN files : files[g].modified \in Nat
    BY FileThere
  <2> QED
    BY <2>1, <2>2 DEF WriteEffect, DiskType, OwnTimes
<1>4. ASSUME NEW f \in DOMAIN files, Truncate(f) \/ Extend(f) \/ Patch(f)
      PROVE  WriteEffect
  <2>1. files[f].bytes \in Seq(Nat) /\ clock + 1 \in Nat
    BY FileThere DEF DiskType
  <2>2. <<>> \in Seq(Nat) /\ Append(files[f].bytes, clock + 1) \in Seq(Nat)
    BY <2>1, AppendProperties, EmptySeq
  <2>3. CASE Patch(f)
    <3>1. 1 \in 1 .. Len(files[f].bytes)
      BY <2>1, <2>3, EmptySeq, LenProperties DEF Patch
    <3>2. [files[f].bytes EXCEPT ![1] = clock + 1] \in Seq(Nat)
      BY <2>1, <3>1, ExceptSeq, LenProperties
    <3> QED
      BY <2>3, <3>2, InPlaceEffect DEF Patch
  <2> QED
    BY <1>4, <2>2, <2>3, InPlaceEffect DEF Truncate, Extend
<1> QED
  BY <1>1, <1>2, <1>3, <1>4 DEF Writer

(* Nothing that was read or kept is mistaken for what is written.           *)
LEMMA WriterStep ==
    ASSUME FilesInv, Writer
    PROVE  FilesInv'
<1> USE DEF FilesInv
<1>1. WriteEffect
  BY WriterEffect
<1>2. /\ clock \in Nat /\ clock' = clock + 1
      /\ UNCHANGED <<request, cache, answer>>
      /\ DOMAIN files \subseteq DOMAIN files'
      /\ \A f \in DOMAIN files' :
             files'[f].modified = clock + 1 \/ (f \in DOMAIN files /\ files'[f] = files[f])
  BY <1>1 DEF WriteEffect, DiskType
<1>3. \A f \in DOMAIN files', m \in Nat :
          files'[f].modified = m /\ m <= clock => f \in DOMAIN files /\ files'[f] = files[f]
  BY <1>2
<1>4. CacheFits'
  BY <1>2, <1>3 DEF CacheFits, Same
<1>5. RequestFits'
  BY <1>2 DEF RequestFits, FileStates, Same
<1>6. ReadFits'
  <2>1. ASSUME request # None, request.stage \in {"read", "stream"}, request.handle # Dir,
               NEW f \in DOMAIN files', files'[f].modified = request.meta.modified
        PROVE  f = request.handle /\ Prefix(request.sent, files'[f].bytes)
    <3>1. request.meta.modified \in Nat /\ request.meta.modified <= clock
      BY <2>1 DEF ReadFits, FileStates
    <3>2. f \in DOMAIN files /\ files'[f] = files[f]
      BY <1>3, <2>1, <3>1
    <3> QED
      BY <2>1, <3>2 DEF ReadFits
  <2>2. request # None /\ request.stage \in {"read", "stream"} =>
            request.meta.modified \in Nat /\ request.meta.modified <= clock'
    BY <1>2 DEF ReadFits, FileStates
  <2> QED
    BY <1>2, <2>1, <2>2 DEF ReadFits
<1>7. NotModifiedIsFresh' /\ BodyFits'
  BY <1>2 DEF NotModifiedIsFresh, BodyFits
<1>8. OneFile'
  <2>1. ASSUME answer # None, answer.status = 200, ~answer.request.head,
               answer.request.handle # Dir,
               files'[answer.request.handle] = answer.request.opened
        PROVE  files[answer.request.handle] = answer.request.opened
    BY <1>2, <1>3, <2>1 DEF BodyFits
  <2> QED
    BY <1>2, <2>1 DEF OneFile
<1> QED
  BY <1>1, <1>4, <1>5, <1>6, <1>7, <1>8 DEF WriteEffect

-----------------------------------------------------------------------------
(* Requests.                                                                *)

(* Serving writes nothing.                                                  *)
LEMMA DiskKept ==
    ASSUME FilesInv, UNCHANGED disk
    PROVE  DiskType' /\ OwnTimes'
BY DEF FilesInv, disk, DiskType, OwnTimes

(* An answer without a body, and not by a validator, promises nothing.      *)
LEMMA OtherReply ==
    ASSUME FilesInv, NEW code, NEW length, NEW etag, NEW then, code \notin {200, 304},
           Reply(code, length, etag, then), UNCHANGED cache
    PROVE  FilesInv'
<1>1. /\ UNCHANGED <<files, clock, cache>> /\ request' = None
      /\ answer' = [status |-> code, length |-> length, etag |-> etag,
                    request |-> request, now |-> then]
  BY DEF Reply, disk
<1>2. DiskType' /\ OwnTimes'
  BY DiskKept DEF Reply
<1>3. answer'.status \notin {200, 304}
  BY <1>1
<1> QED
  BY <1>1, <1>2, <1>3 DEF FilesInv, CacheFits, RequestFits, ReadFits, NotModifiedIsFresh,
     OneFile, BodyFits

(* A request comes with tags and a date, or without.                        *)
LEMMA ArriveStep ==
    ASSUME FilesInv, NEW head \in BOOLEAN, NEW slash \in BOOLEAN,
           NEW v \in Validators, Arrive(head, slash, v)
    PROVE  FilesInv'
<1> USE DEF FilesInv
<1>1. /\ UNCHANGED <<files, clock, cache>> /\ answer' = None
      /\ request' = [stage |-> "resolve", head |-> head, slash |-> slash, v |-> v,
                     name |-> None, meta |-> None, handle |-> None,
                     opened |-> None, length |-> 0, sent |-> <<>>]
      /\ UNCHANGED disk
  BY DEF Arrive, disk
<1>2. v \in [ifNoneMatch : TagLists, ifModifiedSince : Nat \union {None}]
  <2>1. ASSUME cache # None
        PROVE  cache.etag \in Nat \X Nat /\ Seconds(cache.modified) \in Nat
    <3>1. /\ cache.bytes \in Seq(Nat) /\ cache.modified \in Nat
          /\ cache.etag = <<Len(cache.bytes), cache.modified>>
      BY <2>1 DEF CacheFits
    <3>2. Len(cache.bytes) \in Nat
      BY <3>1, LenProperties
    <3>3. Seconds(cache.modified) \in Nat
      BY <3>1, FileAssumption DEF Seconds
    <3> QED
      BY <3>1, <3>2, <3>3
  <2>2. MakeEtag(1, 0) \in Nat \X Nat
    BY DEF MakeEtag
  <2>3. Tags \subseteq TagLists
    BY <2>1, <2>2 DEF Tags, TagLists
  <2>4. Dates \subseteq Nat \union {None}
    BY <2>1 DEF Dates
  <2> QED
    BY <2>3, <2>4 DEF Validators
<1>3. None \in Nat \union {Dir, None} /\ <<>> \in Seq(Nat)
  BY EmptySeq
<1>4. request' \in Requests
  BY <1>1, <1>2, <1>3 DEF Requests
<1>5. DiskType' /\ OwnTimes'
  BY <1>1, DiskKept
<1> QED
  BY <1>1, <1>2, <1>4, <1>5
     DEF CacheFits, RequestFits, ReadFits, NotModifiedIsFresh, OneFile, BodyFits

(* What a name is when it is there.                                         *)
LEMMA TargetThere ==
    ASSUME DiskType, NEW name, At(name) # None, At(name) # Dir
    PROVE  At(name) \in DOMAIN files /\ files[At(name)] \in FileStates
BY FileThere DEF At, DiskType

(* The target of a request that is opened was a file.                       *)
LEMMA ResolveStep ==
    ASSUME FilesInv, Resolve
    PROVE  FilesInv'
<1>1. CASE PassOn \/ (Reply(308, 0, None, None) /\ UNCHANGED cache)
  BY <1>1, OtherReply DEF PassOn
<1>2. CASE /\ At(Target) # None
           /\ request' = [request EXCEPT !.stage = "open", !.name = Target,
                                         !.meta = files[At(Target)]]
           /\ UNCHANGED <<disk, cache, answer>>
  <2> USE DEF FilesInv
  <2>1. At(Target) \in DOMAIN files
    BY <1>2 DEF At, Target, DiskType
  <2>2. /\ files[At(Target)] \in FileStates /\ files[At(Target)].modified <= clock
        /\ cache # None => Same(files[At(Target)], cache)
    BY <2>1, FileThere DEF OwnTimes, CacheFits
  <2>3. request # None /\ request \in Requests
    BY DEF Resolve, RequestFits
  <2>4. /\ request' \in Requests /\ request'.stage = "open"
        /\ request'.meta = files[At(Target)] /\ request'.v = request.v
        /\ request'.sent = request.sent /\ request.stage = "resolve"
    <3> DEFINE file == files[At(Target)]
               name == Target
    <3>1. request' = [request EXCEPT !.stage = "open", !.name = name, !.meta = file]
      BY <1>2
    <3>2. file \in FileStates /\ name \in {"page", "index"}
      BY <2>2 DEF Target
    <3>3. request.stage = "resolve"
      BY DEF Resolve
    <3> HIDE DEF file, name
    <3>4. /\ request'.stage = "open" /\ request'.meta = file
          /\ request'.v = request.v /\ request'.sent = request.sent
      BY <2>3, <3>1 DEF Requests
    <3>5. request' \in Requests
      BY <2>3, <3>1, <3>2 DEF Requests
    <3> QED
      BY <3>3, <3>4, <3>5 DEF file
  <2>5. DiskType' /\ OwnTimes' /\ UNCHANGED <<files, clock, cache, answer>>
    BY <1>2, DiskKept DEF disk
  <2> QED
    BY <2>2, <2>3, <2>4, <2>5
       DEF CacheFits, RequestFits, ReadFits, NotModifiedIsFresh, OneFile, BodyFits
<1> QED
  BY <1>1, <1>2 DEF Resolve

(* The validators are those of the description, and so is the length.       *)
LEMMA OpenStep ==
    ASSUME FilesInv, Open
    PROVE  FilesInv'
<1> USE DEF FilesInv
<1> DEFINE meta == Described
           length == Len(meta.bytes)
           etag == MakeEtag(length, meta.modified)
           what == At(request.name)
<1>1. request # None /\ request.stage = "open" /\ request \in Requests
  BY DEF Open, RequestFits
<1>2. CASE PassOn
  BY <1>2, OtherReply DEF PassOn
<1>3. CASE what # None /\ ~PassOn
  <2>1. what # Dir => what \in DOMAIN files /\ meta = files[what]
    BY <1>3, TargetThere DEF Described, Found
  <2>2. /\ meta \in FileStates /\ meta.modified <= clock
        /\ cache # None => Same(meta, cache)
    <3>1. CASE what # Dir
      BY <2>1, <3>1, FileThere DEF OwnTimes, CacheFits
    <3>2. CASE what = Dir
      BY <1>1, <3>2 DEF Described, RequestFits
    <3> QED
      BY <3>1, <3>2
  <2>3. length \in Nat /\ meta.modified \in Nat
    BY <2>2, LenProperties DEF FileStates
  <2>4. UNCHANGED <<files, clock>> /\ DiskType' /\ OwnTimes'
    BY DiskKept DEF Open, PassOn, Reply, disk
  <2> HIDE DEF meta, what
  <2>5. CASE /\ NotModified(request.v, etag, meta.modified)
             /\ Reply(304, None, etag, meta.bytes) /\ UNCHANGED cache
    <3>1. request' = None /\ answer'.status = 304 /\ answer'.request = request
          /\ answer'.now = meta.bytes /\ answer'.etag = <<length, meta.modified>>
      BY <2>5 DEF Reply, MakeEtag
    <3>2. ASSUME request.v.ifNoneMatch # None, Star \notin request.v.ifNoneMatch
          PROVE  <<length, meta.modified>> \in request.v.ifNoneMatch
      BY <2>5, <3>2 DEF NotModified, MakeEtag
    <3>3. ASSUME cache # None, cache.etag = <<length, meta.modified>>
          PROVE  cache.bytes = meta.bytes
      BY <2>2, <3>3 DEF CacheFits, Same
    <3>4. NotModifiedIsFresh'
      BY <2>5, <3>1, <3>2, <3>3 DEF NotModifiedIsFresh
    <3> QED
      BY <2>4, <2>5, <3>1, <3>4 DEF CacheFits, RequestFits, ReadFits, OneFile, BodyFits
  <2>6. CASE request.head /\ Reply(200, length, etag, meta.bytes) /\ UNCHANGED cache
    <3>1. request' = None /\ answer'.status = 200 /\ answer'.request = request
      BY <2>6 DEF Reply
    <3> QED
      BY <2>4, <2>6, <3>1
         DEF CacheFits, RequestFits, ReadFits, NotModifiedIsFresh, OneFile, BodyFits
  <2>7. CASE /\ request' = [request EXCEPT
                                !.stage = IF length <= SmallFile THEN "read" ELSE "stream",
                                !.handle = what,
                                !.opened = Found(what),
                                !.meta = meta,
                                !.length = length]
             /\ UNCHANGED <<cache, answer>>
    <3>1. /\ request'.stage \in {"read", "stream"} /\ request'.handle = what
          /\ request'.opened = Found(what) /\ request'.meta = meta
          /\ request'.length = length /\ request'.v = request.v
          /\ request'.sent = request.sent
      BY <1>1, <2>7 DEF Requests
    <3>2. /\ what \in Nat \union {Dir, None}
          /\ Found(what) \in FileStates \union {None}
          /\ what # Dir => Found(what) = meta
      BY <1>3, <2>1, <2>2, FileThere DEF Found
    <3>3. request' \in Requests
      BY <1>1, <2>2, <2>3, <2>7, <3>2 DEF Requests
    <3>4. RequestFits'
      BY <1>1, <2>7, <3>1, <3>3 DEF RequestFits
    <3>5. Len(<<>>) = 0 /\ request.sent = <<>>
      BY <1>1, EmptySeq DEF RequestFits
    <3>6. ASSUME what # Dir, NEW f \in DOMAIN files, files[f].modified = meta.modified
          PROVE  f = what /\ Prefix(<<>>, files[f].bytes)
      <4>1. f = what
        BY <2>1, <3>6 DEF OwnTimes
      <4>2. Len(files[f].bytes) \in Nat
        BY FileThere
      <4> QED
        BY <3>5, <4>1, <4>2 DEF Prefix
    <3>7. ReadFits'
      BY <1>3, <2>1, <2>2, <2>3, <2>4, <3>1, <3>2, <3>5, <3>6 DEF ReadFits
    <3> QED
      BY <2>4, <2>7, <3>4, <3>7 DEF CacheFits, NotModifiedIsFresh, OneFile, BodyFits
  <2> QED
    BY <1>1, <1>3, <2>5, <2>6, <2>7 DEF Open, meta, what
<1> QED
  BY <1>2, <1>3 DEF Open

(* A sequence followed by the next elements of another.                     *)
LEMMA Continued ==
    ASSUME NEW s \in Seq(Nat), NEW t \in Seq(Nat), NEW n \in Nat, Len(s) + n <= Len(t)
    PROVE  LET longer == s \o SubSeq(t, Len(s) + 1, Len(s) + n)
           IN /\ longer \in Seq(Nat) /\ Len(longer) = Len(s) + n
              /\ \A i \in 1 .. Len(s) : longer[i] = s[i]
              /\ \A i \in Len(s) + 1 .. Len(s) + n : longer[i] = t[i]
<1> DEFINE at == Len(s)
           piece == SubSeq(t, at + 1, at + n)
           longer == s \o piece
<1>1. at \in Nat /\ Len(t) \in Nat
  BY LenProperties
<1>2. \A i \in at + 1 .. at + n : t[i] \in Nat
  BY <1>1, ElementOfSeq
<1>3. at + 1 \in Int /\ at + n \in Int
  BY <1>1
<1>4. /\ piece \in Seq(Nat)
      /\ Len(piece) = IF at + 1 <= at + n THEN (at + n) - (at + 1) + 1 ELSE 0
      /\ \A i \in 1 .. (at + n) - (at + 1) + 1 : piece[i] = t[(at + 1) + i - 1]
  <2> HIDE DEF at
  <2> QED
    BY <1>2, <1>3, SubSeqProperties
<1>5. /\ longer \in Seq(Nat) /\ Len(longer) = at + Len(piece)
      /\ \A i \in 1 .. at + Len(piece) :
             longer[i] = IF i <= at THEN s[i] ELSE piece[i - at]
  BY <1>4, ConcatProperties
<1> HIDE DEF at, piece, longer
<1>6. Len(piece) = n /\ \A i \in 1 .. n : piece[i] = t[at + i]
  <2>1. (at + n) - (at + 1) + 1 = n /\ (at + 1 <= at + n <=> n # 0)
    BY <1>1
  <2>2. \A i \in 1 .. n : (at + 1) + i - 1 = at + i
    BY <1>1
  <2> QED
    BY <1>4, <2>1, <2>2
<1>7. /\ longer \in Seq(Nat) /\ Len(longer) = at + n
      /\ \A i \in 1 .. at : longer[i] = s[i]
      /\ \A i \in at + 1 .. at + n : longer[i] = t[i]
  <2>1. ASSUME NEW i \in at + 1 .. at + n
        PROVE  longer[i] = t[i]
    <3>1. i - at \in 1 .. n /\ at + (i - at) = i /\ i \in 1 .. at + n /\ ~(i <= at)
      BY <1>1
    <3> QED
      BY <1>5, <1>6, <3>1
  <2>2. ASSUME NEW i \in 1 .. at
        PROVE  longer[i] = s[i]
    <3>1. i \in 1 .. at + n /\ i <= at
      BY <1>1
    <3> QED
      BY <1>5, <1>6, <3>1
  <2> QED
    BY <1>5, <1>6, <2>1, <2>2
<1> QED
  BY <1>7 DEF longer, piece, at

(* What is read next continues the beginning of a file no one wrote to.     *)
LEMMA ReadStep ==
    ASSUME FilesInv, Read
    PROVE  FilesInv'
<1> USE DEF FilesInv
<1> DEFINE bytes == files[request.handle].bytes
           at == Len(request.sent)
<1>1. /\ request # None /\ request.stage \in {"read", "stream"} /\ request.handle # Dir
      /\ request \in Requests /\ request.handle \in DOMAIN files
      /\ UNCHANGED <<disk, cache, answer>>
  BY DEF Read, RequestFits, ReadFits
<1>2. PICK n \in 1 .. Available(bytes) :
          request' = [request EXCEPT !.sent = @ \o SubSeq(bytes, at + 1, at + n)]
  BY DEF Read
<1>3. /\ bytes \in Seq(Nat) /\ Len(bytes) \in Nat
      /\ request.sent \in Seq(Nat) /\ at \in Nat /\ request.length \in Nat
  BY <1>1, FileThere, LenProperties DEF Requests
<1> HIDE DEF bytes, at
<1>4. n \in Nat /\ at + n <= Len(bytes) /\ at + n <= request.length
  <2> DEFINE left == request.length - at
             there == Len(bytes) - at
  <2>1. left \in Int /\ there \in Int
    BY <1>3
  <2>2. Available(bytes) = IF there <= 0 THEN 0 ELSE IF left < there THEN left ELSE there
    BY DEF Available, at
  <2> HIDE DEF left, there
  <2>3. Available(bytes) \in Int
    BY <2>1, <2>2
  <2>4. n \in Int /\ 1 <= n /\ n <= Available(bytes)
    BY <2>3
  <2>5. n <= left /\ n <= there
    BY <2>1, <2>2, <2>4
  <2> QED
    BY <1>3, <2>4, <2>5 DEF left, there
<1> DEFINE longer == request.sent \o SubSeq(bytes, at + 1, at + n)
<1>5. /\ longer \in Seq(Nat) /\ Len(longer) = at + n
      /\ \A i \in 1 .. at : longer[i] = request.sent[i]
      /\ \A i \in at + 1 .. at + n : longer[i] = bytes[i]
  BY <1>3, <1>4, Continued DEF at
<1>6. request' = [request EXCEPT !.sent = longer]
  BY <1>2
<1> HIDE DEF longer
<1>7. /\ request' \in Requests
      /\ request'.sent = longer
      /\ request'.stage = request.stage /\ request'.handle = request.handle
      /\ request'.meta = request.meta /\ request'.opened = request.opened
      /\ request'.length = request.length /\ request'.v = request.v
  BY <1>1, <1>5, <1>6 DEF Requests
<1>8. DiskType' /\ OwnTimes' /\ UNCHANGED <<files, clock, cache, answer>>
  BY <1>1, DiskKept DEF disk
<1>9. RequestFits'
  BY <1>1, <1>7, <1>8 DEF RequestFits
<1>10. ASSUME NEW f \in DOMAIN files, files[f].modified = request.meta.modified
       PROVE  f = request.handle /\ Prefix(longer, files[f].bytes)
  <2>1. f = request.handle /\ Prefix(request.sent, bytes)
    BY <1>1, <1>10 DEF ReadFits, bytes
  <2>2. bytes = files[f].bytes
    BY <2>1 DEF bytes
  <2>3. ASSUME NEW i \in 1 .. at + n
        PROVE  longer[i] = bytes[i]
    <3>1. CASE i <= at
      <4>1. i \in 1 .. at
        BY <1>3, <1>4, <3>1
      <4> QED
        BY <1>5, <2>1, <4>1 DEF Prefix, at
    <3>2. CASE ~(i <= at)
      <4>1. i \in at + 1 .. at + n
        BY <1>3, <1>4, <3>2
      <4> QED
        BY <1>5, <4>1
    <3> QED
      BY <3>1, <3>2
  <2> QED
    BY <1>4, <1>5, <2>1, <2>2, <2>3 DEF Prefix
<1>11. ReadFits'
  BY <1>1, <1>3, <1>4, <1>5, <1>7, <1>8, <1>10 DEF ReadFits
<1> QED
  BY <1>8, <1>9, <1>11 DEF CacheFits, NotModifiedIsFresh, OneFile, BodyFits

(* What is kept has the tag of what was read.                               *)
LEMMA KeepFits ==
    ASSUME FilesInv, request # None, request.stage \in {"read", "stream"},
           NEW length, UNCHANGED <<files, clock>>,
           Keep(length, MakeEtag(length, request.meta.modified))
    PROVE  CacheFits'
<1> USE DEF FilesInv
<1> DEFINE copy == [etag |-> MakeEtag(length, request.meta.modified),
                    modified |-> request.meta.modified, bytes |-> request.sent]
<1>1. CASE cache' = cache
  BY <1>1 DEF CacheFits
<1>2. CASE Len(request.sent) = length /\ cache' = copy
  <2>1. /\ copy.modified = request.meta.modified /\ copy.bytes = request.sent
        /\ copy.etag = <<length, request.meta.modified>>
    BY DEF MakeEtag
  <2>2. /\ request.sent \in Seq(Nat) /\ request.meta.modified \in Nat
        /\ request.meta.modified <= clock
    BY DEF RequestFits, ReadFits, Requests, FileStates
  <2>3. ASSUME NEW f \in DOMAIN files, files[f].modified = request.meta.modified,
               Len(files[f].bytes) = Len(request.sent)
        PROVE  files[f].bytes = request.sent
    <3>1. files[f].bytes \in Seq(Nat) /\ Len(request.sent) \in Nat
      BY <2>2, FileThere, LenProperties
    <3>2. CASE request.handle = Dir
      <4>1. request.sent = <<>>
        BY <3>2 DEF ReadFits
      <4> QED
        BY <2>3, <3>1, <4>1, EmptySeq
    <3>3. CASE request.handle # Dir
      <4>1. Prefix(request.sent, files[f].bytes)
        BY <2>3, <3>3 DEF ReadFits
      <4> QED
        BY <2>2, <2>3, <3>1, <4>1, SeqEqual DEF Prefix
    <3> QED
      BY <3>2, <3>3
  <2> HIDE DEF copy
  <2> QED
    BY <1>2, <2>1, <2>2, <2>3 DEF CacheFits, Same
<1> QED
  BY <1>1, <1>2 DEF Keep

(* At its end all of a file was read that no one wrote to.                  *)
LEMMA EndOfFile ==
    ASSUME FilesInv, request # None, request.stage \in {"read", "stream"}, AtEnd,
           request.handle # Dir, files[request.handle] = request.opened
    PROVE  request.sent = files[request.handle].bytes /\ Len(request.sent) = request.length
<1> USE DEF FilesInv
<1> DEFINE bytes == files[request.handle].bytes
<1>1. /\ request.handle \in DOMAIN files /\ Prefix(request.sent, bytes)
      /\ request.length = Len(bytes)
  BY DEF ReadFits
<1>2. bytes \in Seq(Nat) /\ request.sent \in Seq(Nat)
  BY <1>1, FileThere DEF RequestFits, Requests
<1>3. Len(bytes) \in Nat /\ Len(request.sent) \in Nat
  BY <1>2, LenProperties
<1>4. Len(request.sent) = Len(bytes)
  <2>1. CASE Available(bytes) <= 0
    BY <1>1, <1>3, <2>1 DEF Available, Prefix
  <2> QED
    BY <1>1, <2>1 DEF AtEnd
<1> QED
  BY <1>1, <1>2, <1>4, SeqEqual DEF Prefix

(* The answers that end a body.                                             *)
LEMMA FinishStep ==
    ASSUME FilesInv, FinishSmall \/ FinishStream
    PROVE  FilesInv'
<1> USE DEF FilesInv
<1>1. CASE FinishSmall /\ request.handle = Dir /\ PassOn
  BY <1>1, OtherReply DEF PassOn
<1>2. ASSUME NEW length, request # None, request.stage \in {"read", "stream"},
             request.handle = Dir \/ AtEnd,
             Reply(200, length, MakeEtag(length, request.meta.modified), request.meta.bytes),
             Keep(length, MakeEtag(length, request.meta.modified)),
             \/ length = Len(request.sent)
             \/ length = request.length /\ request.stage # "read"
      PROVE  FilesInv'
  <2>1. /\ UNCHANGED disk /\ UNCHANGED <<files, clock>> /\ request' = None
        /\ answer'.status = 200 /\ answer'.request = request /\ answer'.length = length
    BY <1>2 DEF Reply, disk
  <2>2. DiskType' /\ OwnTimes'
    BY <2>1, DiskKept
  <2>3. CacheFits'
    BY <1>2, <2>1, KeepFits
  <2>4. RequestFits' /\ ReadFits' /\ NotModifiedIsFresh'
    BY <2>1 DEF RequestFits, ReadFits, NotModifiedIsFresh
  <2>5. BodyFits'
    BY <1>2, <2>1 DEF BodyFits, ReadFits, FileStates
  <2>6. Len(request.sent) <= length /\ (request.stage = "read" => length = Len(request.sent))
    <3>1. Len(request.sent) \in Nat
      BY <1>2, LenProperties DEF RequestFits, Requests
    <3> QED
      BY <1>2, <3>1 DEF ReadFits
  <2>7. ASSUME request.handle # Dir, files[request.handle] = request.opened
        PROVE  request.sent = files[request.handle].bytes /\ length = Len(request.sent)
    BY <1>2, <2>7, EndOfFile
  <2>8. OneFile'
    BY <2>1, <2>6, <2>7 DEF OneFile
  <2> QED
    BY <2>2, <2>3, <2>4, <2>5, <2>8
<1> QED
  BY <1>1, <1>2 DEF FinishSmall, FinishStream, TagOf

-----------------------------------------------------------------------------
(* Initially.                                                               *)
LEMMA FilesStart ==
    ASSUME FilesInit
    PROVE  FilesInv
<1>1. <<0>> \in Seq(Nat)
  OBVIOUS
<1>2. [bytes |-> <<0>>, modified |-> 0] \in FileStates
  BY <1>1 DEF FileStates
<1>3. files \in Seq(FileStates) /\ DOMAIN files = {1} /\ files[1].modified = 0
  BY <1>2 DEF FilesInit
<1>4. DiskType /\ OwnTimes
  BY <1>3 DEF FilesInit, DiskType, OwnTimes
<1> QED
  BY <1>4 DEF FilesInit, FilesInv, CacheFits, RequestFits, ReadFits, NotModifiedIsFresh,
     OneFile, BodyFits

(* Every step.                                                              *)
LEMMA FilesGoOn ==
    ASSUME FilesInv, [FilesNext]_fileVars
    PROVE  FilesInv'
<1>1. CASE Writer
  BY <1>1, WriterStep
<1>2. CASE Serve
  BY <1>2, ResolveStep, OpenStep, ReadStep, FinishStep DEF Serve
<1>3. CASE \E head, slash \in BOOLEAN :
               \E v \in Validators : Arrive(head, slash, v)
  BY <1>3, ArriveStep
<1>4. CASE UNCHANGED fileVars
  BY <1>4 DEF fileVars, disk, FilesInv, DiskType, OwnTimes, CacheFits, RequestFits,
     ReadFits, NotModifiedIsFresh, OneFile, BodyFits
<1> QED
  BY <1>1, <1>2, <1>3, <1>4 DEF FilesNext

(* A 304 to a request with an entity tag is true, whatever was written      *)
(* before, between and since (Config::respond, not_modified).               *)
THEOREM NotModifiedTrue == FilesSpec => []NotModifiedIsFresh
<1>1. FilesInv => NotModifiedIsFresh
  BY DEF FilesInv
<1> QED
  BY <1>1, FilesStart, FilesGoOn, PTL DEF FilesSpec

(* Every body is of one file, whoever takes its name over (small files and  *)
(* streams).                                                                *)
THEOREM BodyOfOneFile == FilesSpec => []OneFile
<1>1. FilesInv => OneFile
  BY DEF FilesInv
<1> QED
  BY <1>1, FilesStart, FilesGoOn, PTL DEF FilesSpec

-----------------------------------------------------------------------------
(* A multipart body and its guard.                                          *)

(* The beginnings of the delimiter that s ends with, by their lengths.       *)
Begun(s) == {k \in 1 .. DelimiterSize - 1 :
                k <= Len(s) /\ LastBytes(s, k) = SubSeq(Delimiter, 1, k)}

(* The part of the delimiter from i to j is what s holds from n + i on.      *)
Spells(s, n, i, j) == \A m \in i .. j : s[n + m] = Delimiter[m]

(* The least of a set of numbers is one of them.                             *)
LEMMA LeastByte ==
    ASSUME NEW S \in SUBSET Nat, S # {}
    PROVE  Min(S) \in S /\ \A i \in S : Min(S) <= i
<1>1. SUFFICES \E x \in S : \A y \in S : x <= y
  BY Zenon DEF Min
<1> DEFINE Out == {n \in Nat : \A m \in 0 .. n : m \notin S}
<1>2. PICK x0 \in S : TRUE
  OBVIOUS
<1>3. ASSUME \A x \in S : \E y \in S : ~(x <= y)
      PROVE  FALSE
  <2>1. 0 \in Out
    BY <1>3
  <2>2. \A n \in Nat : n \in Out => n + 1 \in Out
    <3>1. SUFFICES ASSUME NEW n \in Nat, n \in Out
                   PROVE  n + 1 \notin S
      OBVIOUS
    <3>2. ASSUME n + 1 \in S
          PROVE  FALSE
      <4>1. PICK y \in S : ~(n + 1 <= y)
        BY <3>2, <1>3
      <4> QED BY <4>1, <3>1
    <3> QED BY <3>2
  <2>3. Nat \subseteq Out
    <3> HIDE DEF Out
    <3> QED BY <2>1, <2>2, NatInSet
  <2> QED BY <2>3, <1>2
<1> QED BY <1>3

(* A delimiter ends where its bytes are spelled.                             *)
LEMMA DelimiterSpelled ==
    ASSUME NEW s \in Seq(Bytes), NEW i \in Nat
    PROVE  i \in Delimiters(s) <=>
               /\ DelimiterSize <= i /\ i <= Len(s)
               /\ Spells(s, i - DelimiterSize, 1, DelimiterSize)
<1> DEFINE n == i - DelimiterSize
           part == SubSeq(s, n + 1, i)
<1>1. /\ Len(s) \in Nat /\ Delimiter \in Seq(Bytes) /\ DelimiterSize \in Nat
      /\ DelimiterSize = Len(Delimiter)
  BY GuardAssumption, LenProperties DEF DelimiterSize
<1>2. SUFFICES ASSUME DelimiterSize <= i, i <= Len(s)
               PROVE  part = Delimiter <=> Spells(s, n, 1, DelimiterSize)
  BY <1>1 DEF Delimiters
<1>3. /\ part \in Seq(Bytes) /\ Len(part) = DelimiterSize
      /\ \A m \in 1 .. DelimiterSize : part[m] = s[n + m]
  <2>1. \A m \in n + 1 .. i : s[m] \in Bytes
    BY <1>1, <1>2, ElementOfSeq
  <2>2. n + 1 \in Int /\ i \in Int
    BY <1>1
  <2>3. /\ part \in Seq(Bytes)
        /\ Len(part) = IF n + 1 <= i THEN i - (n + 1) + 1 ELSE 0
        /\ \A m \in 1 .. i - (n + 1) + 1 : part[m] = s[n + 1 + m - 1]
    BY <2>1, <2>2, SubSeqProperties
  <2>4. \A m \in 1 .. DelimiterSize : n + 1 + m - 1 = n + m
    BY <1>1
  <2>5. i - (n + 1) + 1 = DelimiterSize
    BY <1>1
  <2>6. n + 1 <= i
    BY <1>1, <1>2, GuardAssumption, EmptySeq
  <2>7. part = SubSeq(s, n + 1, i)
    OBVIOUS
  <2> HIDE DEF part, n
  <2>8. Len(part) = DelimiterSize
    BY <2>3, <2>5, <2>6
  <2>9. \A m \in 1 .. DelimiterSize : part[m] = s[n + m]
    BY <2>3, <2>4, <2>5
  <2> QED BY <2>3, <2>8, <2>9
<1> HIDE DEF part, n
<1>4. ASSUME Spells(s, n, 1, DelimiterSize)
      PROVE  part = Delimiter
  <2>1. \A m \in 1 .. Len(part) : part[m] = Delimiter[m]
    BY <1>3, <1>4 DEF Spells
  <2> QED BY <2>1, <1>1, <1>3, SeqEqual
<1>5. ASSUME part = Delimiter
      PROVE  Spells(s, n, 1, DelimiterSize)
  BY <1>3, <1>5 DEF Spells
<1> QED BY <1>4, <1>5

(* The last bytes of s.                                                      *)
LEMMA LastOnes ==
    ASSUME NEW s \in Seq(Bytes), NEW k \in 0 .. Len(s)
    PROVE  /\ LastBytes(s, k) \in Seq(Bytes)
           /\ Len(LastBytes(s, k)) = k
           /\ \A m \in 1 .. k : LastBytes(s, k)[m] = s[Len(s) - k + m]
<1> DEFINE n == Len(s) - k
<1>1. Len(s) \in Nat /\ k \in Nat /\ n \in Nat
  BY LenProperties
<1>2. \A m \in n + 1 .. Len(s) : s[m] \in Bytes
  BY <1>1, ElementOfSeq
<1>3. n + 1 \in Int /\ Len(s) \in Int
  BY <1>1
<1>4. /\ SubSeq(s, n + 1, Len(s)) \in Seq(Bytes)
      /\ Len(SubSeq(s, n + 1, Len(s))) = IF n + 1 <= Len(s) THEN Len(s) - (n + 1) + 1 ELSE 0
      /\ \A m \in 1 .. Len(s) - (n + 1) + 1 : SubSeq(s, n + 1, Len(s))[m] = s[n + 1 + m - 1]
  BY <1>2, <1>3, SubSeqProperties
<1>5. Len(s) - (n + 1) + 1 = k /\ (n + 1 <= Len(s) <=> k # 0)
      /\ \A m \in 1 .. k : n + 1 + m - 1 = n + m
  BY <1>1
<1>6. LastBytes(s, k) = SubSeq(s, n + 1, Len(s))
  BY DEF LastBytes
<1> HIDE DEF n
<1>7. Len(LastBytes(s, k)) = k
  BY <1>1, <1>4, <1>5, <1>6
<1>8. \A m \in 1 .. k : LastBytes(s, k)[m] = s[n + m]
  BY <1>4, <1>5, <1>6
<1> QED BY <1>4, <1>6, <1>7, <1>8 DEF n

(* A beginning of the delimiter is one whose bytes are spelled at the end.   *)
LEMMA BegunSpelled ==
    ASSUME NEW s \in Seq(Bytes), NEW k \in 1 .. DelimiterSize - 1, k <= Len(s)
    PROVE  LastBytes(s, k) = SubSeq(Delimiter, 1, k) <=> Spells(s, Len(s) - k, 1, k)
<1>1. /\ Len(s) \in Nat /\ Delimiter \in Seq(Bytes) /\ DelimiterSize \in Nat
      /\ DelimiterSize = Len(Delimiter) /\ k \in Nat /\ k \in 0 .. Len(s)
  BY GuardAssumption, LenProperties DEF DelimiterSize
<1>2. /\ LastBytes(s, k) \in Seq(Bytes) /\ Len(LastBytes(s, k)) = k
      /\ \A m \in 1 .. k : LastBytes(s, k)[m] = s[Len(s) - k + m]
  BY <1>1, LastOnes
<1>3. /\ SubSeq(Delimiter, 1, k) \in Seq(Bytes) /\ Len(SubSeq(Delimiter, 1, k)) = k
      /\ \A m \in 1 .. k : SubSeq(Delimiter, 1, k)[m] = Delimiter[m]
  <2>1. \A m \in 1 .. k : Delimiter[m] \in Bytes
    BY <1>1, ElementOfSeq
  <2>2. 1 \in Int /\ k \in Int
    BY <1>1
  <2>3. /\ SubSeq(Delimiter, 1, k) \in Seq(Bytes)
        /\ Len(SubSeq(Delimiter, 1, k)) = IF 1 <= k THEN k - 1 + 1 ELSE 0
        /\ \A m \in 1 .. k - 1 + 1 : SubSeq(Delimiter, 1, k)[m] = Delimiter[1 + m - 1]
    BY <2>1, <2>2, SubSeqProperties
  <2>4. k - 1 + 1 = k /\ 1 <= k /\ \A m \in 1 .. k : 1 + m - 1 = m
    BY <1>1
  <2> QED BY <2>3, <2>4
<1>4. ASSUME Spells(s, Len(s) - k, 1, k)
      PROVE  LastBytes(s, k) = SubSeq(Delimiter, 1, k)
  <2>1. \A m \in 1 .. k : LastBytes(s, k)[m] = SubSeq(Delimiter, 1, k)[m]
    BY <1>2, <1>3, <1>4 DEF Spells
  <2> QED BY <2>1, <1>2, <1>3, SeqEqual
<1>5. ASSUME LastBytes(s, k) = SubSeq(Delimiter, 1, k)
      PROVE  Spells(s, Len(s) - k, 1, k)
  BY <1>2, <1>3, <1>5 DEF Spells
<1> QED BY <1>4, <1>5

(* What is spelled across two sequences is spelled in both.                  *)
LEMMA SpelledJoined ==
    ASSUME NEW s \in Seq(Bytes), NEW c \in Seq(Bytes), NEW n \in Int,
           NEW i \in Int, NEW j \in Int
    PROVE  /\ 1 <= n + i /\ n + j <= Len(s) =>
                  (Spells(s \o c, n, i, j) <=> Spells(s, n, i, j))
           /\ Len(s) < n + i /\ n + j <= Len(s) + Len(c) =>
                  (Spells(s \o c, n, i, j) <=> Spells(c, n - Len(s), i, j))
<1>1. Len(s) \in Nat /\ Len(c) \in Nat
  BY LenProperties
<1>2. \A m \in 1 .. Len(s) + Len(c) :
          (s \o c)[m] = IF m <= Len(s) THEN s[m] ELSE c[m - Len(s)]
  BY ConcatProperties
<1>3. ASSUME 1 <= n + i, n + j <= Len(s)
      PROVE  Spells(s \o c, n, i, j) <=> Spells(s, n, i, j)
  <2>1. \A m \in i .. j : (s \o c)[n + m] = s[n + m]
    <3>1. ASSUME NEW m \in i .. j
          PROVE  (s \o c)[n + m] = s[n + m]
      <4>1. n + m \in 1 .. Len(s) + Len(c) /\ n + m <= Len(s)
        BY <1>1, <1>3
      <4> QED BY <4>1, <1>2
    <3> QED BY <3>1
  <2> QED BY <2>1 DEF Spells
<1>4. ASSUME Len(s) < n + i, n + j <= Len(s) + Len(c)
      PROVE  Spells(s \o c, n, i, j) <=> Spells(c, n - Len(s), i, j)
  <2>1. \A m \in i .. j : (s \o c)[n + m] = c[n - Len(s) + m]
    <3>1. ASSUME NEW m \in i .. j
          PROVE  (s \o c)[n + m] = c[n - Len(s) + m]
      <4>1. /\ n + m \in 1 .. Len(s) + Len(c) /\ ~(n + m <= Len(s))
            /\ n + m - Len(s) = n - Len(s) + m
        BY <1>1, <1>4
      <4> QED BY <4>1, <1>2
    <3> QED BY <3>1
  <2> QED BY <2>1 DEF Spells
<1> QED BY <1>3, <1>4

(* It can be read in two parts.                                              *)
LEMMA SpelledSplit ==
    ASSUME NEW s, NEW n \in Int, NEW i \in Int, NEW k \in Int, NEW j \in Int,
           i <= k + 1, k <= j
    PROVE  Spells(s, n, i, j) <=> Spells(s, n, i, k) /\ Spells(s, n, k + 1, j)
<1>1. i .. j = (i .. k) \union (k + 1 .. j)
  OBVIOUS
<1> QED BY <1>1 DEF Spells

(* c ends a delimiter at e, or ends with its first k bytes, after a sequence *)
(* that ends with the beginnings of the lengths B.                           *)
Completes(B, c, e) ==
    IF DelimiterSize <= e
    THEN Spells(c, e - DelimiterSize, 1, DelimiterSize)
    ELSE /\ DelimiterSize - e \in B
         /\ Spells(c, e - DelimiterSize, DelimiterSize - e + 1, DelimiterSize)

Continues(B, c, k) ==
    IF k <= Len(c)
    THEN Spells(c, Len(c) - k, 1, k)
    ELSE k - Len(c) \in B /\ Spells(c, Len(c) - k, k - Len(c) + 1, k)

(* The beginnings s ends with decide where a delimiter ends in what follows. *)
LEMMA DelimiterArrives ==
    ASSUME NEW s \in Seq(Bytes), NEW c \in Seq(Bytes), NEW e \in 1 .. Len(c)
    PROVE  Len(s) + e \in Delimiters(s \o c) <=> Completes(Begun(s), c, e)
<1> DEFINE w == s \o c
           n == Len(s) + e - DelimiterSize
<1>1. /\ Len(s) \in Nat /\ Len(c) \in Nat /\ e \in Nat /\ n \in Int
      /\ DelimiterSize \in Nat \ {0} /\ n - Len(s) = e - DelimiterSize
  <2>1. Delimiter \in Seq(Bytes) /\ Delimiter # <<>>
    BY GuardAssumption
  <2>2. DelimiterSize \in Nat \ {0}
    BY <2>1, EmptySeq DEF DelimiterSize
  <2> QED BY <2>2, LenProperties
<1>2. w \in Seq(Bytes) /\ Len(w) = Len(s) + Len(c)
  BY ConcatProperties
<1>3. Len(s) + e \in Delimiters(w) <=>
          DelimiterSize <= Len(s) + e /\ Spells(w, n, 1, DelimiterSize)
  <2> DEFINE i == Len(s) + e
  <2>1. i \in Nat /\ i <= Len(w) /\ n = i - DelimiterSize
    BY <1>1, <1>2
  <2> HIDE DEF w, n, i
  <2>2. i \in Delimiters(w) <=>
            /\ DelimiterSize <= i /\ i <= Len(w)
            /\ Spells(w, i - DelimiterSize, 1, DelimiterSize)
    BY <2>1, <1>2, DelimiterSpelled
  <2> QED BY <2>1, <2>2 DEF i
<1>4. CASE DelimiterSize <= e
  <2>1. 1 \in Int /\ DelimiterSize \in Int /\ Len(s) < n + 1
        /\ n + DelimiterSize <= Len(s) + Len(c) /\ DelimiterSize <= Len(s) + e
    BY <1>1, <1>4
  <2> DEFINE first == 1
  <2>a. first \in Int /\ Len(s) < n + first
    BY <2>1
  <2> HIDE DEF w, n, first
  <2>b. Spells(w, n, first, DelimiterSize) <=> Spells(c, n - Len(s), first, DelimiterSize)
    BY <2>1, <2>a, <1>1, SpelledJoined DEF w
  <2>2. Spells(w, n, 1, DelimiterSize) <=> Spells(c, n - Len(s), 1, DelimiterSize)
    BY <2>b DEF first
  <2>3. Spells(w, n, 1, DelimiterSize) <=> Spells(c, e - DelimiterSize, 1, DelimiterSize)
    BY <2>2, <1>1
  <2> QED BY <2>1, <2>3, <1>3, <1>4 DEF Completes, w
<1>5. CASE ~(DelimiterSize <= e) /\ ~(DelimiterSize <= Len(s) + e)
  <2>1. DelimiterSize - e \notin Begun(s)
    BY <1>1, <1>5 DEF Begun
  <2> QED BY <2>1, <1>3, <1>5 DEF Completes
<1>6. CASE ~(DelimiterSize <= e) /\ DelimiterSize <= Len(s) + e
  <2> DEFINE k == DelimiterSize - e
  <2>1. /\ k \in 1 .. DelimiterSize - 1 /\ k <= Len(s) /\ n = Len(s) - k
        /\ k \in Int /\ 1 \in Int /\ DelimiterSize \in Int
        /\ 1 <= k + 1 /\ k <= DelimiterSize /\ k + 1 \in Int
        /\ 1 <= n + 1 /\ n + k <= Len(s)
        /\ Len(s) < n + (k + 1) /\ n + DelimiterSize <= Len(s) + Len(c)
    BY <1>1, <1>6
  <2> HIDE DEF w, n, k
  <2>2. Spells(w, n, 1, DelimiterSize) <=>
            Spells(w, n, 1, k) /\ Spells(w, n, k + 1, DelimiterSize)
    BY <2>1, <1>1, SpelledSplit
  <2>3. Spells(w, n, 1, k) <=> Spells(s, n, 1, k)
    BY <2>1, <1>1, SpelledJoined DEF w
  <2>4. Spells(w, n, k + 1, DelimiterSize) <=> Spells(c, n - Len(s), k + 1, DelimiterSize)
    BY <2>1, <1>1, SpelledJoined DEF w
  <2>5. k \in Begun(s) <=> Spells(s, n, 1, k)
    <3>1. LastBytes(s, k) = SubSeq(Delimiter, 1, k) <=> Spells(s, Len(s) - k, 1, k)
      BY <2>1, BegunSpelled
    <3> QED BY <3>1, <2>1 DEF Begun
  <2>6. Completes(Begun(s), c, e) <=>
            k \in Begun(s) /\ Spells(c, n - Len(s), k + 1, DelimiterSize)
    BY <1>1, <1>6 DEF Completes, k
  <2> QED BY <2>2, <2>3, <2>4, <2>5, <2>6, <1>3, <1>6 DEF w
<1> QED BY <1>4, <1>5, <1>6

(* And they decide the beginnings the longer sequence ends with.             *)
LEMMA BegunGrows ==
    ASSUME NEW s \in Seq(Bytes), NEW c \in Seq(Bytes), NEW k \in 1 .. DelimiterSize - 1
    PROVE  k \in Begun(s \o c) <=> Continues(Begun(s), c, k)
<1> DEFINE w == s \o c
           n == Len(w) - k
<1>1. /\ Len(s) \in Nat /\ Len(c) \in Nat
      /\ DelimiterSize \in Nat \ {0}
  <2>1. Delimiter \in Seq(Bytes) /\ Delimiter # <<>>
    BY GuardAssumption
  <2>2. DelimiterSize \in Nat \ {0}
    BY <2>1, EmptySeq DEF DelimiterSize
  <2> QED BY <2>2, LenProperties
<1>2. w \in Seq(Bytes) /\ Len(w) = Len(s) + Len(c)
  BY ConcatProperties
<1>3. k \in Nat /\ n \in Int /\ n - Len(s) = Len(c) - k /\ k \in Int /\ 1 \in Int
      /\ 1 <= k /\ n = Len(s) + Len(c) - k
  BY <1>1, <1>2
<1>4. k \in Begun(w) <=> k <= Len(w) /\ Spells(w, n, 1, k)
  <2>1. CASE k <= Len(w)
    <3>1. LastBytes(w, k) = SubSeq(Delimiter, 1, k) <=> Spells(w, Len(w) - k, 1, k)
      BY <2>1, <1>2, BegunSpelled
    <3> QED BY <3>1, <2>1 DEF Begun
  <2>2. CASE ~(k <= Len(w))
    BY <2>2 DEF Begun
  <2> QED BY <2>1, <2>2
<1>5. CASE k <= Len(c)
  <2>1. k <= Len(w) /\ Len(s) < n + 1 /\ n + k <= Len(s) + Len(c)
    BY <1>1, <1>2, <1>3, <1>5
  <2> DEFINE first == 1
  <2>a. first \in Int /\ Len(s) < n + first
    BY <2>1
  <2> HIDE DEF w, n, first
  <2>c. n \in Int /\ k \in Int /\ n + k <= Len(s) + Len(c)
    BY <2>1, <1>3
  <2>b. Spells(w, n, first, k) <=> Spells(c, n - Len(s), first, k)
    BY <2>a, <2>c, SpelledJoined DEF w
  <2>2. Spells(w, n, 1, k) <=> Spells(c, n - Len(s), 1, k)
    BY <2>b DEF first
  <2>3. Spells(w, n, 1, k) <=> Spells(c, Len(c) - k, 1, k)
    BY <2>2, <1>3
  <2> QED BY <2>1, <2>3, <1>4, <1>5 DEF Continues, w
<1>6. CASE ~(k <= Len(c)) /\ ~(k <= Len(w))
  <2>1. k - Len(c) \notin Begun(s)
    BY <1>1, <1>2, <1>3, <1>6 DEF Begun
  <2> HIDE DEF w, n
  <2> QED BY <2>1, <1>4, <1>6 DEF Continues, w
<1>7. CASE ~(k <= Len(c)) /\ k <= Len(w)
  <2> DEFINE h == k - Len(c)
  <2>1. /\ h \in 1 .. DelimiterSize - 1 /\ h <= Len(s) /\ n = Len(s) - h
        /\ h \in Int /\ h + 1 \in Int /\ 1 <= h + 1 /\ h <= k
        /\ 1 <= n + 1 /\ n + h <= Len(s)
        /\ Len(s) < n + (h + 1) /\ n + k <= Len(s) + Len(c)
    BY <1>1, <1>2, <1>3, <1>7
  <2> HIDE DEF w, n, h
  <2>2. Spells(w, n, 1, k) <=> Spells(w, n, 1, h) /\ Spells(w, n, h + 1, k)
    BY <2>1, <1>3, SpelledSplit
  <2>3. Spells(w, n, 1, h) <=> Spells(s, n, 1, h)
    BY <2>1, <1>3, SpelledJoined DEF w
  <2>4. Spells(w, n, h + 1, k) <=> Spells(c, n - Len(s), h + 1, k)
    BY <2>1, <1>3, SpelledJoined DEF w
  <2>5. h \in Begun(s) <=> Spells(s, n, 1, h)
    <3>1. LastBytes(s, h) = SubSeq(Delimiter, 1, h) <=> Spells(s, Len(s) - h, 1, h)
      BY <2>1, BegunSpelled
    <3> QED BY <3>1, <2>1 DEF Begun
  <2>6. Continues(Begun(s), c, k) <=> h \in Begun(s) /\ Spells(c, n - Len(s), h + 1, k)
    BY <1>3, <1>7 DEF Continues, h
  <2> QED BY <2>2, <2>3, <2>4, <2>5, <2>6, <1>4, <1>7 DEF w
<1> QED BY <1>5, <1>6, <1>7

(* A suffix of s ends with the beginnings that fit in it.                    *)
LEMMA BegunOfSuffix ==
    ASSUME NEW s \in Seq(Bytes), NEW m \in 0 .. Len(s)
    PROVE  \A k \in 1 .. DelimiterSize - 1 :
               k \in Begun(LastBytes(s, m)) <=> k \in Begun(s) /\ k <= m
<1> DEFINE t == LastBytes(s, m)
<1>1. Len(s) \in Nat /\ m \in Nat
  BY LenProperties
<1>2. /\ t \in Seq(Bytes) /\ Len(t) = m
      /\ \A i \in 1 .. m : t[i] = s[Len(s) - m + i]
  BY LastOnes
<1> HIDE DEF t
<1>3. DelimiterSize \in Nat
  BY GuardAssumption, LenProperties DEF DelimiterSize
<1>4. SUFFICES ASSUME NEW k \in 1 .. DelimiterSize - 1
               PROVE  k \in Begun(t) <=> k \in Begun(s) /\ k <= m
  BY DEF t
<1>5. CASE ~(k <= m)
  BY <1>2, <1>5 DEF Begun
<1>6. CASE k <= m
  <2>1. k <= Len(s) /\ k <= Len(t)
    BY <1>1, <1>2, <1>3, <1>6
  <2>2. k \in Begun(t) <=> Spells(t, Len(t) - k, 1, k)
    BY <2>1, <1>2, BegunSpelled DEF Begun
  <2>3. k \in Begun(s) <=> Spells(s, Len(s) - k, 1, k)
    BY <2>1, BegunSpelled DEF Begun
  <2>4. \A i \in 1 .. k : t[Len(t) - k + i] = s[Len(s) - k + i]
    <3>1. ASSUME NEW i \in 1 .. k
          PROVE  t[Len(t) - k + i] = s[Len(s) - k + i]
      <4>1. m - k + i \in 1 .. m /\ Len(s) - m + (m - k + i) = Len(s) - k + i
        BY <1>1, <1>3, <1>6
      <4> QED BY <4>1, <1>2
    <3> QED BY <3>1
  <2> QED BY <2>2, <2>3, <2>4, <1>6 DEF Spells
<1> QED BY <1>5, <1>6

(* A bounded set of numbers has a greatest.                                  *)
LEMMA GreatestByte ==
    ASSUME NEW b \in Nat, NEW S \in SUBSET (0 .. b), S # {}
    PROVE  Max(S) \in S /\ \A i \in S : i <= Max(S)
<1>1. SUFFICES \E x \in S : \A y \in S : x >= y
  <2>1. ASSUME NEW x \in S, \A y \in S : x >= y
        PROVE  Max(S) \in S /\ \A y \in S : Max(S) >= y
    BY <2>1, Zenon DEF Max
  <2>2. Max(S) \in S /\ \A y \in S : Max(S) >= y
    BY <2>1
  <2>3. S \subseteq Int
    OBVIOUS
  <2> QED BY <2>2, <2>3
<1> DEFINE T == {b - x : x \in S}
<1>2. T \in SUBSET Nat /\ T # {}
  <2>1. \A x \in S : b - x \in Nat
    OBVIOUS
  <2>2. T \subseteq Nat
    BY <2>1
  <2>3. T # {}
    OBVIOUS
  <2> QED BY <2>2, <2>3
<1>3. Min(T) \in T /\ \A i \in T : Min(T) <= i
  <2> HIDE DEF T
  <2> QED BY <1>2, LeastByte
<1>4. PICK x \in S : Min(T) = b - x
  BY <1>3
<1>5. \A y \in S : b - x <= b - y
  BY <1>3, <1>4
<1>6. \A y \in S : x >= y
  <2>1. ASSUME NEW y \in S
        PROVE  x >= y
    <3>1. b - x <= b - y
      BY <1>5
    <3> QED BY <3>1
  <2> QED BY <2>1
<1> QED BY <1>6

(* The lesser of two numbers.                                                *)
LEMMA LesserByte ==
    ASSUME NEW a \in Nat, NEW b \in Nat
    PROVE  /\ Min({a, b}) \in Nat /\ Min({a, b}) <= a /\ Min({a, b}) <= b
           /\ Min({a, b}) = a \/ Min({a, b}) = b
<1> DEFINE S == {a, b}
<1>1. S \in SUBSET Nat /\ S # {} /\ a \in S /\ b \in S
  OBVIOUS
<1>2. Min(S) \in S /\ \A i \in S : Min(S) <= i
  <2> HIDE DEF S
  <2> QED BY <1>1, LeastByte
<1> QED BY <1>1, <1>2

(* Beginnings and delimiters are what their definitions say.                 *)
LEMMA SizePositive == DelimiterSize \in Nat \ {0}
<1>1. Delimiter \in Seq(Bytes) /\ Delimiter # <<>>
  BY GuardAssumption
<1> QED BY <1>1, EmptySeq DEF DelimiterSize

(* What is not data yet is short, ends with all that s ends with of a        *)
(* delimiter, and is nothing only if no delimiter has begun.                 *)
LEMMA BeginningKeeps ==
    ASSUME NEW s \in Seq(Bytes)
    PROVE  /\ Beginning(s) \in Seq(Bytes)
           /\ Len(Beginning(s)) < DelimiterSize
           /\ Len(Beginning(s)) <= Len(s)
           /\ Begun(Beginning(s)) = Begun(s)
           /\ Beginning(s) = <<>> => Begun(s) = {}
<1> DEFINE b == Min({DelimiterSize - 1, Len(s)})
           S == {k \in 0 .. b : LastBytes(s, k) = SubSeq(Delimiter, 1, k)}
           m == Max(S)
<1>1. Len(s) \in Nat /\ DelimiterSize \in Nat /\ DelimiterSize - 1 \in Nat
  BY LenProperties, SizePositive
<1>2. /\ b \in Nat /\ b <= DelimiterSize - 1 /\ b <= Len(s)
      /\ b = DelimiterSize - 1 \/ b = Len(s)
  BY <1>1, LesserByte
<1> HIDE DEF b
<1>3. LastBytes(s, 0) = SubSeq(Delimiter, 1, 0)
  <2>1. Len(s) - 0 + 1 \in Int /\ Len(s) \in Int /\ Len(s) < Len(s) - 0 + 1
    BY <1>1
  <2>2. SubSeq(s, Len(s) - 0 + 1, Len(s)) = <<>>
    BY <2>1, SubSeqEmpty
  <2>3. SubSeq(Delimiter, 1, 0) = <<>>
    BY SubSeqEmpty
  <2> QED BY <2>2, <2>3 DEF LastBytes
<1>4. S \in SUBSET (0 .. b) /\ S # {}
  <2>1. 0 \in 0 .. b
    BY <1>2
  <2> QED BY <1>3, <2>1
<1>5. m \in S /\ \A k \in S : k <= m
  <2> HIDE DEF S
  <2> QED BY <1>2, <1>4, GreatestByte
<1>6. m \in Nat /\ m \in 0 .. b
  BY <1>2, <1>5
<1>7. Beginning(s) = LastBytes(s, m)
  BY DEF Beginning, b
<1>8. \A k \in Begun(s) : k \in 1 .. DelimiterSize - 1 /\ k \in S /\ k <= m
  <2>1. ASSUME NEW k \in Begun(s)
        PROVE  k \in 1 .. DelimiterSize - 1 /\ k \in S
    <3>1. /\ k \in 1 .. DelimiterSize - 1 /\ k <= Len(s)
          /\ LastBytes(s, k) = SubSeq(Delimiter, 1, k)
      BY DEF Begun
    <3>2. k \in 0 .. b
      BY <3>1, <1>1, <1>2
    <3> QED BY <3>1, <3>2
  <2> QED BY <2>1, <1>5
<1> HIDE DEF S, m
<1>9. m \in 0 .. Len(s)
  BY <1>1, <1>2, <1>6
<1>10. LastBytes(s, m) \in Seq(Bytes) /\ Len(LastBytes(s, m)) = m
  BY <1>9, LastOnes
<1>11. Begun(LastBytes(s, m)) = Begun(s)
  <2>1. \A k \in 1 .. DelimiterSize - 1 :
            k \in Begun(LastBytes(s, m)) <=> k \in Begun(s) /\ k <= m
    BY <1>9, BegunOfSuffix
  <2>2. /\ Begun(LastBytes(s, m)) \subseteq 1 .. DelimiterSize - 1
        /\ Begun(s) \subseteq 1 .. DelimiterSize - 1
    BY DEF Begun
  <2> QED BY <2>1, <2>2, <1>8
<1>12. ASSUME Beginning(s) = <<>>
       PROVE  Begun(s) = {}
  <2>1. m = 0
    BY <1>7, <1>10, <1>12, EmptySeq
  <2> QED BY <2>1, <1>1, <1>8
<1>13. m < DelimiterSize /\ m <= Len(s)
  BY <1>1, <1>2, <1>6
<1> QED BY <1>7, <1>10, <1>11, <1>12, <1>13

(* So is what is carried to the next chunk.                                  *)
LEMMA CarryKeeps ==
    ASSUME NEW w \in Seq(Bytes)
    PROVE  /\ Carry(w) \in Seq(Bytes)
           /\ Len(Carry(w)) < DelimiterSize
           /\ Begun(Carry(w)) = Begun(w)
<1> DEFINE m == Min({DelimiterSize - 1, Len(w)})
<1>1. Len(w) \in Nat /\ DelimiterSize \in Nat /\ DelimiterSize - 1 \in Nat
  BY LenProperties, SizePositive
<1>2. /\ m \in Nat /\ m <= DelimiterSize - 1 /\ m <= Len(w)
      /\ m = DelimiterSize - 1 \/ m = Len(w)
  BY <1>1, LesserByte
<1>3. Carry(w) = LastBytes(w, m)
  BY DEF Carry
<1> HIDE DEF m
<1>4. m \in 0 .. Len(w) /\ m < DelimiterSize
  BY <1>1, <1>2
<1>5. LastBytes(w, m) \in Seq(Bytes) /\ Len(LastBytes(w, m)) = m
  BY <1>4, LastOnes
<1>6. Begun(LastBytes(w, m)) = Begun(w)
  <2>1. \A k \in 1 .. DelimiterSize - 1 :
            k \in Begun(LastBytes(w, m)) <=> k \in Begun(w) /\ k <= m
    BY <1>4, BegunOfSuffix
  <2>2. Begun(LastBytes(w, m)) \subseteq 1 .. DelimiterSize - 1
    BY DEF Begun
  <2>3. \A k \in Begun(w) : k \in 1 .. DelimiterSize - 1 /\ k <= m
    <3>1. ASSUME NEW k \in Begun(w)
          PROVE  k \in 1 .. DelimiterSize - 1 /\ k <= m
      <4>1. k \in 1 .. DelimiterSize - 1 /\ k <= Len(w)
        BY DEF Begun
      <4> QED BY <4>1, <1>1, <1>2
    <3> QED BY <3>1
  <2> QED BY <2>1, <2>2, <2>3
<1> QED BY <1>3, <1>4, <1>5, <1>6

(* Nothing shorter than a delimiter holds one.                               *)
LEMMA ShortHasNone ==
    ASSUME NEW s \in Seq(Bytes), Len(s) < DelimiterSize
    PROVE  Delimiters(s) = {}
BY LenProperties, SizePositive DEF Delimiters

(* Where a delimiter ends.                                                   *)
LEMMA DelimiterWithin ==
    ASSUME NEW s \in Seq(Bytes), NEW i \in Delimiters(s)
    PROVE  i \in Nat /\ i \in 1 .. Len(s) /\ DelimiterSize <= i
BY LenProperties, SizePositive DEF Delimiters

(* A delimiter that ends within s ends there with more behind it.            *)
LEMMA DelimiterStays ==
    ASSUME NEW s \in Seq(Bytes), NEW c \in Seq(Bytes), Delimiters(s) = {},
           NEW i \in Delimiters(s \o c)
    PROVE  i - Len(s) \in 1 .. Len(c)
<1> DEFINE w == s \o c
           n == i - DelimiterSize
           first == 1
<1>1. /\ Len(s) \in Nat /\ Len(c) \in Nat /\ w \in Seq(Bytes)
      /\ Len(w) = Len(s) + Len(c) /\ DelimiterSize \in Nat \ {0}
  BY LenProperties, ConcatProperties, SizePositive
<1> HIDE DEF w
<1>2. i \in Nat /\ i <= Len(w) /\ DelimiterSize <= i
  <2>1. i \in Delimiters(w)
    BY DEF w
  <2> QED BY <2>1, <1>1, DelimiterWithin
<1>3. Spells(w, n, 1, DelimiterSize)
  BY <1>1, <1>2, DelimiterSpelled DEF w
<1>4. ASSUME i <= Len(s)
      PROVE  FALSE
  <2>1. n \in Int /\ first \in Int /\ DelimiterSize \in Int
        /\ 1 <= n + first /\ n + DelimiterSize <= Len(s)
    BY <1>1, <1>2, <1>4
  <2>2. Spells(w, n, first, DelimiterSize)
    BY <1>3
  <2> HIDE DEF n, first
  <2>3. Spells(s, n, first, DelimiterSize)
    BY <2>1, <2>2, SpelledJoined DEF w
  <2>4. i \in Delimiters(s)
    BY <2>3, <1>2, <1>4, DelimiterSpelled DEF n, first
  <2> QED BY <2>4
<1> QED BY <1>1, <1>2, <1>4

(* What was dropped from the front of a sequence without a delimiter does    *)
(* not change where the next one ends, counted from behind.                  *)
LEMMA Agree ==
    ASSUME NEW s \in Seq(Bytes), NEW t \in Seq(Bytes), NEW c \in Seq(Bytes),
           Delimiters(s) = {}, Delimiters(t) = {}, Begun(s) = Begun(t)
    PROVE  /\ Begun(s \o c) = Begun(t \o c)
           /\ Delimiters(s \o c) = {} <=> Delimiters(t \o c) = {}
           /\ Delimiters(s \o c) # {} =>
                  Len(s \o c) - Min(Delimiters(s \o c)) = Len(t \o c) - Min(Delimiters(t \o c))
<1>1. /\ Len(s) \in Nat /\ Len(t) \in Nat /\ Len(c) \in Nat
      /\ s \o c \in Seq(Bytes) /\ t \o c \in Seq(Bytes)
      /\ Len(s \o c) = Len(s) + Len(c) /\ Len(t \o c) = Len(t) + Len(c)
  BY LenProperties, ConcatProperties
<1>2. Begun(s \o c) = Begun(t \o c)
  <2>1. \A k \in 1 .. DelimiterSize - 1 : k \in Begun(s \o c) <=> Continues(Begun(s), c, k)
    BY BegunGrows
  <2>2. \A k \in 1 .. DelimiterSize - 1 : k \in Begun(t \o c) <=> Continues(Begun(t), c, k)
    BY BegunGrows
  <2>3. /\ Begun(s \o c) \subseteq 1 .. DelimiterSize - 1
        /\ Begun(t \o c) \subseteq 1 .. DelimiterSize - 1
    BY DEF Begun
  <2> QED BY <2>1, <2>2, <2>3
<1> DEFINE Ends(u) == Delimiters(u \o c)
<1>3. \A e \in 1 .. Len(c) : Len(s) + e \in Ends(s) <=> Len(t) + e \in Ends(t)
  <2>1. ASSUME NEW e \in 1 .. Len(c)
        PROVE  Len(s) + e \in Ends(s) <=> Len(t) + e \in Ends(t)
    <3>1. Len(s) + e \in Ends(s) <=> Completes(Begun(s), c, e)
      BY DelimiterArrives
    <3>2. Len(t) + e \in Ends(t) <=> Completes(Begun(t), c, e)
      BY DelimiterArrives
    <3> QED BY <3>1, <3>2
  <2> QED BY <2>1
<1>4. \A i \in Ends(s) : i - Len(s) \in 1 .. Len(c)
  BY DelimiterStays
<1>5. \A i \in Ends(t) : i - Len(t) \in 1 .. Len(c)
  BY DelimiterStays
<1>6. Ends(s) \subseteq Nat /\ Ends(t) \subseteq Nat
  BY <1>1, DelimiterWithin
<1> HIDE DEF Ends
<1>7. \A i \in Ends(s) : Len(t) + (i - Len(s)) \in Ends(t)
  <2>1. ASSUME NEW i \in Ends(s)
        PROVE  Len(t) + (i - Len(s)) \in Ends(t)
    <3>1. i \in Nat /\ i - Len(s) \in 1 .. Len(c) /\ Len(s) + (i - Len(s)) = i
      BY <1>1, <1>4, <1>6
    <3> QED BY <3>1, <1>3
  <2> QED BY <2>1
<1>8. \A i \in Ends(t) : Len(s) + (i - Len(t)) \in Ends(s)
  <2>1. ASSUME NEW i \in Ends(t)
        PROVE  Len(s) + (i - Len(t)) \in Ends(s)
    <3>1. i \in Nat /\ i - Len(t) \in 1 .. Len(c) /\ Len(t) + (i - Len(t)) = i
      BY <1>1, <1>5, <1>6
    <3> QED BY <3>1, <1>3
  <2> QED BY <2>1
<1>9. Ends(s) = {} <=> Ends(t) = {}
  BY <1>7, <1>8
<1>10. ASSUME Ends(s) # {}
       PROVE  Len(s) - Min(Ends(s)) = Len(t) - Min(Ends(t))
  <2>1. Min(Ends(s)) \in Ends(s) /\ \A i \in Ends(s) : Min(Ends(s)) <= i
    BY <1>6, <1>10, LeastByte
  <2>2. Min(Ends(t)) \in Ends(t) /\ \A i \in Ends(t) : Min(Ends(t)) <= i
    BY <1>6, <1>9, <1>10, LeastByte
  <2>3. Min(Ends(t)) <= Len(t) + (Min(Ends(s)) - Len(s))
    BY <2>1, <2>2, <1>7
  <2>4. Min(Ends(s)) <= Len(s) + (Min(Ends(t)) - Len(t))
    BY <2>1, <2>2, <1>8
  <2>5. Min(Ends(s)) \in Nat /\ Min(Ends(t)) \in Nat
    BY <2>1, <2>2, <1>6
  <2> QED BY <2>3, <2>4, <2>5, <1>1
<1>11. ASSUME Ends(s) # {}
       PROVE  Len(s \o c) - Min(Ends(s)) = Len(t \o c) - Min(Ends(t))
  <2> DEFINE i == Min(Ends(s))
             j == Min(Ends(t))
  <2>1. i \in Nat /\ j \in Nat
    <3>1. i \in Ends(s)
      BY <1>6, <1>11, LeastByte
    <3>2. j \in Ends(t)
      BY <1>6, <1>9, <1>11, LeastByte
    <3> QED BY <3>1, <3>2, <1>6
  <2>2. Len(s) - i = Len(t) - j
    BY <1>10, <1>11
  <2> HIDE DEF i, j
  <2>3. Len(s \o c) - i = Len(t \o c) - j
    BY <2>1, <2>2, <1>1
  <2> QED BY <2>3 DEF i, j
<1>13. Ends(s) = Delimiters(s \o c) /\ Ends(t) = Delimiters(t \o c)
  BY DEF Ends
<1> QED BY <1>2, <1>9, <1>11, <1>13

(* A delimiter that arrives leaves less than the chunk behind it.            *)
LEMMA BehindDelimiter ==
    ASSUME NEW s \in Seq(Bytes), NEW c \in Seq(Bytes), Delimiters(s) = {}
    PROVE  /\ \A d \in Delimiters(s \o c) : Len(s \o c) - d < Len(c)
           /\ Delimiters(s \o c) # {} =>
                  Len(s \o c) - Min(Delimiters(s \o c)) \in 0 .. Len(c) - 1
<1> DEFINE w == s \o c
<1>1. /\ Len(s) \in Nat /\ Len(c) \in Nat /\ w \in Seq(Bytes)
      /\ Len(w) = Len(s) + Len(c)
  BY LenProperties, ConcatProperties
<1>a. \A d \in Delimiters(w) : d - Len(s) \in 1 .. Len(c)
  BY DelimiterStays
<1> HIDE DEF w
<1>b. \A d \in Delimiters(w) : d \in Nat /\ d \in 1 .. Len(w)
  BY <1>1, DelimiterWithin
<1>2. \A d \in Delimiters(w) : d \in Nat /\ d <= Len(w) /\ d - Len(s) \in 1 .. Len(c)
  BY <1>1, <1>a, <1>b
<1> DEFINE Ends == Delimiters(w)
<1>3. Ends \in SUBSET Nat
  BY <1>2
<1> HIDE DEF Ends
<1>5. ASSUME Ends # {}
      PROVE  Min(Ends) \in Ends
  BY <1>3, <1>5, LeastByte
<1>7. \A d \in Ends : Len(w) - d < Len(c) /\ Len(w) - d \in 0 .. Len(c) - 1
  <2>1. ASSUME NEW d \in Ends
        PROVE  Len(w) - d < Len(c) /\ Len(w) - d \in 0 .. Len(c) - 1
    <3>1. d \in Nat /\ d <= Len(w) /\ d - Len(s) \in 1 .. Len(c)
      BY <1>2 DEF Ends
    <3> QED BY <3>1, <1>1
  <2> QED BY <2>1
<1>8. ASSUME Ends # {}
      PROVE  Len(w) - Min(Ends) \in 0 .. Len(c) - 1
  <2>1. Min(Ends) \in Ends
    BY <1>5, <1>8
  <2> QED BY <2>1, <1>7
<1> QED BY <1>7, <1>8 DEF Ends, w

(* What follows a byte of s.                                                 *)
LEMMA BeyondLength ==
    ASSUME NEW s \in Seq(Bytes), NEW i \in 1 .. Len(s)
    PROVE  Beyond(s, i) \in Seq(Bytes) /\ Len(Beyond(s, i)) = Len(s) - i
<1>1. Len(s) \in Nat /\ i \in Nat /\ i <= Len(s) /\ i + 1 \in Int /\ Len(s) \in Int
  BY LenProperties
<1>2. \A m \in i + 1 .. Len(s) : s[m] \in Bytes
  BY <1>1, ElementOfSeq
<1>3. /\ SubSeq(s, i + 1, Len(s)) \in Seq(Bytes)
      /\ Len(SubSeq(s, i + 1, Len(s))) = IF i + 1 <= Len(s) THEN Len(s) - (i + 1) + 1 ELSE 0
  BY <1>1, <1>2, SubSeqProperties
<1> QED BY <1>1, <1>3 DEF Beyond

(* What is left behind the first delimiter, or the first blank.              *)
LEMMA BeyondFirst ==
    ASSUME NEW s \in Seq(Bytes), NEW S \in SUBSET (1 .. Len(s)), S # {}
    PROVE  /\ Min(S) \in S
           /\ Beyond(s, Min(S)) \in Seq(Bytes)
           /\ Len(Beyond(s, Min(S))) = Len(s) - Min(S)
<1>1. S \in SUBSET Nat
  BY LenProperties
<1>2. Min(S) \in S
  BY <1>1, LeastByte
<1>3. Min(S) \in 1 .. Len(s)
  BY <1>2
<1> QED BY <1>2, <1>3, BeyondLength

(* A chunk is a few bytes.                                                   *)
LEMMA ChunkType ==
    ASSUME NEW c \in Chunks
    PROVE  c \in Seq(Bytes) /\ Len(c) \in 1 .. MaxChunk
<1>1. PICK k \in 1 .. MaxChunk : c \in [1 .. k -> Bytes]
  BY DEF Chunks
<1>2. k \in Nat
  BY GuardAssumption
<1>3. c \in Seq(Bytes)
  BY <1>1, <1>2, SeqDef
<1>4. Len(c) \in Nat /\ DOMAIN c = 1 .. Len(c)
  BY <1>3, LenProperties
<1>5. Len(c) = k
  BY <1>1, <1>2, <1>4
<1> QED BY <1>1, <1>3, <1>5

-----------------------------------------------------------------------------
(* A sequence that ends with less of a delimiter than t has none where t has *)
(* none, and ends with less of one again.                                    *)
LEMMA Fewer ==
    ASSUME NEW s \in Seq(Bytes), NEW t \in Seq(Bytes), NEW c \in Seq(Bytes),
           Delimiters(s) = {}, Begun(s) \subseteq Begun(t)
    PROVE  /\ Begun(s \o c) \subseteq Begun(t \o c)
           /\ Delimiters(t \o c) = {} => Delimiters(s \o c) = {}
<1>1. Len(s) \in Nat /\ Len(t) \in Nat /\ Len(c) \in Nat
  BY LenProperties
<1>2. Begun(s \o c) \subseteq Begun(t \o c)
  <2>1. ASSUME NEW k \in Begun(s \o c)
        PROVE  k \in Begun(t \o c)
    <3>1. k \in 1 .. DelimiterSize - 1
      BY DEF Begun
    <3>2. Continues(Begun(s), c, k)
      BY <3>1, BegunGrows
    <3>3. Continues(Begun(t), c, k)
      BY <3>2 DEF Continues
    <3> QED BY <3>1, <3>3, BegunGrows
  <2> QED BY <2>1
<1>3. ASSUME NEW i \in Delimiters(s \o c)
      PROVE  Delimiters(t \o c) # {}
  <2> DEFINE e == i - Len(s)
  <2>1. i \in Nat
    <3>1. s \o c \in Seq(Bytes)
      BY ConcatProperties
    <3> QED BY <3>1, DelimiterWithin
  <2>2. e \in 1 .. Len(c) /\ Len(s) + e = i
    BY <2>1, <1>1, DelimiterStays
  <2> HIDE DEF e
  <2>3. Completes(Begun(s), c, e)
    BY <2>2, DelimiterArrives
  <2>4. Completes(Begun(t), c, e)
    BY <2>3 DEF Completes
  <2>5. Len(t) + e \in Delimiters(t \o c)
    BY <2>2, <2>4, DelimiterArrives
  <2> QED BY <2>5
<1> QED BY <1>2, <1>3

(* The first delimiter of s is the first of what s becomes.                  *)
LEMMA FirstStays ==
    ASSUME NEW s \in Seq(Bytes), NEW c \in Seq(Bytes), Delimiters(s) # {}
    PROVE  /\ Delimiters(s \o c) # {}
           /\ Min(Delimiters(s \o c)) = Min(Delimiters(s))
           /\ Min(Delimiters(s)) \in 1 .. Len(s)
<1> DEFINE w == s \o c
           first == 1
<1>1. /\ Len(s) \in Nat /\ Len(c) \in Nat /\ w \in Seq(Bytes)
      /\ Len(w) = Len(s) + Len(c) /\ DelimiterSize \in Nat \ {0}
  BY LenProperties, ConcatProperties, SizePositive
<1>2. ASSUME NEW i \in Nat, i <= Len(s)
      PROVE  i \in Delimiters(s) <=> i \in Delimiters(w)
  <2> DEFINE n == i - DelimiterSize
  <2>1. CASE DelimiterSize <= i
    <3>1. n \in Int /\ first \in Int /\ DelimiterSize \in Int /\ i <= Len(w)
          /\ 1 <= n + first /\ n + DelimiterSize <= Len(s)
      BY <2>1, <1>1, <1>2
    <3>2. i \in Delimiters(s) <=> Spells(s, n, 1, DelimiterSize)
      BY <2>1, <1>2, DelimiterSpelled
    <3>3. i \in Delimiters(w) <=> Spells(w, n, 1, DelimiterSize)
      <4> HIDE DEF w
      <4> QED BY <2>1, <3>1, <1>1, DelimiterSpelled
    <3> HIDE DEF n, w
    <3>4. Spells(w, n, first, DelimiterSize) <=> Spells(s, n, first, DelimiterSize)
      <4> HIDE DEF first
      <4> QED BY <3>1, SpelledJoined DEF w
    <3> QED BY <3>2, <3>3, <3>4
  <2>2. CASE ~(DelimiterSize <= i)
    BY <2>2, <1>1, <1>2 DEF Delimiters
  <2> QED BY <2>1, <2>2
<1> DEFINE S == Delimiters(s)
           W == Delimiters(w)
<1> HIDE DEF w
<1>3. \A i \in S : i \in Nat /\ i \in 1 .. Len(s)
  BY DelimiterWithin
<1>4. W \in SUBSET Nat
  BY <1>1, DelimiterWithin
<1>5. \A i \in Nat : i <= Len(s) => (i \in S <=> i \in W)
  BY <1>2
<1> HIDE DEF S, W
<1>6. S \in SUBSET Nat /\ S # {}
  BY <1>3 DEF S
<1>7. Min(S) \in S /\ \A i \in S : Min(S) <= i
  BY <1>6, LeastByte
<1>8. Min(S) \in Nat /\ Min(S) \in 1 .. Len(s) /\ Min(S) <= Len(s)
  BY <1>3, <1>7, <1>1
<1>9. Min(S) \in W
  BY <1>5, <1>7, <1>8
<1>10. Min(W) \in W /\ \A i \in W : Min(W) <= i
  BY <1>4, <1>9, LeastByte
<1>11. Min(W) \in Nat /\ Min(W) <= Min(S)
  BY <1>4, <1>9, <1>10
<1>12. Min(W) \in S
  BY <1>1, <1>5, <1>8, <1>10, <1>11
<1>13. Min(W) = Min(S)
  BY <1>7, <1>8, <1>11, <1>12
<1> QED BY <1>8, <1>9, <1>13 DEF S, W, w

(* The sizes are numbers.                                                    *)
LEMMA GuardSizes ==
    /\ Limit \in Nat /\ MaxBody \in Nat /\ MaxChunk \in Nat \ {0}
    /\ DelimiterSize \in Nat \ {0}
BY GuardAssumption, SizePositive

(* No delimiter has ended or begun in nothing.                               *)
LEMMA NothingBegun ==
    <<>> \in Seq(Bytes) /\ Len(<<>>) = 0 /\ Delimiters(<<>>) = {} /\ Begun(<<>>) = {}
<1>1. <<>> \in Seq(Bytes) /\ Len(<<>>) = 0
  BY EmptySeq
<1>2. Delimiters(<<>>) = {}
  <2>1. Len(<<>>) < DelimiterSize
    BY <1>1, SizePositive
  <2> QED BY <1>1, <2>1, ShortHasNone
<1>3. Begun(<<>>) = {}
  BY <1>1, SizePositive DEF Begun
<1> QED BY <1>1, <1>2, <1>3

-----------------------------------------------------------------------------
(* The counter is within what was pulled.                                    *)
GuardType == /\ TypeOK
             /\ status # "refused" => unproductive <= total

(* What the handler waits for, and where that leaves the parser.             *)
Waiting == /\ call = "chunk" => field = "held"
           /\ call = "next_field" => field = "none"
           /\ status # "reading" => call = "none"
           /\ field # "none" => ~skipping
           /\ field = "held" => stage \in {"headers", "data"}

(* The guard drains until the first delimiter after the drop: what it has    *)
(* carried ends with the beginnings that all it was fed ends with.  When it  *)
(* counts, it counts what is not accounted for.                              *)
Scanned == /\ draining => /\ skipping
                          /\ Delimiters(fresh) = {}
                          /\ Begun(carry) = Begun(fresh)
           /\ ~draining /\ skipping => Delimiters(fresh) # {}
           /\ ~draining /\ status # "refused" => unproductive = Unaccounted

(* The scan has seen what is in the parser's buffer, and before it perhaps   *)
(* what an earlier scan left: the parser finds no delimiter that it does not.*)
Inside == draining /\ ~late => /\ stage = "data"
                               /\ Delimiters(buffer) = {}
                               /\ Begun(buffer) \subseteq Begun(fresh)

Within == Unaccounted <= Limit + MaxChunk

GuardInv == GuardType /\ Waiting /\ Scanned /\ Inside /\ Within /\ RefusedOnlyStuck

(* At the start nothing is buffered.                                         *)
LEMMA GuardStarts == Init => GuardInv
<1> SUFFICES ASSUME Init
             PROVE  GuardInv
  OBVIOUS
<1>1. Limit \in Nat /\ MaxBody \in Nat /\ MaxChunk \in Nat /\ DelimiterSize \in Nat \ {0}
  BY GuardSizes
<1>2. <<>> \in Seq(Bytes) /\ Len(<<>>) = 0
  BY NothingBegun
<1> USE DEF Init
<1>3. GuardType
  <2>1. call \in {"none", "next_field", "chunk"} /\ field \in {"none", "held", "finished"}
    OBVIOUS
  <2>2. /\ status \in {"reading", "refused", "ended"}
        /\ stage \in {"preamble", "headers", "data"}
    OBVIOUS
  <2>3. draining \in BOOLEAN /\ late \in BOOLEAN /\ skipping \in BOOLEAN
    OBVIOUS
  <2>4. /\ unproductive \in 0 .. MaxBody /\ total \in 0 .. MaxBody /\ unproductive <= total
    BY <1>1
  <2>5. /\ buffer \in Seq(Bytes) /\ carry \in Seq(Bytes) /\ Len(carry) < DelimiterSize
        /\ fresh \in Seq(Bytes)
    BY <1>1, <1>2
  <2> QED BY <2>1, <2>2, <2>3, <2>4, <2>5 DEF GuardType, TypeOK
<1>4. Waiting
  BY DEF Waiting
<1>5. Unaccounted = 0
  BY <1>2 DEF Unaccounted
<1>6. Scanned
  BY <1>5 DEF Scanned
<1>7. Inside
  BY DEF Inside
<1>8. Within
  BY <1>1, <1>5 DEF Within
<1> QED BY <1>3, <1>4, <1>6, <1>7, <1>8 DEF GuardInv, RefusedOnlyStuck

(* What the handler does changes nothing of the parser and of the guard, but *)
(* for a Field that is dropped.                                              *)
LEMMA HandlerStep ==
    ASSUME GuardInv, NextField \/ Chunk \/ Cancel
    PROVE  GuardInv'
<1> USE DEF NextField, Chunk, Cancel, parserVars, guardVars, histories
<1>1. /\ stage' = stage /\ buffer' = buffer /\ draining' = draining
      /\ unproductive' = unproductive /\ carry' = carry /\ total' = total
      /\ skipping' = skipping /\ fresh' = fresh /\ late' = late
      /\ status' = status /\ field' = field
  OBVIOUS
<1>2. GuardType'
  BY <1>1 DEF GuardInv, GuardType, TypeOK
<1>3. Waiting'
  BY <1>1 DEF GuardInv, Waiting
<1>4. Unaccounted' = Unaccounted
  BY <1>1 DEF Unaccounted
<1>5. Scanned' /\ Inside'
  BY <1>1, <1>4 DEF GuardInv, Scanned, Inside
<1>6. Within' /\ RefusedOnlyStuck'
  BY <1>1, <1>4 DEF GuardInv, Within, RefusedOnlyStuck
<1> QED BY <1>2, <1>3, <1>5, <1>6 DEF GuardInv

(* When a held Field is dropped the scan starts from what it carries; the    *)
(* parser has no beginning of a delimiter, or it is late.                    *)
LEMMA DropStep ==
    ASSUME GuardInv, DropField
    PROVE  GuardInv'
<1> USE DEF DropField, parserVars, histories
<1>1. /\ stage' = stage /\ buffer' = buffer /\ unproductive' = unproductive
      /\ carry' = carry /\ total' = total /\ status' = status
      /\ call' = call /\ field' = "none" /\ call = "none" /\ field # "none"
      /\ draining' = (draining \/ field = "held") /\ status = "reading"
  BY DEF Skip
<1>2. /\ GuardType /\ Waiting /\ Scanned /\ Within /\ RefusedOnlyStuck
      /\ buffer \in Seq(Bytes) /\ carry \in Seq(Bytes) /\ Len(carry) < DelimiterSize
      /\ fresh \in Seq(Bytes)
  BY DEF GuardInv, GuardType, TypeOK
<1>3. ~skipping /\ ~draining
  BY <1>1, <1>2 DEF Waiting, Scanned
<1>4. Waiting'
  BY <1>1, <1>2 DEF Waiting
<1>5. RefusedOnlyStuck'
  BY <1>1 DEF RefusedOnlyStuck
<1>6. CASE field = "held"
  <2>1. skipping' /\ fresh' = carry /\ late' = DelimiterBegun /\ draining'
    BY <1>1, <1>6 DEF Skip
  <2>2. late' \in BOOLEAN /\ draining' \in BOOLEAN /\ skipping' \in BOOLEAN
    BY <2>1, <1>1, <1>6 DEF DelimiterBegun, Skip
  <2>3. GuardType'
    BY <1>1, <1>2, <2>1, <2>2 DEF GuardType, TypeOK
  <2>4. Delimiters(fresh') = {}
    BY <2>1, <1>2, ShortHasNone
  <2>5. Scanned'
    BY <2>1, <2>4, <1>1 DEF Scanned
  <2>6. Unaccounted' = 0
    BY <2>1, <2>4 DEF Unaccounted
  <2>7. Within'
    BY <2>6, GuardSizes DEF Within
  <2>8. ASSUME ~late'
        PROVE  Inside'
    <3>1. stage = "data" /\ Delimiters(buffer) = {} /\ Beginning(buffer) = <<>>
      BY <2>1, <2>8, <1>2, <1>6 DEF Waiting, DelimiterBegun
    <3>2. Begun(buffer) = {}
      BY <3>1, <1>2, BeginningKeeps
    <3> QED BY <3>1, <3>2, <1>1 DEF Inside
  <2>9. Inside'
    BY <2>8 DEF Inside
  <2> QED BY <2>3, <2>5, <2>7, <2>9, <1>4, <1>5 DEF GuardInv
<1>7. CASE field # "held"
  <2>1. skipping' = skipping /\ fresh' = fresh /\ late' = late /\ draining' = draining
    BY <1>1, <1>2, <1>7 DEF GuardType, TypeOK
  <2>2. GuardType'
    BY <1>1, <1>2, <2>1 DEF GuardType, TypeOK
  <2>3. Unaccounted' = Unaccounted
    BY <2>1 DEF Unaccounted
  <2>4. Scanned' /\ Within'
    BY <2>1, <2>3, <1>1, <1>2 DEF Scanned, Within
  <2>5. Inside'
    BY <2>1, <1>3 DEF Inside
  <2> QED BY <2>2, <2>4, <2>5, <1>4, <1>5 DEF GuardInv
<1> QED BY <1>6, <1>7

(* The blanks of s, and the delimiters in it, are places in it.              *)
LEMMA Places ==
    ASSUME NEW s \in Seq(Bytes)
    PROVE  /\ Blanks(s) \in SUBSET (1 .. Len(s))
           /\ Delimiters(s) \in SUBSET (1 .. Len(s))
<1>1. Blanks(s) \in SUBSET (1 .. Len(s))
  BY LenProperties DEF Blanks
<1>2. \A i \in Delimiters(s) : i \in 1 .. Len(s)
  BY DelimiterWithin
<1> QED BY <1>1, <1>2

(* A boundary is found in the preamble, before any part.                     *)
LEMMA FindStep ==
    ASSUME GuardInv, FindBoundary
    PROVE  GuardInv'
<1> USE DEF FindBoundary, guardVars, histories
<1>1. /\ draining' = draining /\ unproductive' = unproductive /\ carry' = carry
      /\ total' = total /\ skipping' = skipping /\ fresh' = fresh /\ late' = late
      /\ status' = status /\ field' = field /\ call' = call /\ call = "next_field"
      /\ stage = "preamble" /\ stage' = "headers" /\ Delimiters(buffer) # {}
  OBVIOUS
<1>2. GuardType /\ Waiting /\ Inside /\ buffer \in Seq(Bytes)
  BY DEF GuardInv, GuardType, TypeOK
<1>3. buffer' \in Seq(Bytes)
  BY <1>1, <1>2, Places, BeyondFirst
<1>4. GuardType'
  BY <1>1, <1>2, <1>3 DEF GuardType, TypeOK
<1>5. Waiting'
  BY <1>1, <1>2 DEF Waiting
<1>6. Inside'
  BY <1>1, <1>2 DEF Inside
<1>7. Unaccounted' = Unaccounted
  BY <1>1 DEF Unaccounted
<1>8. Scanned' /\ Within' /\ RefusedOnlyStuck'
  BY <1>1, <1>7 DEF GuardInv, Scanned, Within, RefusedOnlyStuck
<1> QED BY <1>4, <1>5, <1>6, <1>8 DEF GuardInv

(* What is left of the data: what follows the delimiter, or its beginning.   *)
LEMMA DataTaken ==
    ASSUME buffer \in Seq(Bytes), stage = "data", TakeData
    PROVE  /\ buffer' \in Seq(Bytes)
           /\ stage' \in {"headers", "data"}
           /\ Delimiters(buffer) = {} =>
                  /\ stage' = "data" /\ Delimiters(buffer') = {}
                  /\ Begun(buffer') = Begun(buffer)
<1>1. CASE Delimiters(buffer) # {}
  <2>1. stage' = "headers" /\ buffer' = Beyond(buffer, Min(Delimiters(buffer)))
    BY <1>1 DEF TakeData
  <2>2. buffer' \in Seq(Bytes)
    BY <1>1, <2>1, Places, BeyondFirst
  <2> QED BY <2>1, <2>2, <1>1
<1>2. CASE Delimiters(buffer) = {}
  <2>1. stage' = "data" /\ buffer' = Beginning(buffer)
    BY <1>2 DEF TakeData
  <2>2. /\ buffer' \in Seq(Bytes) /\ Len(buffer') < DelimiterSize
        /\ Begun(buffer') = Begun(buffer)
    BY <2>1, BeginningKeeps
  <2>3. Delimiters(buffer') = {}
    BY <2>2, ShortHasNone
  <2> QED BY <2>1, <2>2, <2>3
<1> QED BY <1>1, <1>2

(* The parser produced something: nothing is unproductive.                   *)
LEMMA MadeStep ==
    ASSUME GuardInv, Made, status = "reading", status' = status, call' = "none",
           field' \in {"none", "held", "finished"},
           stage' \in {"headers", "data"}, buffer' \in Seq(Bytes)
    PROVE  GuardInv'
<1>1. /\ draining' = FALSE /\ unproductive' = 0 /\ carry' = carry /\ skipping' = FALSE
      /\ fresh' = <<>> /\ late' = FALSE /\ total' = total
  BY DEF Made
<1>2. MaxBody \in Nat /\ Limit \in Nat /\ MaxChunk \in Nat
      /\ <<>> \in Seq(Bytes) /\ Len(<<>>) = 0
  BY GuardSizes, NothingBegun
<1>3. GuardType'
  <2>1. /\ carry \in Seq(Bytes) /\ Len(carry) < DelimiterSize /\ total \in 0 .. MaxBody
        /\ status \in {"reading", "refused", "ended"}
    BY DEF GuardInv, GuardType, TypeOK
  <2>2. unproductive' \in 0 .. MaxBody /\ unproductive' <= total'
    BY <2>1, <1>1, <1>2
  <2>3. draining' \in BOOLEAN /\ skipping' \in BOOLEAN /\ late' \in BOOLEAN
    BY <1>1
  <2> QED BY <2>1, <2>2, <2>3, <1>1, <1>2 DEF GuardType, TypeOK
<1>4. Waiting'
  BY <1>1 DEF Waiting
<1>5. Unaccounted' = 0
  BY <1>1, <1>2 DEF Unaccounted
<1>6. Scanned' /\ Inside'
  BY <1>1, <1>5 DEF Scanned, Inside
<1>7. Within' /\ RefusedOnlyStuck'
  BY <1>2, <1>5 DEF Within, RefusedOnlyStuck
<1> QED BY <1>3, <1>4, <1>6, <1>7 DEF GuardInv

(* A Field, data of it, or the end of it is returned.                        *)
LEMMA ProducedStep ==
    ASSUME GuardInv, ReadHeaders \/ ReturnData \/ ReturnNone
    PROVE  GuardInv'
<1>1. /\ GuardType /\ Waiting /\ buffer \in Seq(Bytes)
      /\ field \in {"none", "held", "finished"}
      /\ status \in {"reading", "refused", "ended"}
  BY DEF GuardInv, GuardType, TypeOK
<1>2. call # "none" /\ call' = "none" /\ status' = status /\ Made
  BY DEF ReadHeaders, ReturnData, ReturnNone
<1>3. status = "reading"
  BY <1>1, <1>2 DEF Waiting
<1>4. /\ field' \in {"none", "held", "finished"} /\ stage' \in {"headers", "data"}
      /\ buffer' \in Seq(Bytes)
  <2>1. CASE ReadHeaders
    BY <2>1, <1>1, Places, BeyondFirst DEF ReadHeaders
  <2>2. CASE ReturnData
    BY <2>2, <1>1, DataTaken DEF ReturnData, HasData
  <2>3. CASE ReturnNone
    BY <2>3, <1>1 DEF ReturnNone, parserVars
  <2> QED BY <2>1, <2>2, <2>3
<1> QED BY <1>2, <1>3, <1>4, MadeStep

(* Data of a part that is skipped: while the guard drains the delimiter is   *)
(* missing.                                                                  *)
LEMMA DiscardStep ==
    ASSUME GuardInv, DiscardData
    PROVE  GuardInv'
<1> USE DEF DiscardData, HasData, guardVars, histories
<1>1. /\ stage = "data" /\ TakeData /\ call = "next_field" /\ call' = call
      /\ field' = field /\ draining' = draining /\ unproductive' = unproductive
      /\ carry' = carry /\ status' = status /\ total' = total
      /\ skipping' = skipping /\ fresh' = fresh /\ late' = late
  OBVIOUS
<1>2. GuardType /\ Waiting /\ Inside /\ buffer \in Seq(Bytes)
  BY DEF GuardInv, GuardType, TypeOK
<1>3. /\ buffer' \in Seq(Bytes) /\ stage' \in {"headers", "data"}
      /\ Delimiters(buffer) = {} =>
             /\ stage' = "data" /\ Delimiters(buffer') = {}
             /\ Begun(buffer') = Begun(buffer)
  BY <1>1, <1>2, DataTaken
<1>4. GuardType'
  BY <1>1, <1>2, <1>3 DEF GuardType, TypeOK
<1>5. Waiting'
  BY <1>1, <1>2, <1>3 DEF Waiting
<1>6. Inside'
  BY <1>1, <1>2, <1>3 DEF Inside
<1>7. Unaccounted' = Unaccounted
  BY <1>1 DEF Unaccounted
<1>8. Scanned' /\ Within' /\ RefusedOnlyStuck'
  BY <1>1, <1>7 DEF GuardInv, Scanned, Within, RefusedOnlyStuck
<1> QED BY <1>4, <1>5, <1>6, <1>8 DEF GuardInv

(* When the body ends or is refused, nothing is left to wait for.            *)
LEMMA EndStep ==
    ASSUME GuardInv, BodyEnds \/ \E chunk \in Chunks : Refuse(chunk)
    PROVE  GuardInv'
<1>1. /\ stage' = stage /\ buffer' = buffer /\ draining' = draining
      /\ carry' = carry /\ total' = total /\ skipping' = skipping /\ fresh' = fresh
      /\ late' = late /\ field' = field /\ call' = "none" /\ call # "none"
  BY DEF BodyEnds, Refuse, Pass, Polls, parserVars, guardVars, histories
<1>2. /\ GuardType /\ Waiting /\ Scanned /\ Inside /\ Within
      /\ total \in Nat /\ total <= MaxBody /\ unproductive \in Nat
      /\ MaxBody \in Nat /\ Limit \in Nat
      /\ fresh \in Seq(Bytes) /\ skipping \in BOOLEAN
  BY GuardSizes DEF GuardInv, GuardType, TypeOK
<1>3. status = "reading"
  BY <1>1, <1>2 DEF Waiting, GuardType, TypeOK
<1>4. unproductive <= total
  BY <1>2, <1>3 DEF GuardType
<1>5. \/ status' = "ended" /\ unproductive' = unproductive
      \/ /\ status' = "refused" /\ ~draining /\ unproductive > Limit
         /\ unproductive' \in Nat /\ unproductive' <= MaxBody
  <2>1. CASE BodyEnds
    BY <2>1 DEF BodyEnds, guardVars
  <2>2. ASSUME NEW chunk \in Chunks, Refuse(chunk)
        PROVE  /\ status' = "refused" /\ ~draining /\ unproductive > Limit
               /\ unproductive' \in Nat /\ unproductive' <= MaxBody
    <3>1. Len(chunk) \in Nat
      BY ChunkType, GuardSizes
    <3>2. /\ status' = "refused" /\ ~draining /\ unproductive > Limit
          /\ unproductive' = unproductive + Len(chunk) /\ total + Len(chunk) <= MaxBody
      BY <2>2 DEF Refuse, Pass
    <3> QED BY <3>1, <3>2, <1>2, <1>4
  <2> QED BY <2>1, <2>2
<1>6. GuardType'
  <2>1. unproductive' \in 0 .. MaxBody /\ status' \in {"reading", "refused", "ended"}
    BY <1>2, <1>4, <1>5
  <2>2. status' # "refused" => unproductive' <= total'
    BY <1>1, <1>4, <1>5
  <2> QED BY <2>1, <2>2, <1>1, <1>2 DEF GuardType, TypeOK
<1>7. Waiting'
  BY <1>1, <1>2 DEF Waiting
<1>8. Inside'
  BY <1>1, <1>2 DEF Inside
<1>9. Unaccounted' = Unaccounted
  BY <1>1 DEF Unaccounted
<1>10. Scanned' /\ Within'
  BY <1>1, <1>2, <1>3, <1>5, <1>9 DEF Scanned, Within
<1>11. RefusedOnlyStuck'
  <2>1. ASSUME status' = "refused"
        PROVE  Unaccounted' > Limit
    <3>1. ~draining /\ unproductive > Limit
      BY <2>1, <1>5
    <3>2. unproductive = Unaccounted
      BY <3>1, <1>2, <1>3 DEF Scanned
    <3> QED BY <3>1, <3>2, <1>9
  <2> QED BY <2>1 DEF RefusedOnlyStuck
<1> QED BY <1>6, <1>7, <1>8, <1>10, <1>11 DEF GuardInv

(* What the guard does with a chunk.                                         *)
LEMMA FeedEffect ==
    ASSUME NEW chunk \in Seq(Bytes), carry \in Seq(Bytes), Len(carry) < DelimiterSize,
           Feed(chunk)
    PROVE  LET window == carry \o chunk
           IN /\ Delimiters(window) # {} =>
                     /\ draining' = FALSE
                     /\ unproductive' = Len(window) - Min(Delimiters(window))
                     /\ unproductive' \in 0 .. Len(chunk) - 1
              /\ Delimiters(window) = {} =>
                     /\ draining' = draining /\ unproductive' = 0
                     /\ Begun(carry') = Begun(window)
              /\ carry' \in Seq(Bytes) /\ Len(carry') < DelimiterSize
<1> DEFINE window == carry \o chunk
<1>1. window \in Seq(Bytes) /\ Delimiters(carry) = {}
  BY ConcatProperties, ShortHasNone
<1>2. Delimiters(window) # {} =>
          Len(window) - Min(Delimiters(window)) \in 0 .. Len(chunk) - 1
  BY <1>1, BehindDelimiter
<1>3. /\ Delimiters(window) # {} =>
             /\ draining' = FALSE /\ carry' = <<>>
             /\ unproductive' = Len(window) - Min(Delimiters(window))
      /\ Delimiters(window) = {} =>
             draining' = draining /\ unproductive' = 0 /\ carry' = Carry(window)
  BY DEF Feed
<1> HIDE DEF window
<1>4. /\ Carry(window) \in Seq(Bytes) /\ Len(Carry(window)) < DelimiterSize
      /\ Begun(Carry(window)) = Begun(window)
  BY <1>1, CarryKeeps
<1>5. <<>> \in Seq(Bytes) /\ Len(<<>>) < DelimiterSize
  BY NothingBegun, SizePositive
<1>6. carry' \in Seq(Bytes) /\ Len(carry') < DelimiterSize
  BY <1>3, <1>4, <1>5
<1>7. /\ Delimiters(window) # {} =>
             /\ draining' = FALSE
             /\ unproductive' = Len(window) - Min(Delimiters(window))
             /\ unproductive' \in 0 .. Len(chunk) - 1
      /\ Delimiters(window) = {} =>
             /\ draining' = draining /\ unproductive' = 0
             /\ Begun(carry') = Begun(window)
  BY <1>2, <1>3, <1>4
<1> QED BY <1>6, <1>7 DEF window

(* A chunk pulled while the guard counts is unaccounted for.                 *)
LEMMA CountedOn ==
    ASSUME fresh \in Seq(Bytes), skipping \in BOOLEAN, skipping' = skipping,
           skipping => Delimiters(fresh) # {},
           NEW chunk \in Seq(Bytes), fresh' = fresh \o chunk
    PROVE  /\ Unaccounted' = Unaccounted + Len(chunk)
           /\ skipping => Delimiters(fresh') # {}
<1>1. /\ Len(fresh) \in Nat /\ Len(chunk) \in Nat
      /\ Len(fresh') = Len(fresh) + Len(chunk)
  BY LenProperties, ConcatProperties
<1>2. CASE ~skipping
  BY <1>1, <1>2 DEF Unaccounted
<1>3. CASE skipping
  <2> DEFINE i == Min(Delimiters(fresh))
  <2>1. Delimiters(fresh') # {} /\ Min(Delimiters(fresh')) = i /\ i \in 1 .. Len(fresh)
    BY <1>3, FirstStays
  <2>2. Unaccounted = Len(fresh) - i
    BY <1>3 DEF Unaccounted
  <2>3. Unaccounted' = Len(fresh') - i
    BY <1>3, <2>1 DEF Unaccounted
  <2> HIDE DEF i
  <2> QED BY <2>1, <2>2, <2>3, <1>1
<1> QED BY <1>2, <1>3

(* A chunk pulled while the guard drains: the scan finds in it what is there.*)
LEMMA ScannedOn ==
    ASSUME GuardInv, draining, NEW chunk \in Seq(Bytes), Feed(chunk),
           fresh' = fresh \o chunk, buffer' = buffer \o chunk,
           skipping' = skipping, late' = late, stage' = stage
    PROVE  /\ Scanned' /\ Inside'
           /\ unproductive' \in Nat /\ unproductive' <= Len(chunk)
           /\ Unaccounted' \in Nat /\ Unaccounted' <= Len(chunk)
           /\ carry' \in Seq(Bytes) /\ Len(carry') < DelimiterSize
           /\ draining' \in BOOLEAN
<1>1. /\ buffer \in Seq(Bytes) /\ carry \in Seq(Bytes) /\ Len(carry) < DelimiterSize
      /\ fresh \in Seq(Bytes) /\ Len(chunk) \in Nat /\ draining \in BOOLEAN
  BY LenProperties DEF GuardInv, GuardType, TypeOK
<1>2. skipping /\ Delimiters(fresh) = {} /\ Begun(carry) = Begun(fresh) /\ Inside
  BY DEF GuardInv, Scanned
<1>3. Delimiters(carry) = {}
  BY <1>1, ShortHasNone
<1> DEFINE window == carry \o chunk
<1>4. /\ Delimiters(window) # {} =>
             /\ draining' = FALSE
             /\ unproductive' = Len(window) - Min(Delimiters(window))
             /\ unproductive' \in 0 .. Len(chunk) - 1
      /\ Delimiters(window) = {} =>
             /\ draining' = draining /\ unproductive' = 0
             /\ Begun(carry') = Begun(window)
      /\ carry' \in Seq(Bytes) /\ Len(carry') < DelimiterSize
  BY <1>1, FeedEffect
<1>5. /\ Begun(fresh') = Begun(window)
      /\ Delimiters(fresh') = {} <=> Delimiters(window) = {}
      /\ Delimiters(fresh') # {} =>
             Len(fresh') - Min(Delimiters(fresh')) = Len(window) - Min(Delimiters(window))
  <2>1. /\ Begun(fresh \o chunk) = Begun(carry \o chunk)
        /\ Delimiters(fresh \o chunk) = {} <=> Delimiters(carry \o chunk) = {}
        /\ Delimiters(fresh \o chunk) # {} =>
               Len(fresh \o chunk) - Min(Delimiters(fresh \o chunk))
                 = Len(carry \o chunk) - Min(Delimiters(carry \o chunk))
    <3> HIDE DEF window
    <3> QED BY <1>1, <1>2, <1>3, Agree
  <2> QED BY <2>1
<1> HIDE DEF window
<1>6. CASE Delimiters(window) # {}
  <2>1. ~draining' /\ Delimiters(fresh') # {} /\ skipping'
    BY <1>2, <1>4, <1>5, <1>6
  <2>2. Unaccounted' = unproductive'
    BY <2>1, <1>4, <1>5, <1>6 DEF Unaccounted
  <2>3. Scanned' /\ Inside'
    BY <2>1, <2>2 DEF Scanned, Inside
  <2>4. unproductive' \in Nat /\ unproductive' <= Len(chunk)
    BY <1>1, <1>4, <1>6
  <2>5. draining' \in BOOLEAN
    BY <1>4, <1>6
  <2> QED BY <2>2, <2>3, <2>4, <2>5, <1>4
<1>7. CASE Delimiters(window) = {}
  <2>1. draining' /\ Delimiters(fresh') = {} /\ skipping' /\ unproductive' = 0
        /\ Begun(carry') = Begun(fresh')
    BY <1>2, <1>4, <1>5, <1>7
  <2>2. Unaccounted' = 0
    BY <2>1 DEF Unaccounted
  <2>3. Scanned'
    BY <2>1 DEF Scanned
  <2>4. ASSUME ~late
        PROVE  stage' = "data" /\ Delimiters(buffer') = {} /\ Begun(buffer') \subseteq Begun(fresh')
    <3>1. stage = "data" /\ Delimiters(buffer) = {} /\ Begun(buffer) \subseteq Begun(fresh)
      BY <2>4, <1>2 DEF Inside
    <3>2. /\ Begun(buffer') \subseteq Begun(fresh')
          /\ Delimiters(fresh') = {} => Delimiters(buffer') = {}
      BY <3>1, <1>1, Fewer
    <3> QED BY <3>1, <3>2, <2>1
  <2>5. Inside'
    BY <2>4 DEF Inside
  <2>6. draining' \in BOOLEAN
    BY <1>1, <1>4, <1>7
  <2>7. /\ unproductive' \in Nat /\ unproductive' <= Len(chunk)
        /\ Unaccounted' \in Nat /\ Unaccounted' <= Len(chunk)
    BY <2>1, <2>2, <1>1
  <2> QED BY <2>3, <2>5, <2>6, <2>7, <1>4
<1> QED BY <1>6, <1>7

(* A chunk reaches the parser.                                               *)
LEMMA PullStep ==
    ASSUME GuardInv, NEW chunk \in Chunks, Pull(chunk)
    PROVE  GuardInv'
<1>1. /\ stage' = stage /\ buffer' = buffer \o chunk /\ total' = total + Len(chunk)
      /\ fresh' = fresh \o chunk /\ skipping' = skipping /\ late' = late
      /\ field' = field /\ call' = call /\ status' = status /\ call # "none"
      /\ total + Len(chunk) <= MaxBody
      /\ draining \/ unproductive <= Limit
      /\ draining => Feed(chunk)
      /\ ~draining => Pass(chunk)
  BY DEF Pull, Polls
<1>2. /\ GuardType /\ Waiting /\ Scanned /\ Inside /\ Within
      /\ buffer \in Seq(Bytes) /\ carry \in Seq(Bytes) /\ Len(carry) < DelimiterSize
      /\ total \in Nat /\ unproductive \in Nat /\ draining \in BOOLEAN
      /\ fresh \in Seq(Bytes) /\ skipping \in BOOLEAN
      /\ status \in {"reading", "refused", "ended"}
  BY GuardSizes DEF GuardInv, GuardType, TypeOK
<1>3. status = "reading"
  BY <1>1, <1>2 DEF Waiting
<1>4. unproductive <= total
  BY <1>2, <1>3 DEF GuardType
<1>5. MaxBody \in Nat /\ Limit \in Nat /\ MaxChunk \in Nat
  BY GuardSizes
<1>6. chunk \in Seq(Bytes) /\ Len(chunk) \in Nat /\ Len(chunk) <= MaxChunk
  BY <1>5, ChunkType
<1>7. buffer' \in Seq(Bytes) /\ fresh' \in Seq(Bytes)
  BY <1>1, <1>2, <1>6, ConcatProperties
<1>8. Waiting'
  BY <1>1, <1>2 DEF Waiting
<1>9. RefusedOnlyStuck'
  BY <1>1, <1>3 DEF RefusedOnlyStuck
<1>10. /\ Scanned' /\ Inside' /\ Within'
       /\ unproductive' \in Nat /\ unproductive' <= total'
       /\ carry' \in Seq(Bytes) /\ Len(carry') < DelimiterSize
       /\ draining' \in BOOLEAN
  <2>1. CASE draining
    <3>1. /\ Scanned' /\ Inside'
          /\ unproductive' \in Nat /\ unproductive' <= Len(chunk)
          /\ Unaccounted' \in Nat /\ Unaccounted' <= Len(chunk)
          /\ carry' \in Seq(Bytes) /\ Len(carry') < DelimiterSize
          /\ draining' \in BOOLEAN
      BY <2>1, <1>1, <1>6, ScannedOn
    <3>2. Within'
      BY <3>1, <1>5, <1>6 DEF Within
    <3>3. unproductive' <= total'
      BY <3>1, <1>1, <1>2, <1>6
    <3> QED BY <3>1, <3>2, <3>3
  <2>2. CASE ~draining
    <3>1. unproductive' = unproductive + Len(chunk) /\ draining' = draining /\ carry' = carry
      BY <2>2, <1>1 DEF Pass
    <3>2. unproductive = Unaccounted /\ (skipping => Delimiters(fresh) # {})
      BY <2>2, <1>2, <1>3 DEF Scanned
    <3>3. /\ Unaccounted' = Unaccounted + Len(chunk)
          /\ skipping => Delimiters(fresh') # {}
      BY <3>2, <1>1, <1>2, <1>6, CountedOn
    <3>4. Scanned' /\ Inside'
      BY <3>1, <3>2, <3>3, <2>2, <1>1 DEF Scanned, Inside
    <3>5. unproductive <= Limit
      BY <2>2, <1>1
    <3>6. Within'
      BY <3>2, <3>3, <3>5, <1>2, <1>5, <1>6 DEF Within
    <3>7. unproductive' \in Nat /\ unproductive' <= total'
      BY <3>1, <1>1, <1>2, <1>4, <1>6
    <3> QED BY <3>1, <3>4, <3>6, <3>7, <1>2
  <2> QED BY <2>1, <2>2
<1>11. GuardType'
  <2>1. total' \in 0 .. MaxBody /\ unproductive' \in 0 .. MaxBody
    BY <1>1, <1>2, <1>5, <1>6, <1>10
  <2> QED BY <2>1, <1>1, <1>2, <1>7, <1>10 DEF GuardType, TypeOK
<1> QED BY <1>8, <1>9, <1>10, <1>11 DEF GuardInv

(* Every step of the handler, of the parser and of the guard keeps the       *)
(* invariant.                                                                *)
LEMMA GuardGoesOn == GuardInv /\ [Next]_vars => GuardInv'
<1> SUFFICES ASSUME GuardInv, [Next]_vars
             PROVE  GuardInv'
  OBVIOUS
<1>1. CASE Handler
  BY <1>1, HandlerStep, DropStep DEF Handler
<1>2. CASE Parser
  BY <1>2, FindStep, ProducedStep, DiscardStep DEF Parser
<1>3. CASE GuardedBody
  <2>1. ASSUME NEW chunk \in Chunks, Pull(chunk)
        PROVE  GuardInv'
    BY <2>1, PullStep
  <2>2. CASE BodyEnds \/ \E chunk \in Chunks : Refuse(chunk)
    BY <2>2, EndStep
  <2> QED BY <1>3, <2>1, <2>2 DEF GuardedBody
<1>4. CASE UNCHANGED vars
  <2>1. /\ stage' = stage /\ buffer' = buffer /\ draining' = draining
        /\ unproductive' = unproductive /\ carry' = carry /\ total' = total
        /\ skipping' = skipping /\ fresh' = fresh /\ late' = late
        /\ status' = status /\ field' = field /\ call' = call
    BY <1>4 DEF vars, parserVars, guardVars, histories
  <2>2. GuardType' /\ Waiting'
    BY <2>1 DEF GuardInv, GuardType, TypeOK, Waiting
  <2>3. Unaccounted' = Unaccounted
    BY <2>1 DEF Unaccounted
  <2>4. Scanned' /\ Inside'
    BY <2>1, <2>3 DEF GuardInv, Scanned, Inside
  <2>5. Within' /\ RefusedOnlyStuck'
    BY <2>1, <2>3 DEF GuardInv, Within, RefusedOnlyStuck
  <2> QED BY <2>2, <2>4, <2>5 DEF GuardInv
<1> QED BY <1>1, <1>2, <1>3, <1>4 DEF Next

(* Whatever the handler reads, skips and cancels, however delimiters are cut *)
(* into chunks and however many chunks a poll pulls: no more than the limit  *)
(* and one chunk come without a result, the data of a skipped part apart,    *)
(* and the limit is lifted only inside such a part if the Field was dropped  *)
(* before its delimiter began to arrive (GuardedBody::poll_next).            *)
THEOREM UnproductiveBounded == Spec => []GuardHolds
<1>1. GuardInv => GuardHolds
  BY DEF GuardInv, Within, Inside, GuardHolds
<1> QED BY <1>1, GuardStarts, GuardGoesOn, PTL DEF Spec

(* And a body is refused only if more than the limit came since, the data of *)
(* a skipped part apart: it may have any size (SkipGuard).                   *)
THEOREM LargePartsSkipped == Spec => []RefusedOnlyStuck
<1>1. GuardInv => RefusedOnlyStuck
  BY DEF GuardInv
<1> QED BY <1>1, GuardStarts, GuardGoesOn, PTL DEF Spec
=============================================================================
