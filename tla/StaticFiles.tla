---------------------------- MODULE StaticFiles -----------------------------
(***************************************************************************)
(* ServeDir (static_files.rs) serving a file that others write to while it *)
(* is served: one request at a time of a client that keeps a copy and      *)
(* revalidates it.                                                         *)
(*                                                                         *)
(* A file is a sequence of bytes, each known by the write that put it      *)
(* there; it is replaced by name, rolled back, truncated, extended or      *)
(* patched in place.  Every write has a modification time of its own (the  *)
(* file system's clock is as fine as its writes).  The name asked for is   *)
(* a file, a directory with or without an index, or nothing.               *)
(***************************************************************************)
EXTENDS Values, Integers, Sequences

CONSTANTS Dir,       \* what a name is when it names a directory
          SmallFile, \* SMALL_FILE: larger files are streamed
          Second,    \* modification times in a second
          MaxSize,   \* bound: bytes of a file
          MaxWrites  \* bound: writes, of whatever kind

ASSUME FileAssumption == /\ Second \in Nat \ {0}
                         /\ {SmallFile, MaxSize, MaxWrites} \subseteq Nat

VARIABLES
    files,   \* the files there ever were: contents and modification time
    page,    \* what the name asked for is: a file, Dir or None
    index,   \* the index file in that directory, or None
    clock,   \* how many writes there were; the last modification time
    request, \* the request in the middleware, or None
    cache,   \* the client's copy, or None
    answer   \* the last answer, or None

disk == <<files, page, index, clock>>
fileVars == <<disk, request, cache, answer>>

Written(bytes) == [bytes |-> bytes, modified |-> clock + 1]
Filled(n) == [i \in 1 .. n |-> clock + 1]

FilesInit == /\ files = <<[bytes |-> <<0>>, modified |-> 0]>>
             /\ page = 1
             /\ index = None
             /\ clock = 0
             /\ request = None
             /\ cache = None
             /\ answer = None

-----------------------------------------------------------------------------
(* Others write to the directory.                                           *)
Write == /\ clock < MaxWrites
         /\ clock' = clock + 1
         /\ UNCHANGED <<request, cache, answer>>

(* A new file takes the name, or becomes the index of a directory there.    *)
Replace(n) == /\ Write
              /\ files' = Append(files, Written(Filled(n)))
              /\ page' = Len(files')
              /\ UNCHANGED index

MakeDirectory == /\ Write
                 /\ page' = Dir
                 /\ index' \in {None} \union DOMAIN files
                 /\ UNCHANGED files

Unlink == /\ Write
          /\ page' = None
          /\ UNCHANGED <<files, index>>

(* An older file takes its name back, with its contents and time.           *)
RollBack(f) == /\ Write
               /\ page' = f
               /\ UNCHANGED <<files, index>>

InPlace(f, bytes) == /\ Write
                     /\ files' = [files EXCEPT ![f] = Written(bytes)]
                     /\ UNCHANGED <<page, index>>

Truncate(f) == InPlace(f, <<>>)
Extend(f) == /\ Len(files[f].bytes) < MaxSize
             /\ InPlace(f, Append(files[f].bytes, clock + 1))
Patch(f) == /\ files[f].bytes # <<>>
            /\ InPlace(f, [files[f].bytes EXCEPT ![1] = clock + 1])

Writer == \/ \E n \in 0 .. MaxSize : Replace(n)
          \/ MakeDirectory
          \/ Unlink
          \/ \E f \in DOMAIN files :
                 RollBack(f) \/ Truncate(f) \/ Extend(f) \/ Patch(f)

-----------------------------------------------------------------------------
(* Validators.  Mutant: as fine as an HTTP date.                            *)
EtagOfSecond(length, modified) == <<length, modified \div Second>>

MakeEtag(length, modified) == <<length, modified>>

Seconds(time) == time \div Second

(* "*" in a list of tags, which every file has.                             *)
Star == <<>>

NotModified(v, etag, modified) ==
    IF v.ifNoneMatch # None THEN {Star, etag} \intersect v.ifNoneMatch # {}
    ELSE v.ifModifiedSince # None /\ Seconds(modified) <= v.ifModifiedSince

(* The client sends "*", the tag of its copy, alone or with that of the     *)
(* first file there was, and the date of its copy.                          *)
Tags == {None, {Star}}
          \union (IF cache = None THEN {} ELSE {{cache.etag}, {cache.etag, MakeEtag(1, 0)}})
Dates == {None} \union (IF cache = None THEN {} ELSE {Seconds(cache.modified)})
Validators == [ifNoneMatch : Tags, ifModifiedSince : Dates]

-----------------------------------------------------------------------------
(* The client asks, with what it kept of an earlier answer.                 *)
Arrive(head, slash, v) ==
    /\ request = None
    /\ request' = [stage |-> "resolve", head |-> head, slash |-> slash, v |-> v,
                   name |-> None, meta |-> None, handle |-> None,
                   opened |-> None, length |-> 0, sent |-> <<>>]
    /\ answer' = None
    /\ UNCHANGED <<disk, cache>>

(* `now` is history: what the file held when it was described.              *)
Reply(status, length, etag, now) ==
    /\ request' = None
    /\ answer' = [status |-> status, length |-> length, etag |-> etag,
                  request |-> request, now |-> now]
    /\ UNCHANGED disk

(* serve() found nothing to serve: the application answers, here with 404.  *)
PassOn == Reply(404, None, None, None) /\ UNCHANGED cache

(* What a name is, now: the index is looked for where there is a directory. *)
At(name) == IF name = "page" THEN page ELSE IF page = Dir THEN index ELSE None
Target == IF page = Dir THEN "index" ELSE "page"

(* Config::resolve, and the redirect of a directory without its slash.      *)
Resolve ==
    /\ request # None /\ request.stage = "resolve"
    /\ IF At(Target) = None THEN PassOn
       ELSE IF Target = "index" /\ ~request.slash
       THEN Reply(308, 0, None, None) /\ UNCHANGED cache
       ELSE /\ request' = [request EXCEPT !.stage = "open", !.name = Target,
                                          !.meta = files[At(Target)]]
            /\ UNCHANGED <<disk, cache, answer>>

(* The handle describes the file.  A handle that turns out to be that of a  *)
(* directory leaves the description of Resolve.                             *)
Found(what) == IF what = Dir THEN None ELSE files[what]

Described == IF At(request.name) = Dir THEN request.meta ELSE Found(At(request.name))

(* The file is opened and described, and the kind of answer decided.        *)
(* `opened` is history: what the file was then.                             *)
Open ==
    LET meta == Described
        length == Len(meta.bytes)
        etag == MakeEtag(length, meta.modified)
    IN /\ request # None /\ request.stage = "open"
       /\ IF At(request.name) = None THEN PassOn
          ELSE IF NotModified(request.v, etag, meta.modified)
          THEN Reply(304, None, etag, meta.bytes) /\ UNCHANGED cache
          ELSE IF request.head
          THEN Reply(200, length, etag, meta.bytes) /\ UNCHANGED cache
          ELSE /\ request' = [request EXCEPT
                                  !.stage = IF length <= SmallFile THEN "read"
                                            ELSE "stream",
                                  !.handle = At(request.name),
                                  !.opened = Found(At(request.name)),
                                  !.meta = meta,
                                  !.length = length]
               /\ UNCHANGED <<disk, cache, answer>>

(* The next bytes a read of the handle gives: at least one, up to the       *)
(* length announced; none at the end of the file.  Mutant: to the end.      *)
ReadToEnd(bytes) == Len(bytes) - Len(request.sent)

Available(bytes) ==
    LET left == request.length - Len(request.sent)
        there == Len(bytes) - Len(request.sent)
    IN IF there <= 0 THEN 0 ELSE IF left < there THEN left ELSE there

Read == /\ request # None
        /\ request.stage \in {"read", "stream"}
        /\ request.handle # Dir
        /\ LET bytes == files[request.handle].bytes
               at == Len(request.sent)
           IN \E n \in 1 .. Available(bytes) :
                  request' = [request EXCEPT
                                  !.sent = @ \o SubSeq(bytes, at + 1, at + n)]
        /\ UNCHANGED <<disk, cache, answer>>

AtEnd == \/ Len(request.sent) = request.length
         \/ request.handle # Dir /\ Available(files[request.handle].bytes) <= 0

(* The validator describes the bytes that were read.                        *)
TagOf(length) == MakeEtag(length, request.meta.modified)

(* The client keeps a body that is as long as announced.                    *)
Keep(length, etag) ==
    cache' = IF Len(request.sent) = length
             THEN [etag |-> etag, modified |-> request.meta.modified,
                   bytes |-> request.sent]
             ELSE cache

(* A small file has been read: the answer has the length that was read.     *)
(* Nothing can be read of a directory.                                      *)
FinishSmall ==
    LET length == Len(request.sent)
    IN /\ request # None /\ request.stage = "read"
       /\ \/ /\ AtEnd
             /\ Reply(200, length, TagOf(length), request.meta.bytes)
             /\ Keep(length, TagOf(length))
          \/ ~AtEnd /\ request.handle = Dir /\ PassOn

(* A stream ends after the length announced, or early if the file shrank.   *)
FinishStream ==
    /\ request # None /\ request.stage = "stream"
    /\ request.handle = Dir \/ AtEnd
    /\ Reply(200, request.length, MakeEtag(request.length, request.meta.modified),
               request.meta.bytes)
    /\ Keep(request.length, MakeEtag(request.length, request.meta.modified))

Serve == Resolve \/ Open \/ Read \/ FinishSmall \/ FinishStream

FilesNext == \/ Writer
             \/ Serve
             \/ \E head, slash \in BOOLEAN :
                    \E v \in Validators : Arrive(head, slash, v)

FilesSpec == FilesInit /\ [][FilesNext]_fileVars

-----------------------------------------------------------------------------
(* A client that asks by entity tags is told 304 with one of them, and its  *)
(* copy with that tag is what the file held when it was described in this   *)
(* request: after rewrites of the same size within a second, of a file read *)
(* while it was written, a name taken over or rolled back, and whatever     *)
(* date it sends as well.                                                   *)
NotModifiedIsFresh ==
    LET tags == answer.request.v.ifNoneMatch
    IN answer # None /\ answer.status = 304 /\ tags # None /\ Star \notin tags =>
           /\ answer.etag \in tags
           /\ cache # None /\ cache.etag = answer.etag => cache.bytes = answer.now

(* A body is of one file, whoever takes the name over: it has the length    *)
(* announced or ends early, and all of a file no one wrote to since it was  *)
(* opened.                                                                  *)
OneFile ==
    answer # None /\ answer.status = 200 /\ ~answer.request.head =>
        LET sent == answer.request.sent
            file == files[answer.request.handle]
        IN /\ Len(sent) <= answer.length
           /\ answer.request.stage = "read" => Len(sent) = answer.length
           /\ answer.request.handle # Dir /\ file = answer.request.opened =>
                  sent = file.bytes /\ answer.length = Len(sent)
=============================================================================
