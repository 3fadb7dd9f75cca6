----------------------------- MODULE MCStreams ------------------------------
(***************************************************************************)
(* The byte streams of a connection, one component at a time: they share   *)
(* the clock and nothing else, so the states of one run are those of each. *)
(***************************************************************************)
EXTENDS Sniff, BodyRead, SendPath, StaticFiles, EventStream, MultipartGuard,
        WebSocketSession

VARIABLE part  \* the component that runs

components == <<part, timeVars, sniffedVars, bodyVars, outVars, fileVars, streamVars, vars,
                sessionVars>>

StreamsInit ==
    /\ part \in {"sniff", "upload", "send", "files", "events", "multipart", "socket"}
    /\ SniffInit /\ UploadInit /\ SendInit /\ FilesInit /\ SseInit /\ Init /\ SocketInit
    /\ part # "upload" => announced = None
    /\ part # "send" => ~tls

StreamsNext ==
    /\ UNCHANGED part
    /\ \/ /\ part = "sniff" /\ SniffNext
          /\ UNCHANGED <<bodyVars, outVars, fileVars, streamVars, vars, sessionVars>>
       \/ /\ part = "upload" /\ UploadNext
          /\ UNCHANGED <<sniffedVars, outVars, fileVars, streamVars, vars, sessionVars>>
       \/ /\ part = "send" /\ SendNext
          /\ UNCHANGED <<sniffedVars, bodyVars, fileVars, streamVars, vars, sessionVars>>
       \/ /\ part = "files" /\ FilesNext
          /\ UNCHANGED <<timeVars, sniffedVars, bodyVars, outVars, streamVars, vars, sessionVars>>
       \/ /\ part = "events" /\ SseNext
          /\ UNCHANGED <<sniffedVars, bodyVars, outVars, fileVars, vars, sessionVars>>
       \/ /\ part = "multipart" /\ Next
          /\ UNCHANGED <<timeVars, sniffedVars, bodyVars, outVars, fileVars, streamVars,
                         sessionVars>>
       \/ /\ part = "socket" /\ SocketNext
          /\ UNCHANGED <<sniffedVars, bodyVars, outVars, fileVars, streamVars, vars>>

StreamsSpec == StreamsInit /\ [][StreamsNext]_components

-----------------------------------------------------------------------------
(* Preface: three symbols; the others may follow it or rule it out.         *)
ShortPreface == <<"P", "R", "I">>

(* "\r" starts a delimiter of a multipart body, "-" goes on with it, and    *)
(* "b" ends headers; all of them may be data too.                           *)
CrDashDash == <<"r", "-", "-">>

(* Handshakes that lack something or nothing, and offer protocols in orders *)
(* the server does or does not prefer.                                      *)
Offers == {<<>>, <<"b", "a">>, <<"c">>, <<"c", "b">>}
Asked == [upgrades : BOOLEAN, version : {8, 13}, key : BOOLEAN,
          origin : {None, "app", "evil"}, offered : Offers]
Ours == <<"a", "b">>
=============================================================================
