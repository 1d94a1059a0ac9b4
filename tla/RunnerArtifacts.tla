-------------------------- MODULE RunnerArtifacts --------------------------
(***************************************************************************)
(* Presigned transfers of runner artifacts: minting and checking of tokens *)
(* (artifacts/presign.go) and the handlers that copy files in and out      *)
(* (server/runner_artifact_handlers.go).                                   *)
(*                                                                         *)
(* Time is in half seconds, tokens carry whole ones.  A path is a sequence *)
(* of parts.  A transfer copies chunk by chunk, and nothing keeps two      *)
(* transfers of one file apart: a file is a sequence of chunks, each known *)
(* by the upload and the place it came from.                               *)
(***************************************************************************)
EXTENDS Naturals, Sequences, FiniteSets, SequencesExt

CONSTANTS
    Runs,
    Paths,         \* requested paths
    Scopes,        \* requested scopes, the empty one included
    TTLs,          \* in seconds, 0: the default
    DefaultTTL,
    Transfers,     \* uploads and downloads
    Length(_),     \* upload -> chunks of its body
    KeyConfigured, \* a signing key is configured; otherwise each start makes one
    MaxTokens, MaxTime, MaxStarts

VARIABLES
    halves,        \* the time
    key,           \* signing key
    granted,       \* tokens minted
    files,         \* <<run, path>> -> chunks
    transfer,      \* transfer -> its progress
    origin,        \* <<run, path>> -> the one upload that wrote the file, while that is so: ghost
    startsMade

artifactVars == <<halves, key, granted, files, transfer, origin, startsMade>>

Unbegun == [step |-> "unbegun", op |-> "", file |-> <<>>, at |-> 0, size |-> 0, read |-> <<>>,
            expect |-> "", token |-> [promised |-> 0], begun |-> 0]
Hole == <<"", 0>>

\* normalizePath.
Clean(path) == SelectSeq(path, LAMBDA part : part # ".")
ValidPath(path) == Clean(path) # <<>> /\ ".." \notin ToSet(path)

\* withinScope, on cleaned paths.
WithinScope(path, scope) == IsPrefix(scope, path)


\* Time.Unix.
Unix(t) == t \div 2

ScopePrefix(path, scope) == IF Clean(scope) = <<>> THEN Clean(path) ELSE Clean(scope)

\* Service.Presign: what the token says, and the expiry the answer gives.
Claims(run, path, scope, op, ttl) ==
    LET expiresAt == halves + 2 * (IF ttl = 0 THEN DefaultTTL ELSE ttl)
    IN  [run |-> run, scope |-> ScopePrefix(path, scope), path |-> Clean(path), op |-> op, key |-> key,
         expires |-> Unix(expiresAt), promised |-> expiresAt]

\* handlePresignRunnerArtifact.
Presign(run, path, scope, op, ttl) ==
    /\ Cardinality(granted) < MaxTokens
    /\ ValidPath(path) /\ ".." \notin ToSet(scope)
    /\ WithinScope(Clean(path), ScopePrefix(path, scope))
    /\ granted' = granted \cup {Claims(run, path, scope, op, ttl)}
    /\ UNCHANGED <<halves, key, files, transfer, origin, startsMade>>

\* parseToken: the signature; the claims are well formed, as Presign made them.
ParseToken(token) == token.key = key

\* Validate.
Validate(token, run, path, op) ==
    /\ ValidPath(path)
    /\ ParseToken(token)
    /\ halves <= 2 * token.expires
    /\ token.run = run /\ token.op = op
    /\ WithinScope(Clean(path), token.scope)
    /\ Clean(path) = token.path

Uploading(file) == {t \in Transfers : transfer[t].step = "copy" /\ transfer[t].op = "upload" /\ transfer[t].file = file}

\* MkdirAll and OpenFile fail when a part of the path is a file, or the path a directory.
Blocked(file) ==
    \E f \in DOMAIN files :
        f # file /\ f[1] = file[1] /\ (IsPrefix(f[2], file[2]) \/ IsPrefix(file[2], f[2]))

\* Mutant: the file is opened without O_TRUNC.
OpenedInPlace(file) == IF file \in DOMAIN files THEN files[file] ELSE <<>>

\* What OpenFile leaves in the file.
Opened(file) == <<>>

\* Downloads of the file that were reading an undisturbed one no longer do.
Disturb(file) ==
    [t \in Transfers |->
        IF transfer[t].op = "download" /\ transfer[t].step = "copy" /\ transfer[t].file = file
        THEN [transfer[t] EXCEPT !.expect = ""] ELSE transfer[t]]

\* handleRunnerArtifactTransfer up to the copy of an upload.
BeginUpload(t, token, run, path) ==
    LET file == <<run, Clean(path)>>
    IN  /\ transfer[t] = Unbegun
        /\ Validate(token, run, path, "upload")
        /\ IF Blocked(file)
           THEN /\ transfer' = [transfer EXCEPT ![t] = [@ EXCEPT !.step = "failed"]]
                /\ UNCHANGED <<files, origin>>
           ELSE /\ files' = [f \in DOMAIN files \cup {file} |-> IF f = file THEN Opened(file) ELSE files[f]]
                /\ origin' = [f \in DOMAIN files \cup {file} |->
                                 IF f # file THEN origin[f] ELSE IF Uploading(file) = {} THEN t ELSE ""]
                /\ transfer' = [Disturb(file) EXCEPT ![t] =
                       [Unbegun EXCEPT !.step = "copy", !.op = "upload", !.file = file, !.token = token, !.begun = halves]]
        /\ UNCHANGED <<halves, key, granted, startsMade>>

\* One write of io.Copy at the upload's own offset.
WriteChunk(t) ==
    LET r == transfer[t]
        old == files[r.file]
        wide == old \o [i \in 1..(IF Len(old) > r.at THEN 0 ELSE r.at + 1 - Len(old)) |-> Hole]
    IN  /\ r.step = "copy" /\ r.op = "upload" /\ r.at < Length(t)
        /\ files' = [files EXCEPT ![r.file] = [wide EXCEPT ![r.at + 1] = <<t, r.at + 1>>]]
        /\ transfer' = [transfer EXCEPT ![t] = [@ EXCEPT !.at = @ + 1]]
        /\ UNCHANGED <<halves, key, granted, origin, startsMade>>

\* The body ends, or the connection does: what was written stays.
EndUpload(t, ok) ==
    LET r == transfer[t]
    IN  /\ r.step = "copy" /\ r.op = "upload" /\ (ok => r.at = Length(t))
        /\ transfer' = [transfer EXCEPT ![t] = [@ EXCEPT !.step = IF ok THEN "done" ELSE "failed"]]
        /\ origin' = IF ok THEN origin ELSE [origin EXCEPT ![r.file] = ""]
        /\ UNCHANGED <<halves, key, granted, files, startsMade>>

\* handleRunnerArtifactTransfer up to the copy of a download: Open and Stat.
BeginDownload(t, token, run, path) ==
    LET file == <<run, Clean(path)>>
    IN  /\ transfer[t] = Unbegun
        /\ Validate(token, run, path, "download")
        /\ transfer' = [transfer EXCEPT ![t] =
               IF file \in DOMAIN files
               THEN [Unbegun EXCEPT !.step = "copy", !.op = "download", !.file = file, !.token = token, !.begun = halves,
                                    !.size = Len(files[file]),
                                    !.expect = IF Uploading(file) = {} THEN origin[file] ELSE ""]
               ELSE [Unbegun EXCEPT !.step = "failed"]]
        /\ UNCHANGED <<halves, key, granted, files, origin, startsMade>>

\* One read of io.Copy; the response takes no more than Content-Length.
ReadChunk(t) ==
    LET r == transfer[t]
    IN  /\ r.step = "copy" /\ r.op = "download" /\ r.at < Len(files[r.file])
        /\ transfer' = [transfer EXCEPT ![t] =
               IF r.at < r.size THEN [@ EXCEPT !.at = @ + 1, !.read = Append(@, files[r.file][r.at + 1])]
               ELSE [@ EXCEPT !.step = "failed"]]
        /\ UNCHANGED <<halves, key, granted, files, origin, startsMade>>

\* The end of the file; a response shorter than Content-Length is broken off.
EndDownload(t) ==
    LET r == transfer[t]
    IN  /\ r.step = "copy" /\ r.op = "download" /\ r.at >= Len(files[r.file])
        /\ transfer' = [transfer EXCEPT ![t] = [@ EXCEPT !.step = IF r.at = r.size THEN "done" ELSE "failed"]]
        /\ UNCHANGED <<halves, key, granted, files, origin, startsMade>>

Tick == halves < MaxTime /\ halves' = halves + 1 /\ UNCHANGED <<key, granted, files, transfer, origin, startsMade>>

\* A stop and a start: files stay, transfers break off, and a key that is not
\* configured is made anew.
Restart ==
    /\ startsMade < MaxStarts /\ startsMade' = startsMade + 1
    /\ key' = IF KeyConfigured THEN key ELSE key + 1
    /\ transfer' = [t \in Transfers |-> IF transfer[t].step = "copy" THEN [transfer[t] EXCEPT !.step = "failed"] ELSE transfer[t]]
    /\ origin' = [f \in DOMAIN files |-> IF Uploading(f) # {} THEN "" ELSE origin[f]]
    /\ UNCHANGED <<halves, granted, files>>

Init ==
    /\ halves = 0 /\ key = 0
    /\ granted = {}
    /\ files = [f \in {} |-> <<>>] /\ origin = [f \in {} |-> ""]
    /\ transfer = [t \in Transfers |-> Unbegun]
    /\ startsMade = 0

Next ==
    \/ \E run \in Runs, path \in Paths, scope \in Scopes, op \in {"upload", "download"}, ttl \in TTLs :
           Presign(run, path, scope, op, ttl)
    \/ \E t \in Transfers :
           \/ \E token \in granted, run \in Runs, path \in Paths :
                  BeginUpload(t, token, run, path) \/ BeginDownload(t, token, run, path)
           \/ WriteChunk(t) \/ ReadChunk(t) \/ EndDownload(t)
           \/ \E ok \in BOOLEAN : EndUpload(t, ok)
    \/ Tick \/ Restart

Spec == Init /\ [][Next]_artifactVars

\* Presign, Validate: no transfer begins after the expires_at its token's answer
\* gave, although tokens carry whole seconds only.
TransfersBeginInTime ==
    \A t \in Transfers : transfer[t].step = "copy" => transfer[t].begun <= transfer[t].token.promised

\* handleRunnerArtifactTransfer: a completed download of a file that one upload
\* wrote, alone and to its end, holds exactly that upload's chunks, whatever was in
\* the file before and whatever failed or ran at other times.
UndisturbedDownloadsAreExact ==
    \A t \in Transfers :
        transfer[t].step = "done" /\ transfer[t].expect # "" =>
            transfer[t].read = [i \in 1..Length(transfer[t].expect) |-> <<transfer[t].expect, i>>]
=============================================================================
