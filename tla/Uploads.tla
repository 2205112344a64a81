------------------------------ MODULE Uploads ------------------------------
(***************************************************************************)
(* Chunked uploads of one file by one account (cloud/src/uploads.js) and   *)
(* its removal from the library (pages/library.js libraryDelete).  Several *)
(* Worker requests run at once and interleave at every await: D1 holds the *)
(* uploads and media rows, R2 the multipart uploads and the stored object, *)
(* and no transaction spans the two.  A Worker may die at any await, and   *)
(* every upload of the file has the same R2 key.                           *)
(***************************************************************************)
EXTENDS Naturals, FiniteSets

CONSTANTS
  Requests,      \* requests the Worker may be serving at once
  Uploads,       \* bound: ids of upload rows and of their R2 multiparts
  Parts,         \* part numbers 1..totalParts(size)
  MaxPuts,       \* bound: times R2 is sent one part
  MaxDeletes,    \* bound: deletions from the library
  MaxDeaths,     \* bound: Workers killed in the middle of a request
  SlowWorkers,   \* may a live uploadPart take longer than CLAIM_STALE_SECONDS?
  Nobody, NoUpload, NoMedia

ASSUME UploadsAssumption ==
  /\ IsFiniteSet(Parts)
  /\ MaxPuts \in Nat /\ MaxDeletes \in Nat /\ MaxDeaths \in Nat
  /\ SlowWorkers \in BOOLEAN
  /\ Nobody \notin Requests /\ NoUpload \notin Uploads /\ NoMedia \notin Uploads

VARIABLES
  ups,      \* D1 uploads: u -> its parts and bytes received, or NoUpload
  media,    \* D1 media: the upload whose complete inserted the account's row, or NoMedia
  r2,       \* R2 multiparts: u -> state and the etag it holds for each part (0: none)
  object,   \* R2: the multipart whose bytes the key holds, or NoUpload
  intact,   \* u -> do the bytes sent have the declared size and sha256 (the latter is looked
            \* at up to PIPLAYER_VERIFY_SHA_MAX_BYTES only)?
  pc, on,   \* each request: its next await, the upload it is about
  n, etags, \* the part of an uploadPart; the etags a request has in hand
  told,     \* has a request been told "already in the library" since the last delete?
  deletes, deaths

rows == <<ups, media>>
bucket == <<r2, object>>
locals == <<on, n, etags>>
counts == <<deletes, deaths>>
vars == <<rows, bucket, intact, pc, locals, told, counts>>

NoEtags == [p \in Parts |-> 0]

\* An entry of the parts JSON: absent, a claim in flight, or the etag of a part R2 holds.
Absent == [state |-> "absent", by |-> Nobody, etag |-> 0]
Claim(r) == [state |-> "claimed", by |-> r, etag |-> 0]
Done(e) == [state |-> "done", by |-> Nobody, etag |-> e]

Part(u, p) == ups[u].parts[p]
Held(u) == ups[u] # NoUpload
IsDone(u, p) == Part(u, p).state = "done"
Mine(r) == Held(on[r]) /\ Part(on[r], n[r]) = Claim(r)

Init ==
  /\ ups = [u \in Uploads |-> NoUpload] /\ media = NoMedia
  /\ r2 = [u \in Uploads |-> [state |-> "none", etags |-> NoEtags]]
  /\ object = NoUpload
  /\ intact \in [Uploads -> BOOLEAN]
  /\ pc = [r \in Requests |-> "free"]
  /\ on = [r \in Requests |-> NoUpload]
  /\ n = [r \in Requests |-> 0] /\ etags = [r \in Requests |-> NoEtags]
  /\ told = FALSE /\ deletes = 0 /\ deaths = 0

\* Request r goes on to `to`; it forgets everything when it is done.
Goto(r, to) == pc' = [pc EXCEPT ![r] = to]
Stay == UNCHANGED locals
Finish(r) ==
  /\ Goto(r, "free")
  /\ on' = [on EXCEPT ![r] = NoUpload]
  /\ n' = [n EXCEPT ![r] = 0] /\ etags' = [etags EXCEPT ![r] = NoEtags]
Start(r, u, to) ==
  /\ pc[r] = "free" /\ Goto(r, to)
  /\ on' = [on EXCEPT ![r] = u] /\ UNCHANGED <<n, etags>>

-----------------------------------------------------------------------------
(* uploadInit.  Its three reads (duplicateOf, the in-flight upload, the    *)
(* key) are taken as one; u is the id of the new row.                      *)

Unused(u) == r2[u].state = "none" /\ \A r \in Requests : on[r] # u

AskInit(r, u) ==
  /\ Unused(u) /\ media = NoMedia /\ \A v \in Uploads : ~Held(v)
  /\ Start(r, u, "create")
  /\ UNCHANGED <<rows, bucket, intact, told, counts>>

\* A file the library has is refused: 409 "Already in the library as ...".
AskInitDuplicate(r) ==
  /\ pc[r] = "free" /\ media # NoMedia
  /\ told' = TRUE
  /\ UNCHANGED <<rows, bucket, intact, pc, locals, counts>>

CreateMultipart(r) ==
  /\ pc[r] = "create" /\ Goto(r, "insert")
  /\ r2' = [r2 EXCEPT ![on[r]].state = "open"]
  /\ Stay /\ UNCHANGED <<rows, object, intact, told, counts>>

InsertUpload(r) ==
  /\ pc[r] = "insert"
  /\ ups' = [ups EXCEPT ![on[r]] = [parts |-> [p \in Parts |-> Absent], received |-> 0]]
  /\ Finish(r)
  /\ UNCHANGED <<media, bucket, intact, told, counts>>

-----------------------------------------------------------------------------
(* uploadPart.                                                             *)

AskPart(r, u, p) ==
  /\ pc[r] = "free" /\ Held(u) /\ ~IsDone(u, p)
  /\ Goto(r, "claim")
  /\ on' = [on EXCEPT ![r] = u] /\ n' = [n EXCEPT ![r] = p] /\ UNCHANGED etags
  /\ UNCHANGED <<rows, bucket, intact, told, counts>>

\* Is request r still between its claim of part p of u and the row that records it?
AtWork(r, u, p) == on[r] = u /\ n[r] = p /\ pc[r] \in {"put", "record", "release"}

\* claimPart admits a part nobody holds, or a claim older than CLAIM_STALE_SECONDS: its
\* Worker is dead, or slow.
Stale(u, p) == SlowWorkers \/ ~AtWork(Part(u, p).by, u, p)
ClaimableAlways(u, p) == Held(u)
Claimable(u, p) ==
  /\ Held(u)
  /\ \/ Part(u, p).state = "absent"
     \/ Part(u, p).state = "claimed" /\ Stale(u, p)

ClaimPart(r) ==
  /\ pc[r] = "claim"
  /\ IF Claimable(on[r], n[r])
       THEN /\ ups' = [ups EXCEPT ![on[r]].parts[n[r]] = Claim(r)]
            /\ Goto(r, "put") /\ Stay
       ELSE UNCHANGED ups /\ Finish(r)         \* acknowledged, 409 or 404
  /\ UNCHANGED <<media, bucket, intact, told, counts>>

\* R2 replaces a part that is sent again; its earlier etag is no longer valid.
PutPart(r) ==
  LET u == on[r]
  IN /\ pc[r] = "put"
     /\ \/ /\ r2[u].state = "open" /\ r2[u].etags[n[r]] < MaxPuts
           /\ r2' = [r2 EXCEPT ![u].etags[n[r]] = @ + 1]
           /\ etags' = [etags EXCEPT ![r][n[r]] = r2[u].etags[n[r]] + 1]
           /\ Goto(r, "record")
        \/ Goto(r, "release") /\ UNCHANGED <<r2, etags>>     \* closed, or R2 failed
     /\ UNCHANGED <<rows, object, intact, on, n, told, counts>>

ReleaseClaim(r) ==
  /\ pc[r] = "release"
  /\ ups' = IF Mine(r) THEN [ups EXCEPT ![on[r]].parts[n[r]] = Absent] ELSE ups
  /\ Finish(r)
  /\ UNCHANGED <<media, bucket, intact, told, counts>>

MayRecordAnyway(r) == Held(on[r])
\* The etag is recorded only while the claim is still ours.
MayRecord(r) == Mine(r)

RecordPart(r) ==
  /\ pc[r] = "record"
  /\ ups' = IF MayRecord(r)
              THEN [ups EXCEPT ![on[r]].parts[n[r]] = Done(etags[r][n[r]]), ![on[r]].received = @ + 1]
              ELSE ups
  /\ Finish(r)
  /\ UNCHANGED <<media, bucket, intact, told, counts>>

-----------------------------------------------------------------------------
(* uploadAbort, and housekeeping of a row older than 24 h.                 *)

AskAbort(r, u) ==
  /\ Held(u) /\ Start(r, u, "abort")
  /\ UNCHANGED <<rows, bucket, intact, told, counts>>

StopIfGone(u) == IF r2[u].state = "open" THEN "drop" ELSE "free"
\* abortMultipart swallows the error of one that is gone already: the row goes all the same.
AfterAbort(u) == "drop"

DeletesKey(u) == NoUpload
\* Aborting a multipart leaves whatever object the key holds alone.
ObjectAfterAbort(u) == object

Abort(r) ==
  /\ pc[r] = "abort" /\ Goto(r, AfterAbort(on[r]))
  /\ r2' = [r2 EXCEPT ![on[r]].state = IF @ = "open" THEN "aborted" ELSE @]
  /\ object' = ObjectAfterAbort(on[r])
  /\ Stay /\ UNCHANGED <<rows, intact, told, counts>>

DropUpload(r) ==
  /\ pc[r] = "drop"
  /\ ups' = [ups EXCEPT ![on[r]] = NoUpload]
  /\ Finish(r)
  /\ UNCHANGED <<media, bucket, intact, told, counts>>

-----------------------------------------------------------------------------
(* uploadComplete.                                                         *)

AskComplete(r, u) ==
  /\ Held(u) /\ \A p \in Parts : IsDone(u, p)
  /\ ups[u].received = Cardinality(Parts)
  /\ pc[r] = "free" /\ Goto(r, "duplicate")
  /\ on' = [on EXCEPT ![r] = u] /\ UNCHANGED n
  /\ etags' = [etags EXCEPT ![r] = [p \in Parts |-> Part(u, p).etag]]
  /\ UNCHANGED <<rows, bucket, intact, told, counts>>

\* Another upload of the same bytes may have won meanwhile.
CheckDuplicate(r) ==
  /\ pc[r] = "duplicate"
  /\ IF media # NoMedia THEN Goto(r, "abort") /\ told' = TRUE
                        ELSE Goto(r, "batch") /\ UNCHANGED told
  /\ Stay /\ UNCHANGED <<rows, bucket, intact, counts>>

\* One transaction: the media row in, the upload row out.  UNIQUE (owner_id, sha256)
\* catches the same-instant race.
Batch(r) ==
  /\ pc[r] = "batch"
  /\ IF media # NoMedia
       THEN Goto(r, "abort") /\ told' = TRUE /\ UNCHANGED rows
       ELSE /\ Goto(r, "finish") /\ UNCHANGED told
            /\ media' = on[r] /\ ups' = [ups EXCEPT ![on[r]] = NoUpload]
  /\ Stay /\ UNCHANGED <<bucket, intact, counts>>

\* mp.complete(parts): R2 wants an open multipart and, for each part, the etag it holds.
Completable(r) == r2[on[r]] = [state |-> "open", etags |-> etags[r]]

Complete(r) ==
  /\ pc[r] = "finish"
  /\ IF Completable(r)
       THEN /\ r2' = [r2 EXCEPT ![on[r]].state = "completed"]
            /\ object' = on[r] /\ Goto(r, "verify")
       ELSE UNCHANGED bucket /\ Goto(r, "undo")
  /\ Stay /\ UNCHANGED <<rows, intact, told, counts>>

VerifiedUnread(u) == TRUE
\* The digest of the bytes stored at the key is the one the browser declared.
Verified(u) == intact[u]

\* R2 answers complete with the size it stored, then the stored bytes are read back; when a
\* deletion was faster there is nothing to read and the request ends with an exception.
Verify(r) ==
  /\ pc[r] = "verify"
  /\ \/ ~Verified(on[r]) /\ Goto(r, "destroy") /\ Stay            \* wrong size
     \/ object = NoUpload /\ Finish(r)
     \/ object # NoUpload /\ Verified(object) /\ Finish(r)
     \/ object # NoUpload /\ ~Verified(object) /\ Goto(r, "destroy") /\ Stay
  /\ UNCHANGED <<rows, bucket, intact, told, counts>>

Destroy(r) ==
  /\ pc[r] = "destroy" /\ Goto(r, "undo")
  /\ object' = NoUpload
  /\ Stay /\ UNCHANGED <<rows, r2, intact, told, counts>>

\* DELETE FROM media WHERE id = mediaId: our row, nobody else's.
Undo(r) ==
  /\ pc[r] = "undo"
  /\ media' = IF media = on[r] THEN NoMedia ELSE media
  /\ Finish(r)
  /\ UNCHANGED <<ups, bucket, intact, told, counts>>

-----------------------------------------------------------------------------
(* libraryDelete.                                                          *)

AskDelete(r) ==
  /\ deletes < MaxDeletes /\ deletes' = deletes + 1
  /\ media # NoMedia /\ Start(r, media, "erase")
  /\ UNCHANGED <<rows, bucket, intact, told, deaths>>

EraseRow(r) ==
  /\ pc[r] = "erase" /\ Goto(r, "remove")
  /\ media' = IF media = on[r] THEN NoMedia ELSE media
  /\ told' = FALSE
  /\ Stay /\ UNCHANGED <<ups, bucket, intact, counts>>

\* The row is gone whether or not R2 deletes the object.
RemoveObject(r) ==
  /\ pc[r] = "remove"
  /\ object' \in {object, NoUpload}
  /\ Finish(r)
  /\ UNCHANGED <<rows, r2, intact, told, counts>>

-----------------------------------------------------------------------------
WorkerDies(r) ==
  /\ pc[r] # "free" /\ deaths < MaxDeaths /\ deaths' = deaths + 1
  /\ Finish(r)
  /\ UNCHANGED <<rows, bucket, intact, told, deletes>>

Ask(r) ==
  \/ AskInitDuplicate(r) \/ AskDelete(r)
  \/ \E u \in Uploads : AskInit(r, u) \/ AskAbort(r, u) \/ AskComplete(r, u)
  \/ \E u \in Uploads, p \in Parts : AskPart(r, u, p)

Serve(r) ==
  \/ CreateMultipart(r) \/ InsertUpload(r)
  \/ ClaimPart(r) \/ PutPart(r) \/ ReleaseClaim(r) \/ RecordPart(r)
  \/ Abort(r) \/ DropUpload(r)
  \/ CheckDuplicate(r) \/ Batch(r) \/ Complete(r) \/ Verify(r) \/ Destroy(r) \/ Undo(r)
  \/ EraseRow(r) \/ RemoveObject(r)

Next == \E r \in Requests : Ask(r) \/ Serve(r) \/ WorkerDies(r)

Spec == Init /\ [][Next]_vars

\* A Worker finishes what it serves; the daily cron comes back for every row.
FairSpec ==
  /\ Spec
  /\ \A r \in Requests : WF_vars(Serve(r))
  /\ \A u \in Uploads : SF_vars(\E r \in Requests : AskAbort(r, u))

-----------------------------------------------------------------------------
(* Properties.                                                             *)

Entry == [state : {"absent", "claimed", "done"}, by : Requests \cup {Nobody}, etag : 0..MaxPuts]

\* Type correctness of the two tables, the bucket and the requests.
TypeOK ==
  /\ ups \in [Uploads -> [parts : [Parts -> Entry], received : 0..Cardinality(Parts)] \cup {NoUpload}]
  /\ media \in Uploads \cup {NoMedia}
  /\ r2 \in [Uploads -> [state : {"none", "open", "completed", "aborted"}, etags : [Parts -> 0..MaxPuts]]]
  /\ object \in Uploads \cup {NoUpload} /\ intact \in [Uploads -> BOOLEAN]
  /\ pc \in [Requests -> {"free", "create", "insert", "claim", "put", "record", "release", "abort",
                          "drop", "duplicate", "batch", "finish", "verify", "destroy", "undo",
                          "erase", "remove"}]
  /\ on \in [Requests -> Uploads \cup {NoUpload}]
  /\ n \in [Requests -> Parts \cup {0}] /\ etags \in [Requests -> [Parts -> 0..MaxPuts]]
  /\ told \in BOOLEAN /\ deletes \in 0..MaxDeletes /\ deaths \in 0..MaxDeaths

\* "racing PUTs of the same part leave exactly the part R2 holds on file": the etag a row has
\* for a part is the one R2 holds, unless a live Worker's claim was taken over.
EtagsCurrent ==
  \A u \in Uploads : \A p \in Parts :
    (Held(u) /\ IsDone(u, p)) => Part(u, p).etag = r2[u].etags[p]

\* received counts every recorded part once, whoever recorded it and whoever took over whom:
\* uploadComplete compares it with the size.
ReceivedExact ==
  \A u \in Uploads : Held(u) => ups[u].received = Cardinality({p \in Parts : IsDone(u, p)})

Settled == \A r \in Requests : pc[r] = "free"

\* With every request answered and nothing deleted from the library yet, a file in the
\* library has its bytes in R2, whole and verified.
LibraryHasFile ==
  (Settled /\ deaths = 0 /\ deletes = 0) => (media # NoMedia => object # NoUpload /\ intact[object])

\* An object the library shows and no request is about any more is never replaced or
\* removed, but by a deletion from the library.
SettledObjectStays ==
  [][(media # NoMedia /\ object = media /\ \A r \in Requests : on[r] # media) =>
       (object' = object \/ deletes > 0)]_vars

\* Every row of uploads goes in the end: completed, aborted or swept by the daily cron.
UploadsEnd == \A u \in Uploads : Held(u) ~> ~Held(u)

\* uploads.js 261-263 and its test (uploads_media_fixes.test.js 216): a request that is told
\* the file is in the library lost to one that put it there.
DuplicateIsThere == (Settled /\ deaths = 0 /\ told) => media # NoMedia
=============================================================================
