--------------------------- MODULE UploadsProofs ---------------------------
(***************************************************************************)
(* Machine-checked facts about Uploads for any number of requests, uploads *)
(* and parts, deletions and dying Workers.                                 *)
(***************************************************************************)
EXTENDS Uploads, FiniteSetTheorems, TLAPS

-----------------------------------------------------------------------------
(* The inductive invariant.                                                *)

PartSteps == {"claim", "put", "record", "release"}

\* What a request is about: an upload, and a part of it while it serves uploadPart.
Subject ==
  \A r \in Requests :
    /\ pc[r] # "free" => on[r] \in Uploads
    /\ pc[r] \in PartSteps => n[r] \in Parts

\* Nobody else is about an upload whose row is still to be inserted.
Fresh ==
  \A r \in Requests : pc[r] \in {"create", "insert"} =>
    /\ ~Held(on[r]) /\ media # on[r]
    /\ \A q \in Requests \ {r} : on[q] # on[r]

\* Types, subjects and the count of recorded parts.
Sound == TypeOK /\ Subject /\ ReceivedExact

\* A live request between its claim and the row that records it still holds the claim, and
\* the etag it has in hand is the one R2 holds.
ClaimsHeld ==
  \A r \in Requests : (AtWork(r, on[r], n[r]) /\ Held(on[r])) =>
    /\ Mine(r)
    /\ pc[r] = "record" => etags[r][n[r]] = r2[on[r]].etags[n[r]]

Completing == {"finish", "verify", "destroy", "undo"}

\* Until something is deleted from the library: one request at a time is between its row in
\* the library and the verified file, and the row is its own.
OneCompletes ==
  deletes = 0 =>
    \A r \in Requests :
      /\ pc[r] \notin {"erase", "remove"}
      /\ pc[r] \in Completing => media = on[r]
      /\ pc[r] = "verify" => object = on[r]
      /\ \A q \in Requests : pc[q] \in Completing /\ pc[r] \in Completing => q = r

\* Where nobody is any more, and no Worker has died, the file is there.
FileThere ==
  (deletes = 0 /\ deaths = 0 /\ media # NoMedia /\ \A r \in Requests : pc[r] \notin Completing)
    => object # NoUpload /\ intact[object]

-----------------------------------------------------------------------------
(* Types, subjects and the count.                                          *)

Rows == [parts : [Parts -> Entry], received : 0..Cardinality(Parts)]
Multiparts == [state : {"none", "open", "completed", "aborted"}, etags : [Parts -> 0..MaxPuts]]

\* A row that is held, and its entry for a part.
LEMMA HeldTypes ==
  ASSUME TypeOK, NEW u \in Uploads, Held(u)
  PROVE  /\ ups[u] \in Rows
         /\ \A p \in Parts : Part(u, p) \in Entry
BY DEF TypeOK, Held, Part, Rows

LEMMA EntryTypes ==
  /\ Absent \in Entry
  /\ \A r \in Requests : Claim(r) \in Entry
  /\ \A e \in 0..MaxPuts : Done(e) \in Entry
BY UploadsAssumption DEF Absent, Claim, Done, Entry

\* Setting one entry keeps the type of the parts.
LEMMA SetEntry ==
  ASSUME TypeOK, NEW u \in Uploads, Held(u), NEW p \in Parts, NEW e \in Entry
  PROVE  [ups[u].parts EXCEPT ![p] = e] \in [Parts -> Entry]
BY HeldTypes DEF Rows

\* A row with its parts, or its parts and its count, replaced.
AnyRow == [parts : [Parts -> Entry], received : Nat]

LEMMA RowExcept ==
  ASSUME NEW row \in Rows, NEW x \in [Parts -> Entry], NEW m \in Nat
  PROVE  /\ [row EXCEPT !.parts = x] \in AnyRow
         /\ [row EXCEPT !.parts = x].parts = x
         /\ [row EXCEPT !.parts = x].received = row.received
         /\ [row EXCEPT !.parts = x, !.received = m] \in AnyRow
         /\ [row EXCEPT !.parts = x, !.received = m].parts = x
         /\ [row EXCEPT !.parts = x, !.received = m].received = m
<1>1. Cardinality(Parts) \in Nat
  BY UploadsAssumption, FS_CardinalityType
<1>2. row \in AnyRow
  BY <1>1 DEF Rows, AnyRow
<1>3. QED
  BY <1>2 DEF AnyRow

\* The recorded parts of an upload, and how an entry that is not one of them changes them.
Recorded(u) == {p \in Parts : IsDone(u, p)}

LEMMA RecordedCount ==
  ASSUME NEW u
  PROVE  IsFiniteSet(Recorded(u)) /\ Cardinality(Recorded(u)) \in 0..Cardinality(Parts)
BY UploadsAssumption, FS_Subset, FS_CardinalityType DEF Recorded

\* A step that replaces the entry, not recorded before, of part p of u, and the count.
LEMMA EntryStep ==
  ASSUME TypeOK, ReceivedExact, NEW u \in Uploads, Held(u), NEW p \in Parts, ~IsDone(u, p),
         ups'[u] \in AnyRow, ups' = [ups EXCEPT ![u] = ups'[u]],
         \A q \in Parts \ {p} : ups'[u].parts[q] = ups[u].parts[q],
         ups'[u].received = ups[u].received + (IF ups'[u].parts[p].state = "done" THEN 1 ELSE 0)
  PROVE  /\ ups' \in [Uploads -> Rows \cup {NoUpload}]
         /\ ReceivedExact'
<1>1. ups[u] \in Rows /\ ups \in [Uploads -> Rows \cup {NoUpload}]
  BY HeldTypes DEF TypeOK, Rows
<1> DEFINE row == ups'[u]
           k == IF row.parts[p].state = "done" THEN 1 ELSE 0
<1>2. Recorded(u)' = IF k = 1 THEN Recorded(u) \cup {p} ELSE Recorded(u)
  <2>1. \A q \in Parts : IsDone(u, q)' <=> IF q = p THEN k = 1 ELSE IsDone(u, q)
    BY DEF IsDone, Part
  <2>2. QED
    BY <2>1 DEF Recorded
<1>3. p \notin Recorded(u)
  BY DEF Recorded
<1>4. Cardinality(Recorded(u)') = Cardinality(Recorded(u)) + k
  <2>1. IsFiniteSet(Recorded(u)) /\ Cardinality(Recorded(u)) \in Nat
    BY RecordedCount
  <2>2. Cardinality(Recorded(u) \cup {p}) = Cardinality(Recorded(u)) + 1
    BY <2>1, <1>3, FS_AddElement
  <2>3. QED
    BY <2>1, <2>2, <1>2
<1>5. ups[u].received = Cardinality(Recorded(u))
  BY DEF ReceivedExact, Recorded
<1>6. Cardinality(Recorded(u)') \in 0..Cardinality(Parts)
  <2>1. Recorded(u)' \subseteq Parts
    BY DEF Recorded
  <2>2. QED
    BY <2>1, UploadsAssumption, FS_Subset, FS_CardinalityType
<1>7. ups'[u] \in Rows /\ ups'[u].received = Cardinality(Recorded(u)')
  <2>1. row.received = Cardinality(Recorded(u)')
    BY <1>4, <1>5, RecordedCount
  <2>2. QED
    BY <1>1, <1>6, <2>1 DEF Rows, AnyRow
<1>8. \A v \in Uploads \ {u} : ups'[v] = ups[v]
  BY <1>1
<1>9. ReceivedExact'
  <2>1. ASSUME NEW v \in Uploads, Held(v)'
        PROVE  ups'[v].received = Cardinality({q \in Parts : IsDone(v, q)})'
    <3>1. CASE v = u
      BY <3>1, <1>7 DEF Recorded
    <3>2. CASE v # u
      BY <3>2, <1>8, <2>1 DEF ReceivedExact, IsDone, Part, Held
    <3>3. QED
      BY <3>1, <3>2
  <2>2. QED
    BY <2>1 DEF ReceivedExact
<1>10. QED
  BY <1>1, <1>7, <1>9

\* A step that leaves the rows alone, but may remove one of them, keeps the count.
LEMMA RowsKept ==
  ASSUME TypeOK, ReceivedExact, NEW u, ups' = ups \/ ups' = [ups EXCEPT ![u] = NoUpload]
  PROVE  ups' \in [Uploads -> Rows \cup {NoUpload}] /\ ReceivedExact'
<1>1. ups \in [Uploads -> Rows \cup {NoUpload}]
  BY DEF TypeOK, Rows
<1>2. \A v \in Uploads : ups'[v] = ups[v] \/ ups'[v] = NoUpload
  BY <1>1
<1>3. QED
  BY <1>1, <1>2 DEF ReceivedExact, IsDone, Part, Held

\* The steps that write an upload's row.
LEMMA InsertRow ==
  ASSUME Sound, NEW r \in Requests, InsertUpload(r)
  PROVE  ups' \in [Uploads -> Rows \cup {NoUpload}] /\ ReceivedExact'
<1> DEFINE new == [parts |-> [p \in Parts |-> Absent], received |-> 0]
<1>1. on[r] \in Uploads /\ ups \in [Uploads -> Rows \cup {NoUpload}] /\ ups' = [ups EXCEPT ![on[r]] = new]
  BY DEF Sound, Subject, InsertUpload, TypeOK, Rows
<1>2. new \in Rows
  BY EntryTypes, UploadsAssumption, FS_CardinalityType DEF Rows
<1>3. \A v \in Uploads : v # on[r] => ups'[v] = ups[v]
  BY <1>1
<1>4. ups'[on[r]] = new
  BY <1>1
<1>5. ASSUME NEW v \in Uploads, Held(v)'
      PROVE  ups'[v].received = Cardinality({p \in Parts : IsDone(v, p)})'
  <2>1. CASE v = on[r]
    <3>1. {p \in Parts : IsDone(v, p)}' = {}
      BY <2>1, <1>4 DEF IsDone, Part, Absent
    <3>2. QED
      BY <2>1, <3>1, <1>4, FS_EmptySet
  <2>2. CASE v # on[r]
    BY <2>2, <1>3, <1>5 DEF Sound, ReceivedExact, IsDone, Part, Held
  <2>3. QED
    BY <2>1, <2>2
<1>6. QED
  BY <1>1, <1>2, <1>5 DEF ReceivedExact

LEMMA ClaimRow ==
  ASSUME Sound, NEW r \in Requests, ClaimPart(r)
  PROVE  ups' \in [Uploads -> Rows \cup {NoUpload}] /\ ReceivedExact'
<1> DEFINE u == on[r]
           p == n[r]
<1>1. u \in Uploads /\ p \in Parts
  BY DEF Sound, Subject, PartSteps, ClaimPart
<1>2. CASE Claimable(u, p)
  <2>1. Held(u) /\ ups[u] \in Rows /\ ~IsDone(u, p)
    BY <1>1, <1>2, HeldTypes DEF Claimable, IsDone, Sound
  <2> DEFINE x == [ups[u].parts EXCEPT ![p] = Claim(r)]
             row == [ups[u] EXCEPT !.parts = x]
  <2>2. ups' = [ups EXCEPT ![u] = row]
    BY <1>1, <1>2, <2>1 DEF ClaimPart
  <2>3. Claim(r) \in Entry /\ Claim(r).state # "done"
    BY EntryTypes DEF Claim
  <2>4. x \in [Parts -> Entry] /\ ups[u].received \in Nat /\ ups[u].received + 1 \in Nat
    BY <1>1, <2>1, <2>3, SetEntry, UploadsAssumption, FS_CardinalityType DEF Sound, Rows
  <2>5. row \in AnyRow /\ row.parts = x /\ row.received = ups[u].received
    BY <2>1, <2>4, RowExcept
  <2>6. row.parts[p] = Claim(r) /\ \A q \in Parts \ {p} : row.parts[q] = ups[u].parts[q]
    BY <1>1, <2>1, <2>5 DEF Rows
  <2>7. ups'[u] = row /\ ups' = [ups EXCEPT ![u] = ups'[u]]
    BY <1>1, <2>2 DEF Sound, TypeOK
  <2>8. /\ ups'[u] \in AnyRow
        /\ \A q \in Parts \ {p} : ups'[u].parts[q] = ups[u].parts[q]
        /\ ups'[u].received = ups[u].received + (IF ups'[u].parts[p].state = "done" THEN 1 ELSE 0)
    BY <2>3, <2>4, <2>5, <2>6, <2>7
  <2>9. QED
    BY <1>1, <2>1, <2>7, <2>8, EntryStep DEF Sound
<1>3. CASE ~Claimable(u, p)
  BY <1>3, RowsKept DEF ClaimPart, Sound
<1>4. QED
  BY <1>2, <1>3

LEMMA ReleaseRow ==
  ASSUME Sound, NEW r \in Requests, ReleaseClaim(r)
  PROVE  ups' \in [Uploads -> Rows \cup {NoUpload}] /\ ReceivedExact'
<1> DEFINE u == on[r]
           p == n[r]
<1>1. u \in Uploads /\ p \in Parts
  BY DEF Sound, Subject, PartSteps, ReleaseClaim
<1>2. CASE Mine(r)
  <2>1. Held(u) /\ ups[u] \in Rows /\ ~IsDone(u, p)
    BY <1>1, <1>2, HeldTypes DEF Mine, IsDone, Claim, Sound
  <2> DEFINE x == [ups[u].parts EXCEPT ![p] = Absent]
             row == [ups[u] EXCEPT !.parts = x]
  <2>2. ups' = [ups EXCEPT ![u] = row]
    BY <1>1, <1>2, <2>1 DEF ReleaseClaim
  <2>3. Absent \in Entry /\ Absent.state # "done"
    BY EntryTypes DEF Absent
  <2>4. x \in [Parts -> Entry] /\ ups[u].received \in Nat /\ ups[u].received + 1 \in Nat
    BY <1>1, <2>1, <2>3, SetEntry, UploadsAssumption, FS_CardinalityType DEF Sound, Rows
  <2>5. row \in AnyRow /\ row.parts = x /\ row.received = ups[u].received
    BY <2>1, <2>4, RowExcept
  <2>6. row.parts[p] = Absent /\ \A q \in Parts \ {p} : row.parts[q] = ups[u].parts[q]
    BY <1>1, <2>1, <2>5 DEF Rows
  <2>7. ups'[u] = row /\ ups' = [ups EXCEPT ![u] = ups'[u]]
    BY <1>1, <2>2 DEF Sound, TypeOK
  <2>8. /\ ups'[u] \in AnyRow
        /\ \A q \in Parts \ {p} : ups'[u].parts[q] = ups[u].parts[q]
        /\ ups'[u].received = ups[u].received + (IF ups'[u].parts[p].state = "done" THEN 1 ELSE 0)
    BY <2>3, <2>4, <2>5, <2>6, <2>7
  <2>9. QED
    BY <1>1, <2>1, <2>7, <2>8, EntryStep DEF Sound
<1>3. CASE ~Mine(r)
  BY <1>3, RowsKept DEF ReleaseClaim, Sound
<1>4. QED
  BY <1>2, <1>3

LEMMA RecordRow ==
  ASSUME Sound, NEW r \in Requests, RecordPart(r)
  PROVE  ups' \in [Uploads -> Rows \cup {NoUpload}] /\ ReceivedExact'
<1> DEFINE u == on[r]
           p == n[r]
           e == etags[r][p]
<1>1. u \in Uploads /\ p \in Parts /\ e \in 0..MaxPuts
  BY DEF Sound, Subject, PartSteps, RecordPart, TypeOK
<1>2. CASE Mine(r)
  <2>1. Held(u) /\ ups[u] \in Rows /\ ~IsDone(u, p)
    BY <1>1, <1>2, HeldTypes DEF Mine, IsDone, Claim, Sound
  <2> DEFINE x == [ups[u].parts EXCEPT ![p] = Done(e)]
             row == [ups[u] EXCEPT !.parts = x, !.received = ups[u].received + 1]
  <2>2. ups' = [ups EXCEPT ![u] = row]
    BY <1>1, <1>2, <2>1 DEF RecordPart, MayRecord
  <2>3. Done(e) \in Entry /\ Done(e).state = "done"
    BY <1>1, EntryTypes DEF Done
  <2>4. x \in [Parts -> Entry] /\ ups[u].received \in Nat /\ ups[u].received + 1 \in Nat
    BY <1>1, <2>1, <2>3, SetEntry, UploadsAssumption, FS_CardinalityType DEF Sound, Rows
  <2>5. row \in AnyRow /\ row.parts = x /\ row.received = ups[u].received + 1
    <3> DEFINE m == ups[u].received + 1
    <3>1. m \in Nat
      BY <2>4
    <3> HIDE DEF m, x
    <3>2. /\ [ups[u] EXCEPT !.parts = x, !.received = m] \in AnyRow
          /\ [ups[u] EXCEPT !.parts = x, !.received = m].parts = x
          /\ [ups[u] EXCEPT !.parts = x, !.received = m].received = m
      <4>1. ups[u] \in AnyRow
        BY <2>1, <2>4 DEF Rows, AnyRow
      <4> HIDE DEF u
      <4>2. QED
        BY <2>4, <3>1, <4>1 DEF AnyRow
    <3>3. QED
      BY <3>2 DEF m
  <2>6. row.parts[p] = Done(e) /\ \A q \in Parts \ {p} : row.parts[q] = ups[u].parts[q]
    BY <1>1, <2>1, <2>5 DEF Rows
  <2>7. ups'[u] = row /\ ups' = [ups EXCEPT ![u] = ups'[u]]
    BY <1>1, <2>2 DEF Sound, TypeOK
  <2>8. /\ ups'[u] \in AnyRow
        /\ \A q \in Parts \ {p} : ups'[u].parts[q] = ups[u].parts[q]
        /\ ups'[u].received = ups[u].received + (IF ups'[u].parts[p].state = "done" THEN 1 ELSE 0)
    BY <2>3, <2>4, <2>5, <2>6, <2>7
  <2>9. QED
    BY <1>1, <2>1, <2>7, <2>8, EntryStep DEF Sound
<1>3. CASE ~Mine(r)
  BY <1>3, RowsKept DEF RecordPart, MayRecord, Sound
<1>4. QED
  BY <1>2, <1>3

\* What a request does to its own variables.
Steps == {"free", "create", "insert", "claim", "put", "record", "release", "abort", "drop", "duplicate",
          "batch", "finish", "verify", "destroy", "undo", "erase", "remove"}

LocalsOK ==
  /\ pc \in [Requests -> Steps]
  /\ on \in [Requests -> Uploads \cup {NoUpload}]
  /\ n \in [Requests -> Parts \cup {0}] /\ etags \in [Requests -> [Parts -> 0..MaxPuts]]
  /\ Subject

LEMMA LocalsMove ==
  ASSUME LocalsOK, NEW r \in Requests, NEW to \in Steps, Goto(r, to)
  PROVE  /\ (Stay /\ on[r] \in Uploads /\ (to \in PartSteps => n[r] \in Parts)) => LocalsOK'
         /\ \A u \in Uploads : (on' = [on EXCEPT ![r] = u] /\ UNCHANGED <<n, etags>>
                                  /\ to \notin PartSteps) => LocalsOK'
BY DEF LocalsOK, Goto, Stay, Subject, locals

LEMMA LocalsFinish ==
  ASSUME LocalsOK, NEW r \in Requests, Finish(r)
  PROVE  LocalsOK'
BY UploadsAssumption DEF LocalsOK, Finish, Goto, Subject, NoEtags, Steps, PartSteps

LEMMA InitSound == Init => Sound
<1> SUFFICES ASSUME Init PROVE Sound
  OBVIOUS
<1>1. NoEtags \in [Parts -> 0..MaxPuts] /\ 0 \in 0..MaxDeletes /\ 0 \in 0..MaxDeaths
  BY UploadsAssumption DEF NoEtags
<1>2. TypeOK
  BY <1>1 DEF Init, TypeOK
<1>3. Subject /\ ReceivedExact
  BY DEF Init, Subject, PartSteps, ReceivedExact, Held
<1>4. QED
  BY <1>2, <1>3 DEF Sound

TablesOK ==
  /\ media \in Uploads \cup {NoMedia} /\ r2 \in [Uploads -> Multiparts]
  /\ object \in Uploads \cup {NoUpload} /\ intact \in [Uploads -> BOOLEAN]
  /\ told \in BOOLEAN /\ deletes \in 0..MaxDeletes /\ deaths \in 0..MaxDeaths

RowsOK == ups \in [Uploads -> Rows \cup {NoUpload}] /\ ReceivedExact

LEMMA SoundParts == Sound <=> RowsOK /\ TablesOK /\ LocalsOK
BY DEF Sound, RowsOK, TablesOK, LocalsOK, TypeOK, Rows, Multiparts, Steps

LEMMA RowsStep ==
  ASSUME Sound, [Next]_vars
  PROVE  RowsOK'
<1>1. ASSUME NEW r \in Requests, InsertUpload(r) \/ ClaimPart(r) \/ ReleaseClaim(r) \/ RecordPart(r)
      PROVE  RowsOK'
  BY <1>1, InsertRow, ClaimRow, ReleaseRow, RecordRow DEF RowsOK
<1>2. ASSUME NEW u, ups' = ups \/ ups' = [ups EXCEPT ![u] = NoUpload] PROVE RowsOK'
  BY <1>2, RowsKept DEF RowsOK, Sound
<1>3. ASSUME NEW r \in Requests, DropUpload(r) \/ Batch(r) PROVE RowsOK'
  BY <1>2, <1>3 DEF DropUpload, Batch, rows
<1>4. ASSUME ups' = ups PROVE RowsOK'
  BY <1>2, <1>4
<1>5. ASSUME NEW r \in Requests, Ask(r) \/ WorkerDies(r) PROVE RowsOK'
  BY <1>4, <1>5 DEF Ask, AskInitDuplicate, AskDelete, AskInit, AskAbort, AskComplete, AskPart,
     WorkerDies, rows
<1>6. ASSUME NEW r \in Requests, Serve(r) PROVE RowsOK'
  BY <1>1, <1>3, <1>4, <1>6 DEF Serve, CreateMultipart, PutPart, Abort, CheckDuplicate, Complete,
     Verify, Destroy, Undo, EraseRow, RemoveObject, rows
<1>7. QED
  BY <1>4, <1>5, <1>6 DEF Next, vars, rows

LEMMA TablesStep ==
  ASSUME Sound, [Next]_vars
  PROVE  TablesOK'
<1>1. TablesOK /\ LocalsOK /\ MaxDeletes \in Nat /\ MaxDeaths \in Nat /\ MaxPuts \in Nat
  BY SoundParts, UploadsAssumption
<1>2. \A r \in Requests : pc[r] # "free" => on[r] \in Uploads
  BY <1>1 DEF LocalsOK, Subject
<1>3. ASSUME NEW u \in Uploads, NEW s \in {"none", "open", "completed", "aborted"},
             r2' = [r2 EXCEPT ![u].state = s]
      PROVE  r2' \in [Uploads -> Multiparts]
  BY <1>1, <1>3 DEF TablesOK, Multiparts
<1>4. ASSUME NEW r \in Requests, CreateMultipart(r) PROVE TablesOK'
  BY <1>1, <1>2, <1>3, <1>4 DEF CreateMultipart, TablesOK, rows, counts
<1>5. ASSUME NEW r \in Requests, PutPart(r) PROVE TablesOK'
  <2>1. n[r] \in Parts /\ on[r] \in Uploads
    BY <1>1, <1>5 DEF PutPart, LocalsOK, Subject, PartSteps
  <2>2. r2' \in [Uploads -> Multiparts]
    <3> DEFINE k == r2[on[r]].etags[n[r]]
    <3>1. CASE r2' = r2
      BY <1>1, <3>1 DEF TablesOK
    <3>2. CASE k < MaxPuts /\ r2' = [r2 EXCEPT ![on[r]].etags[n[r]] = @ + 1]
      <4>1. k \in 0..MaxPuts /\ k + 1 \in 0..MaxPuts
        BY <1>1, <2>1, <3>2 DEF TablesOK, Multiparts
      <4>2. r2' = [r2 EXCEPT ![on[r]].etags[n[r]] = k + 1]
        BY <1>1, <2>1, <3>2 DEF TablesOK, Multiparts
      <4> HIDE DEF k
      <4>3. QED
        BY <1>1, <2>1, <4>1, <4>2 DEF TablesOK, Multiparts
    <3>3. QED
      BY <1>5, <3>1, <3>2 DEF PutPart
  <2>3. QED
    BY <1>1, <1>5, <2>2 DEF PutPart, TablesOK, rows, counts
<1>6. ASSUME NEW r \in Requests, Abort(r) PROVE TablesOK'
  <2>1. CASE r2[on[r]].state = "open"
    BY <1>1, <1>2, <1>3, <1>6, <2>1 DEF Abort, ObjectAfterAbort, TablesOK, rows, counts
  <2>2. CASE r2[on[r]].state # "open"
    <3>1. r2' = r2
      BY <1>1, <1>2, <1>6, <2>2 DEF Abort, TablesOK, Multiparts
    <3>2. QED
      BY <1>1, <1>6, <3>1 DEF Abort, ObjectAfterAbort, TablesOK, rows, counts
  <2>3. QED
    BY <2>1, <2>2
<1>7. ASSUME NEW r \in Requests, Complete(r) PROVE TablesOK'
  BY <1>1, <1>2, <1>3, <1>7 DEF Complete, TablesOK, rows, bucket, counts
<1>8. ASSUME NEW r \in Requests, CheckDuplicate(r) \/ Batch(r) \/ Undo(r) \/ Destroy(r) \/ EraseRow(r) \/ RemoveObject(r)
      PROVE  TablesOK'
  BY <1>1, <1>2, <1>8 DEF CheckDuplicate, Batch, Undo, Destroy, EraseRow, RemoveObject, TablesOK, rows, bucket, counts
<1>9. ASSUME NEW r \in Requests, AskDelete(r) \/ WorkerDies(r) PROVE TablesOK'
  BY <1>1, <1>9 DEF AskDelete, WorkerDies, TablesOK, rows, bucket
<1>10. ASSUME media' \in {media, NoMedia}, UNCHANGED <<r2, object, intact, counts>>, told' \in BOOLEAN PROVE TablesOK'
  BY <1>1, <1>10 DEF TablesOK, counts
<1>11. ASSUME NEW r \in Requests, InsertUpload(r) \/ ClaimPart(r) \/ ReleaseClaim(r) \/ RecordPart(r) \/ DropUpload(r) \/ Verify(r)
      PROVE  TablesOK'
  BY <1>1, <1>10, <1>11 DEF InsertUpload, ClaimPart, ReleaseClaim, RecordPart, DropUpload, Verify, rows, bucket, TablesOK
<1>12. ASSUME NEW r \in Requests, AskInitDuplicate(r) PROVE TablesOK'
  BY <1>1, <1>10, <1>12 DEF AskInitDuplicate, rows, bucket
<1>13. ASSUME NEW r \in Requests, NEW u \in Uploads, AskInit(r, u) \/ AskAbort(r, u) \/ AskComplete(r, u) PROVE TablesOK'
  BY <1>1, <1>10, <1>13 DEF AskInit, AskAbort, AskComplete, rows, bucket, TablesOK
<1>14. ASSUME NEW r \in Requests, NEW u \in Uploads, NEW p \in Parts, AskPart(r, u, p) PROVE TablesOK'
  BY <1>1, <1>10, <1>14 DEF AskPart, rows, bucket, TablesOK
<1>15. ASSUME UNCHANGED vars PROVE TablesOK'
  BY <1>1, <1>10, <1>15 DEF vars, rows, bucket, TablesOK
<1>16. QED
  BY <1>4, <1>5, <1>6, <1>7, <1>8, <1>9, <1>11, <1>12, <1>13, <1>14, <1>15 DEF Next, Ask, Serve

LEMMA LocalsStep ==
  ASSUME Sound, [Next]_vars
  PROVE  LocalsOK'
<1>1. TablesOK /\ LocalsOK
  BY SoundParts
<1>2. \A r \in Requests : (pc[r] # "free" => on[r] \in Uploads) /\ (pc[r] \in PartSteps => n[r] \in Parts)
  BY <1>1 DEF LocalsOK, Subject
<1>3. ASSUME NEW r \in Requests, NEW to \in Steps, pc[r] # "free", Goto(r, to), Stay,
             to \in PartSteps => pc[r] \in PartSteps
      PROVE  LocalsOK'
  BY <1>1, <1>2, <1>3, LocalsMove
<1>4. ASSUME NEW r \in Requests, Finish(r) PROVE LocalsOK'
  BY <1>1, <1>4, LocalsFinish
<1>5. ASSUME NEW r \in Requests, NEW u \in Uploads, NEW to \in Steps \ PartSteps, Start(r, u, to)
      PROVE  LocalsOK'
  BY <1>1, <1>5, LocalsMove DEF Start
<1>6. ASSUME NEW r \in Requests, NEW u \in Uploads, AskInit(r, u) \/ AskAbort(r, u) PROVE LocalsOK'
  BY <1>5, <1>6 DEF AskInit, AskAbort, Steps, PartSteps
<1>7. ASSUME NEW r \in Requests, AskDelete(r) PROVE LocalsOK'
  <2>1. media \in Uploads
    BY <1>1, <1>7 DEF AskDelete, TablesOK
  <2>2. QED
    BY <1>5, <1>7, <2>1 DEF AskDelete, Steps, PartSteps
<1>8. ASSUME NEW r \in Requests, NEW u \in Uploads, AskComplete(r, u) PROVE LocalsOK'
  <2>1. [p \in Parts |-> Part(u, p).etag] \in [Parts -> 0..MaxPuts]
    BY <1>8, HeldTypes DEF AskComplete, Sound, Entry
  <2>2. QED
    BY <1>1, <1>8, <2>1 DEF AskComplete, LocalsOK, Goto, Subject, Steps, PartSteps
<1>9. ASSUME NEW r \in Requests, NEW u \in Uploads, NEW p \in Parts, AskPart(r, u, p) PROVE LocalsOK'
  BY <1>1, <1>9 DEF AskPart, LocalsOK, Goto, Subject, Steps, PartSteps
<1>10. ASSUME NEW r \in Requests, PutPart(r) PROVE LocalsOK'
  <2>1. n[r] \in Parts /\ on[r] \in Uploads
    BY <1>2, <1>10 DEF PutPart, PartSteps
  <2>2. etags' \in [Requests -> [Parts -> 0..MaxPuts]]
    <3> DEFINE k == r2[on[r]].etags[n[r]]
    <3>1. CASE etags' = etags
      BY <1>1, <3>1 DEF LocalsOK
    <3>2. CASE k < MaxPuts /\ etags' = [etags EXCEPT ![r][n[r]] = k + 1]
      <4>1. k + 1 \in 0..MaxPuts
        BY <1>1, <2>1, <3>2, UploadsAssumption DEF TablesOK, Multiparts
      <4> HIDE DEF k
      <4>2. QED
        BY <1>1, <2>1, <3>2, <4>1 DEF LocalsOK
    <3>3. QED
      BY <1>10, <3>1, <3>2 DEF PutPart
  <2>3. QED
    BY <1>1, <1>10, <2>1, <2>2 DEF PutPart, LocalsOK, Goto, Subject, Steps, PartSteps
<1>11. ASSUME NEW r \in Requests, ClaimPart(r) PROVE LocalsOK'
  BY <1>3, <1>4, <1>11 DEF ClaimPart, Steps, PartSteps
<1>12. ASSUME NEW r \in Requests, InsertUpload(r) \/ ReleaseClaim(r) \/ RecordPart(r) \/ DropUpload(r)
                                   \/ Undo(r) \/ RemoveObject(r) \/ WorkerDies(r)
       PROVE  LocalsOK'
  BY <1>4, <1>12 DEF InsertUpload, ReleaseClaim, RecordPart, DropUpload, Undo, RemoveObject, WorkerDies
<1>13. ASSUME NEW r \in Requests, CreateMultipart(r) \/ Abort(r) \/ CheckDuplicate(r) \/ Batch(r) \/ Complete(r)
                                   \/ Destroy(r) \/ EraseRow(r)
       PROVE  LocalsOK'
  BY <1>3, <1>13 DEF CreateMultipart, Abort, AfterAbort, CheckDuplicate, Batch, Complete, Destroy, EraseRow,
     Steps, PartSteps
<1>14. ASSUME NEW r \in Requests, Verify(r) PROVE LocalsOK'
  BY <1>3, <1>4, <1>14 DEF Verify, Steps, PartSteps
<1>15. ASSUME UNCHANGED <<pc, locals>> PROVE LocalsOK'
  BY <1>1, <1>15 DEF LocalsOK, Subject, locals
<1>16. QED
  BY <1>6, <1>7, <1>8, <1>9, <1>10, <1>11, <1>12, <1>13, <1>14, <1>15
     DEF Next, Ask, Serve, AskInitDuplicate, vars

LEMMA SoundStep == Sound /\ [Next]_vars => Sound'
<1> SUFFICES ASSUME Sound, [Next]_vars PROVE Sound'
  OBVIOUS
<1>1. RowsOK' /\ TablesOK' /\ LocalsOK'
  BY RowsStep, TablesStep, LocalsStep
<1>2. QED
  BY <1>1 DEF Sound, RowsOK, TablesOK, LocalsOK, TypeOK, Rows, Multiparts, Steps

\* Type correctness of the tables, the bucket and the requests.
THEOREM TypeCorrect == Spec => []TypeOK
<1>1. Sound => TypeOK
  BY DEF Sound
<1>2. QED
  BY <1>1, InitSound, SoundStep, PTL DEF Spec

\* uploadComplete may compare received with the size: it counts every recorded part once,
\* also with Workers so slow that their claims are taken over, with aborts, deletions and
\* Workers that die.
THEOREM EveryPartCounted == Spec => []ReceivedExact
<1>1. Sound => ReceivedExact
  BY DEF Sound
<1>2. QED
  BY <1>1, InitSound, SoundStep, PTL DEF Spec

-----------------------------------------------------------------------------
(* Claims and etags.                                                       *)

\* What a step of request q does to anything another request looks at.
StepOf(q) == Ask(q) \/ Serve(q) \/ WorkerDies(q)

LEMMA OthersKept ==
  ASSUME Sound, NEW q \in Requests, StepOf(q), NEW r \in Requests \ {q}
  PROVE  pc'[r] = pc[r] /\ on'[r] = on[r] /\ n'[r] = n[r] /\ etags'[r] = etags[r]
<1>1. Goto(q, "free") \/ \E to \in Steps : Goto(q, to) \/ pc' = pc
  BY DEF StepOf, Ask, AskInitDuplicate, AskDelete, AskInit, AskAbort, AskComplete, AskPart, Start,
     Serve, CreateMultipart, InsertUpload, ClaimPart, PutPart, ReleaseClaim, RecordPart, Abort,
     AfterAbort, DropUpload, CheckDuplicate, Batch, Complete, Verify, Destroy, Undo, EraseRow,
     RemoveObject, WorkerDies, Finish, Steps
<1>2. /\ on' = on \/ \E u : on' = [on EXCEPT ![q] = u]
      /\ n' = n \/ \E p : n' = [n EXCEPT ![q] = p]
  BY DEF StepOf, Ask, AskInitDuplicate, AskDelete, AskInit, AskAbort, AskComplete, AskPart, Start,
     Serve, CreateMultipart, InsertUpload, ClaimPart, PutPart, ReleaseClaim, RecordPart, Abort,
     DropUpload, CheckDuplicate, Batch, Complete, Verify, Destroy, Undo, EraseRow,
     RemoveObject, WorkerDies, Finish, Stay, locals
<1>3. etags' = etags \/ \E e : etags' = [etags EXCEPT ![q] = e]
  BY DEF StepOf, Ask, AskInitDuplicate, AskDelete, AskInit, AskAbort, AskComplete, AskPart, Start,
     Serve, CreateMultipart, InsertUpload, ClaimPart, PutPart, ReleaseClaim, RecordPart, Abort,
     DropUpload, CheckDuplicate, Batch, Complete, Verify, Destroy, Undo, EraseRow,
     RemoveObject, WorkerDies, Finish, Stay, locals
<1>4. pc \in [Requests -> Steps] /\ on \in [Requests -> Uploads \cup {NoUpload}]
      /\ n \in [Requests -> Parts \cup {0}] /\ etags \in [Requests -> [Parts -> 0..MaxPuts]]
  BY SoundParts DEF LocalsOK
<1>5. QED
  BY <1>1, <1>2, <1>3, <1>4 DEF Goto

\* Which upload a request turns to.
LEMMA SubjectChange ==
  ASSUME Sound, NEW q \in Requests, StepOf(q)
  PROVE  \/ on'[q] \in {on[q], NoUpload} /\ (pc'[q] = "create" => FALSE)
                                         /\ (pc'[q] = "insert" => pc[q] = "create" /\ on'[q] = on[q])
         \/ on'[q] \in Uploads /\ (Held(on'[q]) \/ media = on'[q]) /\ pc'[q] \notin {"create", "insert"}
         \/ \E u \in Uploads : AskInit(q, u) /\ on'[q] = u
<1>1. pc \in [Requests -> Steps] /\ on \in [Requests -> Uploads \cup {NoUpload}] /\ TablesOK
  BY SoundParts DEF LocalsOK
<1> DEFINE A == on'[q] \in {on[q], NoUpload} /\ (pc'[q] = "create" => FALSE)
                                             /\ (pc'[q] = "insert" => pc[q] = "create" /\ on'[q] = on[q])
<1>2. ASSUME Finish(q) PROVE A
  BY <1>1, <1>2 DEF Finish, Goto
<1>3. ASSUME NEW to \in Steps \ {"create", "insert"}, Goto(q, to), Stay PROVE A
  BY <1>1, <1>3 DEF Goto, Stay, locals
<1>4. ASSUME InsertUpload(q) \/ ReleaseClaim(q) \/ RecordPart(q) \/ DropUpload(q) \/ Undo(q) \/ RemoveObject(q) \/ WorkerDies(q)
      PROVE  A
  BY <1>2, <1>4 DEF InsertUpload, ReleaseClaim, RecordPart, DropUpload, Undo, RemoveObject, WorkerDies
<1>5. ASSUME Abort(q) \/ CheckDuplicate(q) \/ Batch(q) \/ Complete(q) \/ Destroy(q) \/ EraseRow(q) PROVE A
  BY <1>3, <1>5 DEF Abort, AfterAbort, CheckDuplicate, Batch, Complete, Destroy, EraseRow, Steps
<1>6. ASSUME Verify(q) \/ ClaimPart(q) PROVE A
  BY <1>2, <1>3, <1>6 DEF Verify, ClaimPart, Steps
<1>7. ASSUME PutPart(q) PROVE A
  BY <1>1, <1>7 DEF PutPart, Goto
<1>8. ASSUME CreateMultipart(q) PROVE A
  BY <1>1, <1>8 DEF CreateMultipart, Goto, Stay, locals
<1>9. ASSUME AskInitDuplicate(q) PROVE A
  BY <1>1, <1>9 DEF AskInitDuplicate, locals
<1>10. ASSUME AskDelete(q)
       PROVE  on'[q] \in Uploads /\ media = on'[q] /\ pc'[q] \notin {"create", "insert"}
  BY <1>1, <1>10 DEF AskDelete, Start, Goto, TablesOK
<1>11. ASSUME NEW u \in Uploads, AskAbort(q, u) \/ AskComplete(q, u) \/ \E p \in Parts : AskPart(q, u, p)
       PROVE  on'[q] \in Uploads /\ Held(on'[q]) /\ pc'[q] \notin {"create", "insert"}
  BY <1>1, <1>11 DEF AskAbort, AskComplete, AskPart, Start, Goto
<1>12. ASSUME NEW u \in Uploads, AskInit(q, u) PROVE on'[q] = u
  BY <1>1, <1>12 DEF AskInit, Start
<1>13. QED
  BY <1>4, <1>5, <1>6, <1>7, <1>8, <1>9, <1>10, <1>11, <1>12 DEF StepOf, Ask, Serve

\* Only the INSERT brings a row of uploads, only the batch one of media.
LEMMA RowChange ==
  ASSUME Sound, NEW q \in Requests, StepOf(q)
  PROVE  /\ \A v \in Uploads : Held(v)' => Held(v) \/ (InsertUpload(q) /\ v = on[q])
         /\ media' \in {media, NoMedia} \/ (Batch(q) /\ media' = on[q])
<1>1. ups \in [Uploads -> Rows \cup {NoUpload}]
  BY DEF Sound, TypeOK, Rows
<1>2. ASSUME ups' = ups \/ \E u : ups' = [ups EXCEPT ![u] = NoUpload], NEW v \in Uploads, Held(v)' PROVE Held(v)
  BY <1>1, <1>2 DEF Held
<1>3. ASSUME ClaimPart(q) \/ ReleaseClaim(q) \/ RecordPart(q), NEW v \in Uploads, Held(v)' PROVE Held(v)
  <2>1. ups' = ups \/ \E row : Held(on[q]) /\ ups' = [ups EXCEPT ![on[q]] = row]
    BY <1>3 DEF ClaimPart, Claimable, ReleaseClaim, RecordPart, MayRecord, Mine
  <2>2. QED
    BY <1>1, <1>3, <2>1 DEF Held
<1>4. ASSUME InsertUpload(q), NEW v \in Uploads, Held(v)' PROVE Held(v) \/ v = on[q]
  BY <1>1, <1>4 DEF InsertUpload, Held
<1>5. ASSUME NEW v \in Uploads, Held(v)' PROVE Held(v) \/ (InsertUpload(q) /\ v = on[q])
  BY <1>2, <1>3, <1>4, <1>5 DEF StepOf, Ask, AskInitDuplicate, AskDelete, AskInit, AskAbort, AskComplete,
     AskPart, Serve, CreateMultipart, PutPart, Abort, DropUpload, CheckDuplicate, Batch, Complete, Verify,
     Destroy, Undo, EraseRow, RemoveObject, WorkerDies, rows
<1>6. media' \in {media, NoMedia} \/ (Batch(q) /\ media' = on[q])
  BY DEF StepOf, Ask, AskInitDuplicate, AskDelete, AskInit, AskAbort, AskComplete,
     AskPart, Serve, CreateMultipart, InsertUpload, ClaimPart, PutPart, ReleaseClaim, RecordPart, Abort,
     DropUpload, CheckDuplicate, Batch, Complete, Verify, Destroy, Undo, EraseRow, RemoveObject, WorkerDies, rows
<1>7. QED
  BY <1>5, <1>6

LEMMA FreshStep == Sound /\ Fresh /\ [Next]_vars => Fresh'
<1> SUFFICES ASSUME Sound, Fresh, [Next]_vars,
                    NEW r \in Requests, pc'[r] \in {"create", "insert"}
             PROVE  /\ ~Held(on[r])' /\ media' # on'[r]
                    /\ \A s \in Requests \ {r} : on'[s] # on'[r]
  BY DEF Fresh
<1>1. CASE UNCHANGED vars
  BY <1>1 DEF vars, Fresh, Held, rows, locals
<1>2. ASSUME NEW q \in Requests, StepOf(q)
      PROVE  /\ ~Held(on[r])' /\ media' # on'[r]
             /\ \A s \in Requests \ {r} : on'[s] # on'[r]
  <2>1. CASE \E u \in Uploads : AskInit(q, u) /\ on'[q] = u
    <3>1. PICK u \in Uploads : AskInit(q, u) /\ on'[q] = u
      BY <2>1
    <3>2. UNCHANGED rows /\ media = NoMedia /\ ~Held(u) /\ \A s \in Requests : on[s] # u
      BY <3>1 DEF AskInit, Unused
    <3>3. CASE r = q
      BY <1>2, <3>1, <3>2, <3>3, OthersKept, UploadsAssumption DEF rows, Held
    <3>4. CASE r # q
      <4>1. pc[r] \in {"create", "insert"} /\ on'[r] = on[r]
        BY <1>2, <3>4, OthersKept
      <4>2. QED
        BY <1>2, <3>1, <3>2, <4>1, OthersKept DEF rows, Held, Fresh
    <3>5. QED
      BY <3>3, <3>4
  <2>2. CASE ~\E u \in Uploads : AskInit(q, u) /\ on'[q] = u
    <3>1. /\ pc[r] \in {"create", "insert"} /\ on'[r] = on[r]
          /\ q = r => pc[q] = "create"
      BY <1>2, <2>2, OthersKept, SubjectChange
    <3>2. on[r] \in Uploads /\ ~Held(on[r]) /\ media # on[r]
      BY <3>1 DEF Sound, Subject, Fresh
    <3>3. ~Held(on[r])'
      <4>1. ~InsertUpload(q) \/ on[q] # on[r]
        BY <3>1 DEF InsertUpload, Fresh
      <4>2. QED
        BY <1>2, <3>1, <3>2, <4>1, RowChange DEF Held
    <3>4. media' # on'[r]
      <4>1. Batch(q) => on[q] # on[r]
        BY <3>1 DEF Batch, Fresh
      <4>2. QED
        BY <1>2, <3>1, <3>2, <4>1, RowChange, UploadsAssumption
    <3>5. ASSUME NEW s \in Requests \ {r} PROVE on'[s] # on'[r]
      <4>1. CASE s = q
        BY <1>2, <2>2, <3>1, <3>2, <4>1, SubjectChange, UploadsAssumption DEF Fresh
      <4>2. CASE s # q
        BY <1>2, <3>1, <4>2, OthersKept DEF Fresh
      <4>3. QED
        BY <4>1, <4>2
    <3>6. QED
      BY <3>3, <3>4, <3>5
  <2>3. QED
    BY <2>1, <2>2
<1>3. QED
  BY <1>1, <1>2 DEF Next, StepOf

\* Which steps change the entry of a part whose row stays, and the etag R2 holds for it.
LEMMA PartChange ==
  ASSUME Sound, NEW q \in Requests, StepOf(q), NEW u \in Uploads, NEW p \in Parts, Held(u), Held(u)'
  PROVE  \/ Part(u, p)' = Part(u, p)
         \/ InsertUpload(q) /\ u = on[q]
         \/ /\ u = on[q] /\ p = n[q]
            /\ \/ ClaimPart(q) /\ Claimable(u, p) /\ Part(u, p)' = Claim(q)
               \/ ReleaseClaim(q) /\ Mine(q) /\ Part(u, p)' = Absent
               \/ RecordPart(q) /\ Mine(q) /\ Part(u, p)' = Done(etags[q][p])
<1>1. ups \in [Uploads -> Rows \cup {NoUpload}] /\ ups[u] \in Rows
  BY HeldTypes DEF Sound, TypeOK, Rows
<1>2. ASSUME ups' = ups \/ \E v : ups' = [ups EXCEPT ![v] = NoUpload] PROVE Part(u, p)' = Part(u, p)
  BY <1>1, <1>2 DEF Held, Part
<1> DEFINE Changed(e) == u = on[q] /\ p = n[q] /\ Part(u, p)' = e
<1>3. ASSUME NEW e, \/ ups' = [ups EXCEPT ![on[q]].parts[n[q]] = e]
                    \/ \E m : ups' = [ups EXCEPT ![on[q]].parts[n[q]] = e, ![on[q]].received = m]
      PROVE  Part(u, p)' = Part(u, p) \/ Changed(e)
  <2> DEFINE x == [ups[u].parts EXCEPT ![n[q]] = e]
  <2>1. CASE on[q] = u
    <3>1. ups'[u].parts = x
      <4>1. CASE ups' = [ups EXCEPT ![on[q]].parts[n[q]] = e]
        BY <1>1, <2>1, <4>1 DEF Rows
      <4>2. ASSUME NEW m, ups' = [ups EXCEPT ![on[q]].parts[n[q]] = e, ![on[q]].received = m]
            PROVE  ups'[u].parts = x
        <5>1. ups'[u] = [[ups[u] EXCEPT !.parts = x] EXCEPT !.received = m]
          BY <1>1, <2>1, <4>2
        <5> HIDE DEF x
        <5>2. QED
          BY <1>1, <5>1 DEF Rows
      <4>3. QED
        BY <1>3, <4>1, <4>2
    <3>2. ups[u].parts \in [Parts -> Entry]
      BY <1>1 DEF Rows
    <3>3. QED
      BY <2>1, <3>1, <3>2 DEF Part
  <2>2. CASE on[q] # u
    BY <1>1, <1>3, <2>2 DEF Part
  <2>3. QED
    BY <2>1, <2>2
<1>4. ASSUME ClaimPart(q) PROVE Part(u, p)' = Part(u, p) \/ (Claimable(u, p) /\ Changed(Claim(q)))
  BY <1>2, <1>3, <1>4 DEF ClaimPart
<1>5. ASSUME ReleaseClaim(q) PROVE Part(u, p)' = Part(u, p) \/ (Mine(q) /\ Changed(Absent))
  BY <1>2, <1>3, <1>5 DEF ReleaseClaim
<1>6. ASSUME RecordPart(q) PROVE Part(u, p)' = Part(u, p) \/ (Mine(q) /\ Changed(Done(etags[q][p])))
  <2>1. CASE Mine(q)
    <3>1. \E m : ups' = [ups EXCEPT ![on[q]].parts[n[q]] = Done(etags[q][n[q]]), ![on[q]].received = m]
      BY <1>6, <2>1 DEF RecordPart, MayRecord
    <3>2. QED
      BY <1>3, <2>1, <3>1
  <2>2. CASE ~Mine(q)
    BY <1>2, <1>6, <2>2 DEF RecordPart, MayRecord
  <2>3. QED
    BY <2>1, <2>2
<1>7. ASSUME InsertUpload(q) PROVE Part(u, p)' = Part(u, p) \/ u = on[q]
  BY <1>1, <1>7 DEF InsertUpload, Part
<1>8. QED
  BY <1>2, <1>4, <1>5, <1>6, <1>7 DEF StepOf, Ask, AskInitDuplicate, AskDelete, AskInit, AskAbort,
     AskComplete, AskPart, Serve, CreateMultipart, PutPart, Abort, DropUpload, CheckDuplicate, Batch,
     Complete, Verify, Destroy, Undo, EraseRow, RemoveObject, WorkerDies, rows

LEMMA EtagChange ==
  ASSUME Sound, NEW q \in Requests, StepOf(q), NEW u \in Uploads, NEW p \in Parts
  PROVE  \/ r2'[u].etags[p] = r2[u].etags[p]
         \/ /\ PutPart(q) /\ u = on[q] /\ p = n[q] /\ pc'[q] = "record"
            /\ r2'[u].etags[p] = etags'[q][p]
<1>1. r2 \in [Uploads -> Multiparts] /\ etags \in [Requests -> [Parts -> 0..MaxPuts]] /\ pc \in [Requests -> Steps]
  BY SoundParts DEF TablesOK, LocalsOK
<1>2. ASSUME NEW v, NEW x, r2' = r2 \/ r2' = [r2 EXCEPT ![v].state = x] PROVE r2'[u].etags[p] = r2[u].etags[p]
  BY <1>1, <1>2 DEF Multiparts
<1>3. ASSUME PutPart(q), r2' # r2
      PROVE  \/ r2'[u].etags[p] = r2[u].etags[p]
             \/ u = on[q] /\ p = n[q] /\ pc'[q] = "record" /\ r2'[u].etags[p] = etags'[q][p]
  <2> DEFINE k == r2[on[q]].etags[n[q]]
  <2>1. on[q] \in Uploads /\ n[q] \in Parts
    BY <1>3 DEF PutPart, Sound, Subject, PartSteps
  <2>2. r2' = [r2 EXCEPT ![on[q]].etags[n[q]] = k + 1] /\ etags' = [etags EXCEPT ![q][n[q]] = k + 1] /\ pc'[q] = "record"
    BY <1>1, <1>3, <2>1 DEF PutPart, Goto, Multiparts
  <2> HIDE DEF k
  <2>3. etags'[q][n[q]] = k + 1 /\ r2'[on[q]].etags[n[q]] = k + 1
    BY <1>1, <2>1, <2>2 DEF Multiparts
  <2>4. CASE u = on[q] /\ p = n[q]
    BY <2>2, <2>3, <2>4
  <2>5. CASE u # on[q] \/ p # n[q]
    BY <1>1, <2>1, <2>2, <2>5 DEF Multiparts
  <2>6. QED
    BY <2>4, <2>5
<1>4. ASSUME Abort(q) PROVE r2'[u].etags[p] = r2[u].etags[p]
  <2>1. \E x : r2' = [r2 EXCEPT ![on[q]].state = x]
    BY <1>4 DEF Abort
  <2>2. QED
    BY <1>2, <2>1
<1>5. QED
  BY <1>2, <1>3, <1>4 DEF StepOf, Ask, AskInitDuplicate, AskDelete, AskInit, AskAbort,
     AskComplete, AskPart, Serve, CreateMultipart, InsertUpload, ClaimPart, ReleaseClaim, RecordPart, PutPart,
     DropUpload, CheckDuplicate, Batch, Complete, Verify, Destroy, Undo, EraseRow, RemoveObject, WorkerDies, bucket

\* How a request comes to the steps between a claim and its row.
LEMMA WorkSteps ==
  ASSUME Sound, NEW q \in Requests, StepOf(q), pc'[q] \in {"put", "record", "release"}
  PROVE  /\ on'[q] = on[q] /\ n'[q] = n[q]
         /\ \/ ClaimPart(q) /\ Claimable(on[q], n[q]) /\ pc'[q] = "put"
            \/ PutPart(q) /\ pc'[q] \in {"record", "release"}
            \/ UNCHANGED <<rows, bucket, pc, etags>>
<1>1. pc \in [Requests -> Steps]
  BY SoundParts DEF LocalsOK
<1>2. ASSUME Finish(q) PROVE FALSE
  BY <1>1, <1>2 DEF Finish, Goto
<1>3. ASSUME NEW to \in Steps \ {"put", "record", "release"}, Goto(q, to) PROVE FALSE
  BY <1>1, <1>3 DEF Goto
<1>4. ASSUME ClaimPart(q)
      PROVE  on'[q] = on[q] /\ n'[q] = n[q] /\ Claimable(on[q], n[q]) /\ pc'[q] = "put"
  BY <1>1, <1>2, <1>4 DEF ClaimPart, Goto, Stay, locals
<1>5. ASSUME PutPart(q) PROVE on'[q] = on[q] /\ n'[q] = n[q] /\ pc'[q] \in {"record", "release"}
  BY <1>1, <1>5 DEF PutPart, Goto
<1>6. ASSUME InsertUpload(q) \/ ReleaseClaim(q) \/ RecordPart(q) \/ DropUpload(q) \/ Undo(q) \/ RemoveObject(q) \/ WorkerDies(q)
      PROVE  FALSE
  BY <1>2, <1>6 DEF InsertUpload, ReleaseClaim, RecordPart, DropUpload, Undo, RemoveObject, WorkerDies
<1>7. ASSUME CreateMultipart(q) \/ Abort(q) \/ CheckDuplicate(q) \/ Batch(q) \/ Complete(q) \/ Destroy(q) \/ EraseRow(q) \/ Verify(q)
      PROVE  FALSE
  BY <1>2, <1>3, <1>7 DEF CreateMultipart, Abort, AfterAbort, CheckDuplicate, Batch, Complete, Destroy, EraseRow, Verify, Steps
<1>8. ASSUME AskDelete(q) \/ \E u \in Uploads : \/ AskInit(q, u) \/ AskAbort(q, u) \/ AskComplete(q, u)
                                                \/ \E p \in Parts : AskPart(q, u, p)
      PROVE  FALSE
  BY <1>3, <1>8 DEF AskDelete, AskInit, AskAbort, AskComplete, AskPart, Start, Steps
<1>9. ASSUME AskInitDuplicate(q)
      PROVE  on'[q] = on[q] /\ n'[q] = n[q] /\ UNCHANGED <<rows, bucket, pc, etags>>
  BY <1>9 DEF AskInitDuplicate, locals
<1>10. QED
  BY <1>4, <1>5, <1>6, <1>7, <1>8, <1>9 DEF StepOf, Ask, Serve

LEMMA ClaimsStep ==
  ASSUME SlowWorkers = FALSE, Sound, Fresh, ClaimsHeld, [Next]_vars
  PROVE  ClaimsHeld'
<1> SUFFICES ASSUME NEW r \in Requests, AtWork(r, on[r], n[r])', Held(on[r])'
             PROVE  /\ Mine(r)'
                    /\ pc'[r] = "record" => etags'[r][n'[r]] = r2'[on'[r]].etags[n'[r]]
  BY DEF ClaimsHeld
<1>1. CASE UNCHANGED vars
  BY <1>1 DEF vars, rows, bucket, locals, AtWork, Held, Mine, Part, ClaimsHeld
<1>2. ASSUME NEW q \in Requests, StepOf(q)
      PROVE  /\ Mine(r)'
             /\ pc'[r] = "record" => etags'[r][n'[r]] = r2'[on'[r]].etags[n'[r]]
  <2>1. CASE r = q
    <3>1. pc'[q] \in {"put", "record", "release"}
      BY <2>1 DEF AtWork
    <3>2. on'[q] = on[q] /\ n'[q] = n[q]
      BY <1>2, <3>1, WorkSteps
    <3>3. CASE ClaimPart(q) /\ Claimable(on[q], n[q]) /\ pc'[q] = "put"
      <4>1. on[q] \in Uploads /\ n[q] \in Parts /\ ups[on[q]] \in Rows /\ ups \in [Uploads -> Rows \cup {NoUpload}]
        BY <3>3, HeldTypes DEF ClaimPart, Claimable, Sound, Subject, PartSteps, TypeOK, Rows
      <4>2. ups' = [ups EXCEPT ![on[q]].parts[n[q]] = Claim(q)]
        BY <3>3 DEF ClaimPart
      <4>3. Part(on[q], n[q])' = Claim(q)
        BY <3>2, <4>1, <4>2 DEF Part, Rows
      <4>4. QED
        BY <2>1, <3>2, <3>3, <4>3 DEF Mine, Part
    <3>4. CASE PutPart(q)
      <4>1. on[q] \in Uploads /\ n[q] \in Parts
        BY <3>4 DEF PutPart, Sound, Subject, PartSteps
      <4>2. UNCHANGED rows /\ Mine(q)
        BY <2>1, <3>2, <3>4 DEF PutPart, ClaimsHeld, AtWork, Held, rows
      <4>3. Mine(q)'
        BY <3>2, <4>2 DEF Mine, Held, Part, rows
      <4>4. pc'[q] = "record" => etags'[q][n[q]] = r2'[on[q]].etags[n[q]]
        <5>1. r2 \in [Uploads -> Multiparts] /\ etags \in [Requests -> [Parts -> 0..MaxPuts]] /\ pc \in [Requests -> Steps]
          BY SoundParts DEF TablesOK, LocalsOK
        <5> DEFINE k == r2[on[q]].etags[n[q]]
        <5>2. pc'[q] = "record" => r2' = [r2 EXCEPT ![on[q]].etags[n[q]] = k + 1] /\ etags' = [etags EXCEPT ![q][n[q]] = k + 1]
          BY <3>4, <4>1, <5>1 DEF PutPart, Goto, Multiparts
        <5> HIDE DEF k
        <5>3. QED
          BY <4>1, <5>1, <5>2 DEF Multiparts
      <4>5. QED
        BY <2>1, <3>2, <4>3, <4>4
    <3>5. CASE UNCHANGED <<rows, bucket, pc, etags>>
      BY <2>1, <3>2, <3>5 DEF rows, bucket, ClaimsHeld, AtWork, Held, Mine, Part
    <3>6. QED
      BY <1>2, <3>1, <3>3, <3>4, <3>5, WorkSteps
  <2>2. CASE r # q
    <3>0. pc'[r] = pc[r] /\ on'[r] = on[r] /\ n'[r] = n[r] /\ etags'[r] = etags[r]
      BY <1>2, <2>2, OthersKept
    <3>a. on[r] \in Uploads /\ n[r] \in Parts
      BY <3>0 DEF AtWork, Sound, Subject, PartSteps
    <3>b. PICK u \in Uploads, p \in Parts : u = on[r] /\ p = n[r]
      BY <3>a
    <3>1. on[r] = u /\ n[r] = p /\ pc'[r] = pc[r] /\ on'[r] = u /\ n'[r] = p /\ etags'[r] = etags[r]
      BY <3>0, <3>b
    <3>2. AtWork(r, u, p)
      BY <3>1 DEF AtWork
    <3>3. ~(InsertUpload(q) /\ u = on[q])
      BY <2>2, <3>1 DEF InsertUpload, Fresh
    <3>4. Held(u) /\ Held(u)'
      BY <1>2, <3>1, <3>2, <3>3, RowChange DEF Held
    <3>5. Mine(r) /\ Part(u, p) = Claim(r)
      BY <3>1, <3>2, <3>4 DEF ClaimsHeld, Mine
    <3>6. ~Claimable(u, p)
      BY <3>2, <3>5 DEF Claimable, Stale, Claim
    <3>7. Part(u, p)' = Part(u, p)
      <4>1. Claim(q) # Claim(r)
        BY <2>2 DEF Claim
      <4>2. ~(u = on[q] /\ p = n[q] /\ Mine(q))
        BY <3>5, <4>1 DEF Mine
      <4>3. QED
        BY <1>2, <3>3, <3>4, <3>6, <4>2, PartChange
    <3>8. Mine(r)'
      BY <3>1, <3>4, <3>5, <3>7 DEF Mine, Part, Held
    <3>9. ASSUME pc'[r] = "record" PROVE etags'[r][p] = r2'[u].etags[p]
      <4>1. etags[r][p] = r2[u].etags[p]
        BY <3>1, <3>2, <3>4, <3>9 DEF ClaimsHeld
      <4>2. ~(PutPart(q) /\ u = on[q] /\ p = n[q])
        <5>1. ASSUME PutPart(q), u = on[q], p = n[q] PROVE FALSE
          <6>1. AtWork(q, u, p)
            BY <5>1 DEF PutPart, AtWork
          <6>2. Mine(q)
            BY <5>1, <6>1, <3>4 DEF ClaimsHeld
          <6>3. QED
            BY <2>2, <3>5, <5>1, <6>2 DEF Mine, Claim
        <5>2. QED
          BY <5>1
      <4>3. QED
        BY <1>2, <3>1, <3>2, <4>1, <4>2, EtagChange
    <3>10. QED
      BY <3>1, <3>8, <3>9
  <2>3. QED
    BY <2>1, <2>2
<1>3. QED
  BY <1>1, <1>2 DEF Next, StepOf

LEMMA EtagsStep ==
  ASSUME SlowWorkers = FALSE, Sound, Fresh, ClaimsHeld, EtagsCurrent, [Next]_vars
  PROVE  EtagsCurrent'
<1> SUFFICES ASSUME NEW u \in Uploads, NEW p \in Parts, Held(u)', IsDone(u, p)'
             PROVE  Part(u, p)'.etag = r2'[u].etags[p]
  BY DEF EtagsCurrent
<1>1. CASE UNCHANGED vars
  BY <1>1 DEF vars, rows, bucket, Held, IsDone, Part, EtagsCurrent
<1>2. ASSUME NEW q \in Requests, StepOf(q) PROVE Part(u, p)'.etag = r2'[u].etags[p]
  <2>1. CASE InsertUpload(q) /\ u = on[q]
    <3>1. Part(u, p)' = Absent
      <4>1. ups \in [Uploads -> Rows \cup {NoUpload}]
        BY DEF Sound, TypeOK, Rows
      <4>2. QED
        BY <2>1, <4>1 DEF InsertUpload, Part
    <3>2. QED
      BY <3>1 DEF IsDone, Absent
  <2>2. CASE ~(InsertUpload(q) /\ u = on[q])
    <3>1. Held(u)
      BY <1>2, <2>2, RowChange
    <3>2. CASE Part(u, p)' = Part(u, p)
      <4>1. IsDone(u, p) /\ Part(u, p).etag = r2[u].etags[p]
        BY <3>1, <3>2 DEF IsDone, EtagsCurrent
      <4>2. ~(PutPart(q) /\ u = on[q] /\ p = n[q])
        <5>1. ASSUME PutPart(q), u = on[q], p = n[q] PROVE FALSE
          <6>1. AtWork(q, u, p)
            BY <5>1 DEF PutPart, AtWork
          <6>2. Mine(q)
            BY <5>1, <6>1, <3>1 DEF ClaimsHeld
          <6>3. QED
            BY <4>1, <5>1, <6>2 DEF Mine, Claim, IsDone
        <5>2. QED
          BY <5>1
      <4>3. QED
        BY <1>2, <3>2, <4>1, <4>2, EtagChange
    <3>3. CASE RecordPart(q) /\ Mine(q) /\ u = on[q] /\ p = n[q] /\ Part(u, p)' = Done(etags[q][p])
      <4>1. AtWork(q, u, p) /\ etags[q][p] = r2[u].etags[p]
        BY <3>1, <3>3 DEF RecordPart, AtWork, ClaimsHeld
      <4>2. r2' = r2
        BY <3>3 DEF RecordPart, bucket
      <4>3. QED
        BY <3>3, <4>1, <4>2 DEF Done
    <3>4. QED
      BY <1>2, <2>2, <3>1, <3>2, <3>3, PartChange DEF Claim, Absent, IsDone
  <2>3. QED
    BY <2>1, <2>2
<1>3. QED
  BY <1>1, <1>2 DEF Next, StepOf

LEMMA InitClaims == Init => Fresh /\ ClaimsHeld /\ EtagsCurrent
BY DEF Init, Fresh, ClaimsHeld, AtWork, EtagsCurrent, Held

\* Racing PUTs of the same part leave exactly the part R2 holds on file, for any number of
\* requests, uploads, parts, aborts, deletions and dying Workers: a claim is taken over only
\* from a Worker that is dead.
THEOREM RecordedEtagIsHeld ==
  ASSUME SlowWorkers = FALSE
  PROVE  Spec => []EtagsCurrent
BY InitSound, SoundStep, InitClaims, FreshStep, ClaimsStep, EtagsStep, PTL DEF Spec

-----------------------------------------------------------------------------
(* The library and the stored file.                                        *)

\* Which steps change the file, the library's row, and who is completing.
LEMMA CompletingChange ==
  ASSUME Sound, NEW q \in Requests, StepOf(q), deletes' = 0
  PROVE  /\ deletes = 0
         /\ pc[q] # "erase" => pc'[q] # "erase"
         /\ pc'[q] = "remove" => pc[q] \in {"erase", "remove"}
         /\ pc'[q] \in Completing =>
              \/ Batch(q) /\ media = NoMedia /\ media' = on'[q] /\ pc'[q] = "finish" /\ object' = object
              \/ pc[q] \in Completing /\ on'[q] = on[q] /\ media' = media /\ (pc'[q] = "verify" => object' = on[q] \/ UNCHANGED <<pc, object>>)
         /\ object' # object => pc[q] \in Completing \/ pc[q] = "remove"
         /\ media' # media => (Batch(q) /\ media = NoMedia /\ pc'[q] \in Completing) \/ (pc[q] = "undo" /\ media' = NoMedia) \/ pc[q] = "erase"
<1>1. pc \in [Requests -> Steps] /\ on \in [Requests -> Uploads \cup {NoUpload}] /\ deletes \in Nat
  BY SoundParts, UploadsAssumption DEF LocalsOK, TablesOK
<1>2. CASE AskInitDuplicate(q)
  BY <1>1, <1>2 DEF AskInitDuplicate, rows, bucket, locals, counts, Completing
<1>3. CASE AskDelete(q)
  BY <1>1, <1>3 DEF AskDelete
<1>4. ASSUME NEW u \in Uploads, AskInit(q, u) \/ AskAbort(q, u) \/ AskComplete(q, u) \/ \E p \in Parts : AskPart(q, u, p)
      PROVE  UNCHANGED <<media, object, deletes>> /\ pc'[q] \in {"create", "abort", "duplicate", "claim"}
  BY <1>1, <1>4 DEF AskInit, AskAbort, AskComplete, AskPart, Start, Goto, rows, bucket, counts
<1>5. ASSUME InsertUpload(q) \/ ReleaseClaim(q) \/ RecordPart(q) \/ DropUpload(q) \/ WorkerDies(q)
      PROVE  UNCHANGED <<media, object, deletes>> /\ pc'[q] = "free"
  BY <1>1, <1>5 DEF InsertUpload, ReleaseClaim, RecordPart, DropUpload, WorkerDies, Finish, Goto, rows, bucket, counts
<1>6. ASSUME CreateMultipart(q) \/ ClaimPart(q) \/ PutPart(q) \/ Abort(q) \/ CheckDuplicate(q)
      PROVE  UNCHANGED <<media, object, deletes>> /\ pc'[q] \in {"insert", "put", "record", "release", "free", "drop", "abort", "batch"}
  BY <1>1, <1>6 DEF CreateMultipart, ClaimPart, PutPart, Abort, AfterAbort, ObjectAfterAbort, CheckDuplicate,
     Finish, Goto, rows, bucket, counts
<1>7. CASE Batch(q)
  BY <1>1, <1>7 DEF Batch, Goto, Stay, locals, rows, bucket, counts, Completing
<1>8. CASE Complete(q)
  BY <1>1, <1>8 DEF Complete, Goto, Stay, locals, rows, bucket, counts, Completing
<1>9. CASE Verify(q)
  BY <1>1, <1>9 DEF Verify, Finish, Goto, Stay, locals, rows, bucket, counts, Completing
<1>10. CASE Destroy(q)
  BY <1>1, <1>10 DEF Destroy, Goto, Stay, locals, rows, bucket, counts, Completing
<1>11. CASE Undo(q)
  BY <1>1, <1>11 DEF Undo, Finish, Goto, bucket, counts, Completing
<1>12. CASE EraseRow(q)
  BY <1>1, <1>12 DEF EraseRow, Goto, Stay, locals, bucket, counts, Completing
<1>13. CASE RemoveObject(q)
  BY <1>1, <1>13 DEF RemoveObject, Finish, Goto, rows, counts, Completing
<1>14. QED
  BY <1>2, <1>3, <1>4, <1>5, <1>6, <1>7, <1>8, <1>9, <1>10, <1>11, <1>12, <1>13 DEF StepOf, Ask, Serve, Completing

LEMMA OneCompletesStep == Sound /\ OneCompletes /\ [Next]_vars => OneCompletes'
<1> SUFFICES ASSUME Sound, OneCompletes, [Next]_vars, deletes' = 0, NEW r \in Requests
             PROVE  /\ pc'[r] \notin {"erase", "remove"}
                    /\ pc'[r] \in Completing => media' = on'[r]
                    /\ pc'[r] = "verify" => object' = on'[r]
                    /\ \A s \in Requests : pc'[s] \in Completing /\ pc'[r] \in Completing => s = r
  BY DEF OneCompletes
<1>1. CASE UNCHANGED vars
  BY <1>1 DEF vars, rows, bucket, locals, counts, OneCompletes
<1>2. ASSUME NEW q \in Requests, StepOf(q)
      PROVE  /\ pc'[r] \notin {"erase", "remove"}
             /\ pc'[r] \in Completing => media' = on'[r]
             /\ pc'[r] = "verify" => object' = on'[r]
             /\ \A s \in Requests : pc'[s] \in Completing /\ pc'[r] \in Completing => s = r
  <2>1. /\ deletes = 0
        /\ \A s \in Requests : pc[s] \notin {"erase", "remove"}
        /\ \A s \in Requests : pc[s] \in Completing => media = on[s] /\ media # NoMedia
        /\ \A s \in Requests : pc[s] = "verify" => object = on[s]
        /\ \A s, t \in Requests : pc[s] \in Completing /\ pc[t] \in Completing => s = t
    BY <1>2, CompletingChange, UploadsAssumption DEF OneCompletes, Sound, Subject, Completing
  <2>2. /\ pc'[q] \notin {"erase", "remove"}
        /\ pc'[q] \in Completing =>
             \/ media = NoMedia /\ media' = on'[q] /\ pc'[q] = "finish"
             \/ /\ pc[q] \in Completing /\ on'[q] = on[q] /\ media' = media
                /\ pc'[q] = "verify" => object' = on[q] \/ UNCHANGED <<pc, object>>
    BY <1>2, <2>1, CompletingChange
  <2>3. \A s \in Requests \ {q} : pc'[s] = pc[s] /\ on'[s] = on[s]
    BY <1>2, OthersKept
  <2>4. ASSUME NEW s \in Requests \ {q}, pc[s] \in Completing
        PROVE  media' = media /\ object' = object /\ pc'[q] \notin Completing
    BY <1>2, <2>1, <2>2, <2>4, CompletingChange DEF Completing
  <2>5. CASE r = q
    <3>1. pc'[r] = "verify" => object' = on'[r]
      BY <2>1, <2>2, <2>5 DEF Completing
    <3>2. ASSUME NEW s \in Requests, pc'[s] \in Completing, pc'[r] \in Completing PROVE s = r
      BY <2>3, <2>4, <2>5, <3>2
    <3>3. pc'[r] \in Completing => media' = on'[r]
      BY <2>1, <2>2, <2>5
    <3>4. QED
      BY <2>2, <2>5, <3>1, <3>2, <3>3
  <2>6. CASE r # q
    BY <2>1, <2>2, <2>3, <2>4, <2>6 DEF Completing
  <2>7. QED
    BY <2>5, <2>6
<1>3. QED
  BY <1>1, <1>2 DEF Next, StepOf

\* How a request that completes an upload ends: verified, undone or dead.
LEMMA CompletingEnds ==
  ASSUME Sound, NEW q \in Requests, StepOf(q), pc[q] \in Completing, pc'[q] \notin Completing
  PROVE  \/ /\ pc[q] = "verify" /\ UNCHANGED <<media, object, intact>>
            /\ object = NoUpload \/ intact[object]
         \/ pc[q] = "undo" /\ (media = on[q] => media' = NoMedia)
         \/ deaths' # 0
<1>1. pc \in [Requests -> Steps] /\ deaths \in Nat
  BY SoundParts, UploadsAssumption DEF LocalsOK, TablesOK
<1>2. CASE Complete(q)
  BY <1>1, <1>2 DEF Complete, Goto, Completing
<1>3. CASE Destroy(q)
  BY <1>1, <1>3 DEF Destroy, Goto, Completing
<1>4. CASE Verify(q)
  BY <1>1, <1>4 DEF Verify, Verified, Goto, Completing, rows, bucket
<1>5. CASE Undo(q)
  BY <1>5 DEF Undo
<1>6. CASE WorkerDies(q)
  BY <1>1, <1>6 DEF WorkerDies
<1>7. QED
  BY <1>2, <1>3, <1>4, <1>5, <1>6 DEF StepOf, Ask, AskInitDuplicate, AskDelete, AskInit, AskAbort,
     AskComplete, AskPart, Serve, CreateMultipart, InsertUpload, ClaimPart, ReleaseClaim, RecordPart, PutPart,
     Abort, DropUpload, CheckDuplicate, Batch, EraseRow, RemoveObject, Start, Completing

LEMMA FileThereStep == Sound /\ OneCompletes /\ FileThere /\ [Next]_vars => FileThere'
<1> SUFFICES ASSUME Sound, OneCompletes, FileThere, [Next]_vars, deletes' = 0, deaths' = 0,
                    media' # NoMedia, \A s \in Requests : pc'[s] \notin Completing
             PROVE  object' # NoUpload /\ intact'[object']
  BY DEF FileThere
<1>1. CASE UNCHANGED vars
  BY <1>1 DEF vars, rows, bucket, locals, counts, FileThere
<1>2. ASSUME NEW q \in Requests, StepOf(q)
      PROVE  object' # NoUpload /\ intact'[object']
  <2>1. deletes = 0 /\ \A s \in Requests : pc[s] \notin {"erase", "remove"}
    BY <1>2, CompletingChange DEF OneCompletes
  <2>2. deaths = 0 /\ intact' = intact
    <3>1. deaths \in Nat
      BY SoundParts, UploadsAssumption DEF TablesOK
    <3>2. QED
      BY <1>2, <3>1 DEF StepOf, Ask, AskInitDuplicate, AskDelete, AskInit, AskAbort,
         AskComplete, AskPart, Serve, CreateMultipart, InsertUpload, ClaimPart, PutPart, ReleaseClaim, RecordPart,
         Abort, DropUpload, CheckDuplicate, Batch, Complete, Verify, Destroy, Undo, EraseRow, RemoveObject,
         WorkerDies, counts
  <2>3. CASE pc[q] \in Completing
    <3>1. /\ media = on[q]
          /\ pc[q] = "verify" => object \in Uploads
      BY <2>1, <2>3 DEF OneCompletes, Sound, Subject
    <3>2. pc[q] = "verify" /\ UNCHANGED <<media, object, intact>> /\ (object = NoUpload \/ intact[object])
      BY <1>2, <2>3, <3>1, CompletingEnds
    <3>3. QED
      BY <3>1, <3>2, UploadsAssumption
  <2>4. CASE pc[q] \notin Completing
    <3>1. \A s \in Requests : pc[s] \notin Completing
      BY <1>2, <2>4, OthersKept
    <3>2. object' = object /\ media' = media
      BY <1>2, <2>1, <2>4, CompletingChange DEF Completing
    <3>3. QED
      BY <2>1, <2>2, <3>1, <3>2 DEF FileThere
  <2>5. QED
    BY <2>3, <2>4
<1>3. QED
  BY <1>1, <1>2 DEF Next, StepOf

LEMMA InitFile == Init => OneCompletes /\ FileThere
BY DEF Init, OneCompletes, FileThere, Completing

\* With every request answered, no Worker dead and nothing deleted, a file the library shows
\* is in R2, whole and verified, however many requests for however many uploads of it raced.
THEOREM LibraryFileIsThere == Spec => []LibraryHasFile
<1>1. OneCompletes /\ FileThere => LibraryHasFile
  BY DEF FileThere, LibraryHasFile, Settled, Completing
<1>2. QED
  BY <1>1, InitSound, SoundStep, InitFile, OneCompletesStep, FileThereStep, PTL DEF Spec

\* Only a request that completes, or one that deletes, touches the object.
LEMMA ObjectChange ==
  ASSUME Sound, NEW q \in Requests, StepOf(q), pc[q] \notin Completing, pc[q] # "remove"
  PROVE  object' = object
BY DEF StepOf, Ask, AskInitDuplicate, AskDelete, AskInit, AskAbort, AskComplete, AskPart, Serve,
   CreateMultipart, InsertUpload, ClaimPart, PutPart, ReleaseClaim, RecordPart, Abort, ObjectAfterAbort,
   DropUpload, CheckDuplicate, Batch, Complete, Verify, Destroy, Undo, EraseRow, RemoveObject, WorkerDies,
   bucket, Completing

LEMMA SettledStep ==
  ASSUME Sound, OneCompletes, [Next]_vars, media # NoMedia, deletes = 0,
         \A r \in Requests : on[r] # media
  PROVE  object' = object
<1>1. CASE UNCHANGED vars
  BY <1>1 DEF vars, bucket
<1>2. ASSUME NEW q \in Requests, StepOf(q) PROVE object' = object
  <2>1. pc[q] \notin Completing /\ pc[q] # "remove"
    BY DEF OneCompletes
  <2>2. QED
    BY <1>2, <2>1, ObjectChange
<1>3. QED
  BY <1>1, <1>2 DEF Next, StepOf

\* No step of any request replaces or removes the object of a file in the library that no
\* request is about any more, until something is deleted.
THEOREM SettledObjectKept == Spec => SettledObjectStays
<1>1. Sound /\ OneCompletes /\ [Next]_vars =>
        [(media # NoMedia /\ object = media /\ \A r \in Requests : on[r] # media) =>
           (object' = object \/ deletes > 0)]_vars
  <2> SUFFICES ASSUME Sound, OneCompletes, [Next]_vars, media # NoMedia, \A r \in Requests : on[r] # media
               PROVE  object' = object \/ deletes > 0
    OBVIOUS
  <2>1. deletes \in Nat
    BY SoundParts, UploadsAssumption DEF TablesOK
  <2>2. QED
    BY <2>1, SettledStep
<1>2. QED
  BY <1>1, InitSound, SoundStep, InitFile, OneCompletesStep, PTL DEF Spec, SettledObjectStays
=============================================================================
