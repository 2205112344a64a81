------------------------ MODULE MCUploadsBothProofs ------------------------
(***************************************************************************)
(* What UploadsProofs shows, for the two instances of Uploads that run side *)
(* by side in MCUploadsBoth: "races" with its constants, "slow" with slow   *)
(* Workers and a deletion.                                                  *)
(***************************************************************************)
EXTENDS MCUploadsBoth, UploadsProofs

\* The theorems of Uploads for the constants of the slow case.
SlowFacts == INSTANCE UploadsProofs WITH Uploads <- mcOneUpload, MaxDeletes <- 1, SlowWorkers <- TRUE

LEMMA SlowConstants == SlowFacts!UploadsAssumption
BY UploadsAssumption, SlowUploadAssumption DEF SlowFacts!UploadsAssumption, mcOneUpload,
   IsFiniteSet, SlowFacts!IsFiniteSet

LEMMA SlowInit == Slow!Init => SlowFacts!Init
BY DEF Slow!Init, SlowFacts!Init, Slow!NoEtags, SlowFacts!NoEtags

LEMMA SlowNext == Slow!Next => SlowFacts!Next
<1>1. \A r \in Requests : Slow!CreateMultipart(r) => SlowFacts!CreateMultipart(r)
  BY DEF Slow!CreateMultipart, Slow!Goto, Slow!Stay, Slow!locals, Slow!rows, Slow!counts,
     SlowFacts!CreateMultipart, SlowFacts!Goto, SlowFacts!Stay, SlowFacts!locals, SlowFacts!rows,
     SlowFacts!counts
<1>2. \A r \in Requests : Slow!InsertUpload(r) => SlowFacts!InsertUpload(r)
  BY DEF Slow!InsertUpload, Slow!Absent, Slow!Finish, Slow!Goto, Slow!NoEtags, Slow!bucket, Slow!counts,
     SlowFacts!InsertUpload, SlowFacts!Absent, SlowFacts!Finish, SlowFacts!Goto, SlowFacts!NoEtags,
     SlowFacts!bucket, SlowFacts!counts
<1>3. \A r \in Requests : Slow!ClaimPart(r) => SlowFacts!ClaimPart(r)
  BY DEF Slow!ClaimPart, Slow!Claimable, Slow!Held, Slow!Part, Slow!Stale, Slow!AtWork, Slow!Claim,
     Slow!Goto, Slow!Stay, Slow!locals, Slow!Finish, Slow!NoEtags, Slow!bucket, Slow!counts,
     SlowFacts!ClaimPart, SlowFacts!Claimable, SlowFacts!Held, SlowFacts!Part, SlowFacts!Stale,
     SlowFacts!AtWork, SlowFacts!Claim, SlowFacts!Goto, SlowFacts!Stay, SlowFacts!locals, SlowFacts!Finish,
     SlowFacts!NoEtags, SlowFacts!bucket, SlowFacts!counts
<1>4. \A r \in Requests : Slow!PutPart(r) => SlowFacts!PutPart(r)
  BY DEF Slow!PutPart, Slow!Goto, Slow!rows, Slow!counts, SlowFacts!PutPart, SlowFacts!Goto,
     SlowFacts!rows, SlowFacts!counts
<1>5. \A r \in Requests : Slow!ReleaseClaim(r) => SlowFacts!ReleaseClaim(r)
  BY DEF Slow!ReleaseClaim, Slow!Mine, Slow!Held, Slow!Part, Slow!Claim, Slow!Absent, Slow!Finish,
     Slow!Goto, Slow!NoEtags, Slow!bucket, Slow!counts, SlowFacts!ReleaseClaim, SlowFacts!Mine, SlowFacts!Held,
     SlowFacts!Part, SlowFacts!Claim, SlowFacts!Absent, SlowFacts!Finish, SlowFacts!Goto, SlowFacts!NoEtags,
     SlowFacts!bucket, SlowFacts!counts
<1>6. \A r \in Requests : Slow!RecordPart(r) => SlowFacts!RecordPart(r)
  BY DEF Slow!RecordPart, Slow!MayRecord, Slow!Mine, Slow!Held, Slow!Part, Slow!Claim, Slow!Done,
     Slow!Finish, Slow!Goto, Slow!NoEtags, Slow!bucket, Slow!counts, SlowFacts!RecordPart, SlowFacts!MayRecord,
     SlowFacts!Mine, SlowFacts!Held, SlowFacts!Part, SlowFacts!Claim, SlowFacts!Done, SlowFacts!Finish,
     SlowFacts!Goto, SlowFacts!NoEtags, SlowFacts!bucket, SlowFacts!counts
<1>7. \A r \in Requests : Slow!Abort(r) => SlowFacts!Abort(r)
  BY DEF Slow!Abort, Slow!Goto, Slow!AfterAbort, Slow!ObjectAfterAbort, Slow!Stay, Slow!locals, Slow!rows,
     Slow!counts, SlowFacts!Abort, SlowFacts!Goto, SlowFacts!AfterAbort, SlowFacts!ObjectAfterAbort,
     SlowFacts!Stay, SlowFacts!locals, SlowFacts!rows, SlowFacts!counts
<1>8. \A r \in Requests : Slow!DropUpload(r) => SlowFacts!DropUpload(r)
  BY DEF Slow!DropUpload, Slow!Finish, Slow!Goto, Slow!NoEtags, Slow!bucket, Slow!counts,
     SlowFacts!DropUpload, SlowFacts!Finish, SlowFacts!Goto, SlowFacts!NoEtags, SlowFacts!bucket,
     SlowFacts!counts
<1>9. \A r \in Requests : Slow!CheckDuplicate(r) => SlowFacts!CheckDuplicate(r)
  BY DEF Slow!CheckDuplicate, Slow!Goto, Slow!Stay, Slow!locals, Slow!rows, Slow!bucket, Slow!counts,
     SlowFacts!CheckDuplicate, SlowFacts!Goto, SlowFacts!Stay, SlowFacts!locals, SlowFacts!rows,
     SlowFacts!bucket, SlowFacts!counts
<1>10. \A r \in Requests : Slow!Batch(r) => SlowFacts!Batch(r)
  BY DEF Slow!Batch, Slow!Goto, Slow!rows, Slow!Stay, Slow!locals, Slow!bucket, Slow!counts,
     SlowFacts!Batch, SlowFacts!Goto, SlowFacts!rows, SlowFacts!Stay, SlowFacts!locals, SlowFacts!bucket,
     SlowFacts!counts
<1>11. \A r \in Requests : Slow!Complete(r) => SlowFacts!Complete(r)
  BY DEF Slow!Complete, Slow!Completable, Slow!Goto, Slow!bucket, Slow!Stay, Slow!locals, Slow!rows,
     Slow!counts, SlowFacts!Complete, SlowFacts!Completable, SlowFacts!Goto, SlowFacts!bucket, SlowFacts!Stay,
     SlowFacts!locals, SlowFacts!rows, SlowFacts!counts
<1>12. \A r \in Requests : Slow!Verify(r) => SlowFacts!Verify(r)
  BY DEF Slow!Verify, Slow!Verified, Slow!Goto, Slow!Stay, Slow!locals, Slow!Finish, Slow!NoEtags,
     Slow!rows, Slow!bucket, Slow!counts, SlowFacts!Verify, SlowFacts!Verified, SlowFacts!Goto, SlowFacts!Stay,
     SlowFacts!locals, SlowFacts!Finish, SlowFacts!NoEtags, SlowFacts!rows, SlowFacts!bucket, SlowFacts!counts
<1>13. \A r \in Requests : Slow!Destroy(r) => SlowFacts!Destroy(r)
  BY DEF Slow!Destroy, Slow!Goto, Slow!Stay, Slow!locals, Slow!rows, Slow!counts, SlowFacts!Destroy,
     SlowFacts!Goto, SlowFacts!Stay, SlowFacts!locals, SlowFacts!rows, SlowFacts!counts
<1>14. \A r \in Requests : Slow!Undo(r) => SlowFacts!Undo(r)
  BY DEF Slow!Undo, Slow!Finish, Slow!Goto, Slow!NoEtags, Slow!bucket, Slow!counts, SlowFacts!Undo,
     SlowFacts!Finish, SlowFacts!Goto, SlowFacts!NoEtags, SlowFacts!bucket, SlowFacts!counts
<1>15. \A r \in Requests : Slow!EraseRow(r) => SlowFacts!EraseRow(r)
  BY DEF Slow!EraseRow, Slow!Goto, Slow!Stay, Slow!locals, Slow!bucket, Slow!counts, SlowFacts!EraseRow,
     SlowFacts!Goto, SlowFacts!Stay, SlowFacts!locals, SlowFacts!bucket, SlowFacts!counts
<1>16. \A r \in Requests : Slow!RemoveObject(r) => SlowFacts!RemoveObject(r)
  BY DEF Slow!RemoveObject, Slow!Finish, Slow!Goto, Slow!NoEtags, Slow!rows, Slow!counts,
     SlowFacts!RemoveObject, SlowFacts!Finish, SlowFacts!Goto, SlowFacts!NoEtags, SlowFacts!rows,
     SlowFacts!counts
<1>17. \A r \in Requests : Slow!WorkerDies(r) => SlowFacts!WorkerDies(r)
  BY DEF Slow!WorkerDies, Slow!Finish, Slow!Goto, Slow!NoEtags, Slow!rows, Slow!bucket,
     SlowFacts!WorkerDies, SlowFacts!Finish, SlowFacts!Goto, SlowFacts!NoEtags, SlowFacts!rows, SlowFacts!bucket
<1>18. \A r \in Requests : Slow!AskInitDuplicate(r) => SlowFacts!AskInitDuplicate(r)
  BY DEF Slow!AskInitDuplicate, Slow!rows, Slow!bucket, Slow!locals, Slow!counts,
     SlowFacts!AskInitDuplicate, SlowFacts!rows, SlowFacts!bucket, SlowFacts!locals, SlowFacts!counts
<1>19. \A r \in Requests : Slow!AskDelete(r) => SlowFacts!AskDelete(r)
  BY DEF Slow!AskDelete, Slow!Start, Slow!Goto, Slow!rows, Slow!bucket, SlowFacts!AskDelete,
     SlowFacts!Start, SlowFacts!Goto, SlowFacts!rows, SlowFacts!bucket
<1>20. \A r \in Requests, u \in mcOneUpload : Slow!AskInit(r, u) => SlowFacts!AskInit(r, u)
  BY DEF Slow!AskInit, Slow!Unused, Slow!Held, Slow!Start, Slow!Goto, Slow!rows, Slow!bucket, Slow!counts,
     SlowFacts!AskInit, SlowFacts!Unused, SlowFacts!Held, SlowFacts!Start, SlowFacts!Goto, SlowFacts!rows,
     SlowFacts!bucket, SlowFacts!counts
<1>21. \A r \in Requests, u \in mcOneUpload : Slow!AskAbort(r, u) => SlowFacts!AskAbort(r, u)
  BY DEF Slow!AskAbort, Slow!Held, Slow!Start, Slow!Goto, Slow!rows, Slow!bucket, Slow!counts,
     SlowFacts!AskAbort, SlowFacts!Held, SlowFacts!Start, SlowFacts!Goto, SlowFacts!rows, SlowFacts!bucket,
     SlowFacts!counts
<1>22. \A r \in Requests, u \in mcOneUpload : Slow!AskComplete(r, u) => SlowFacts!AskComplete(r, u)
  BY DEF Slow!Cardinality, SlowFacts!Cardinality, Slow!AskComplete, Slow!Held, Slow!IsDone, Slow!Part, Slow!Goto, Slow!rows, Slow!bucket,
     Slow!counts, SlowFacts!AskComplete, SlowFacts!Held, SlowFacts!IsDone, SlowFacts!Part, SlowFacts!Goto,
     SlowFacts!rows, SlowFacts!bucket, SlowFacts!counts
<1>23. \A r \in Requests, u \in mcOneUpload, p \in Parts : Slow!AskPart(r, u, p) => SlowFacts!AskPart(r, u, p)
  BY DEF Slow!AskPart, Slow!Held, Slow!IsDone, Slow!Part, Slow!Goto, Slow!rows, Slow!bucket, Slow!counts,
     SlowFacts!AskPart, SlowFacts!Held, SlowFacts!IsDone, SlowFacts!Part, SlowFacts!Goto, SlowFacts!rows,
     SlowFacts!bucket, SlowFacts!counts
<1>24. QED
  BY <1>1, <1>2, <1>3, <1>4, <1>5, <1>6, <1>7, <1>8, <1>9, <1>10, <1>11, <1>12, <1>13, <1>14, <1>15, <1>16, <1>17,
     <1>18, <1>19, <1>20, <1>21, <1>22, <1>23
     DEF Slow!Next, Slow!Ask, Slow!Serve, SlowFacts!Next, SlowFacts!Ask, SlowFacts!Serve

LEMMA SlowVars == UNCHANGED vars => UNCHANGED SlowFacts!vars
BY DEF vars, rows, bucket, locals, counts, SlowFacts!vars, SlowFacts!rows, SlowFacts!bucket,
       SlowFacts!locals, SlowFacts!counts

-----------------------------------------------------------------------------
\* The invariant of either case.
BothSound ==
  \/ case = "races" /\ Sound
  \/ case = "slow" /\ SlowFacts!Sound

LEMMA BothSoundInit == BothInit => BothSound
BY InitSound, SlowInit, SlowConstants, SlowFacts!InitSound DEF BothInit, BothSound

LEMMA BothSoundStep == BothSound /\ [BothNext]_allVars => BothSound'
<1> SUFFICES ASSUME BothSound, [BothNext]_allVars PROVE BothSound'
  OBVIOUS
<1>1. CASE case = "races" /\ Sound
  <2>1. case' = case /\ [Next]_vars
    BY <1>1 DEF BothNext, allVars
  <2>2. QED
    BY <1>1, <2>1, SoundStep DEF BothSound
<1>2. CASE case = "slow" /\ SlowFacts!Sound
  <2>1. case' = case /\ [SlowFacts!Next]_(SlowFacts!vars)
    BY <1>2, SlowNext, SlowVars DEF BothNext, allVars
  <2>2. QED
    BY <1>2, <2>1, SlowConstants, SlowFacts!SoundStep DEF BothSound
<1>3. QED
  BY <1>1, <1>2 DEF BothSound

\* Both cases keep the types of Uploads.
THEOREM BothTypesKept == BothSpec => []BothTypeOK
<1>1. BothSound => BothTypeOK
  <2>1. SlowFacts!TypeOK => Slow!TypeOK
    BY DEF SlowFacts!TypeOK, Slow!TypeOK, SlowFacts!Entry, Slow!Entry, SlowFacts!Cardinality, Slow!Cardinality
  <2>2. QED
    BY <2>1 DEF BothSound, BothTypeOK, Sound, SlowFacts!Sound
<1>2. QED
  BY <1>1, BothSoundInit, BothSoundStep, PTL DEF BothSpec

\* With Workers so slow that claims are taken over, deletions and aborts, received still
\* counts every recorded part once.
THEOREM SlowPartsCounted == BothSpec => []SlowReceivedExact
<1>1. BothSound => SlowReceivedExact
  <2>1. SlowFacts!ReceivedExact => Slow!ReceivedExact
    BY DEF SlowFacts!ReceivedExact, Slow!ReceivedExact, SlowFacts!Held, Slow!Held, SlowFacts!IsDone, Slow!IsDone,
       SlowFacts!Part, Slow!Part, SlowFacts!Cardinality, Slow!Cardinality
  <2>2. QED
    BY <2>1 DEF BothSound, SlowReceivedExact, SlowFacts!Sound
<1>2. QED
  BY <1>1, BothSoundInit, BothSoundStep, PTL DEF BothSpec

-----------------------------------------------------------------------------
\* What the proofs of the racing case need of its steps.
RacingInv == case = "races" => Sound /\ OneCompletes /\ FileThere

LEMMA RacingInit == BothInit => RacingInv
BY InitSound, InitFile DEF BothInit, RacingInv

LEMMA RacingStep == RacingInv /\ [BothNext]_allVars => RacingInv'
<1> SUFFICES ASSUME RacingInv, [BothNext]_allVars, case' = "races" PROVE Sound' /\ OneCompletes' /\ FileThere'
  BY DEF RacingInv
<1>1. case = "races" /\ [Next]_vars
  BY DEF BothNext, allVars
<1>2. QED
  BY <1>1, SoundStep, OneCompletesStep, FileThereStep DEF RacingInv

\* Two uploads of a file that race leave the library with a stored, whole and verified file.
THEOREM RacingFileIsThere == BothSpec => []RacingLibraryHasFile
<1>1. RacingInv => RacingLibraryHasFile
  BY DEF RacingInv, RacingLibraryHasFile, FileThere, LibraryHasFile, Settled, Completing
<1>2. QED
  BY <1>1, RacingInit, RacingStep, PTL DEF BothSpec

\* No step of the race replaces or removes the object of a file that is in the library and
\* that no request is about any more.
THEOREM RacingObjectKept == BothSpec => RacingObjectStays
<1>1. RacingInv /\ [BothNext]_allVars =>
        [(case = "races" /\ media # NoMedia /\ object = media /\ \A r \in Requests : on[r] # media) =>
           (object' = object \/ deletes > 0)]_allVars
  <2> SUFFICES ASSUME RacingInv, [BothNext]_allVars, case = "races", media # NoMedia,
                      \A r \in Requests : on[r] # media
               PROVE  object' = object \/ deletes > 0
    OBVIOUS
  <2>1. Sound /\ OneCompletes /\ [Next]_vars
    BY DEF RacingInv, BothNext, allVars
  <2>2. deletes \in Nat
    BY <2>1, SoundParts, UploadsAssumption DEF TablesOK
  <2>3. QED
    BY <2>1, <2>2, SettledStep
<1>2. QED
  BY <1>1, RacingInit, RacingStep, PTL DEF BothSpec, RacingObjectStays

RacingClaims == case = "races" => Sound /\ Fresh /\ ClaimsHeld /\ EtagsCurrent

\* Without slow Workers, the etags the race records are those R2 holds.
THEOREM RacingEtagIsHeld ==
  ASSUME SlowWorkers = FALSE
  PROVE  BothSpec => []RacingEtagsCurrent
<1>1. BothInit => RacingClaims
  BY InitSound, InitClaims DEF BothInit, RacingClaims
<1>2. RacingClaims /\ [BothNext]_allVars => RacingClaims'
  <2> SUFFICES ASSUME RacingClaims, [BothNext]_allVars, case' = "races"
               PROVE  Sound' /\ Fresh' /\ ClaimsHeld' /\ EtagsCurrent'
    BY DEF RacingClaims
  <2>1. case = "races" /\ [Next]_vars
    BY DEF BothNext, allVars
  <2>2. QED
    BY <2>1, SoundStep, FreshStep, ClaimsStep, EtagsStep DEF RacingClaims
<1>3. RacingClaims => RacingEtagsCurrent
  BY DEF RacingClaims, RacingEtagsCurrent
<1>4. QED
  BY <1>1, <1>2, <1>3, PTL DEF BothSpec
=============================================================================
