--------------------------- MODULE MCUploadsBoth ---------------------------
(***************************************************************************)
(* Two instances of Uploads in one run: two uploads whose requests race     *)
(* ("races", the constants of the configuration), and one upload with slow  *)
(* Workers, deletions and the daily cron's fairness ("slow").                *)
(***************************************************************************)
EXTENDS MCUploads

\* The id of the slow case's upload is not one of the markers.
ASSUME SlowUploadAssumption == u1 # NoUpload /\ u1 # NoMedia

VARIABLE case

Slow == INSTANCE Uploads WITH Uploads <- mcOneUpload, MaxDeletes <- 1, SlowWorkers <- TRUE

allVars == <<case, vars>>

BothInit == (case = "races" /\ Init) \/ (case = "slow" /\ Slow!Init)

BothNext == /\ UNCHANGED case
            /\ (case = "races" /\ Next) \/ (case = "slow" /\ Slow!Next)

SlowServe(r) == case = "slow" /\ Slow!Serve(r) /\ UNCHANGED case
SlowAbort(u) == case = "slow" /\ (\E r \in Requests : Slow!AskAbort(r, u)) /\ UNCHANGED case

\* The fairness of Uploads!FairSpec, for the slow case.
BothSpec ==
  /\ BothInit /\ [][BothNext]_allVars
  /\ \A r \in Requests : WF_allVars(SlowServe(r))
  /\ \A u \in mcOneUpload : SF_allVars(SlowAbort(u))

-----------------------------------------------------------------------------
\* Uploads!TypeOK, of both cases.
BothTypeOK == IF case = "races" THEN TypeOK ELSE Slow!TypeOK

\* Uploads!EtagsCurrent: with no slow Worker, recorded etags are those R2 holds.
RacingEtagsCurrent == case = "races" => EtagsCurrent

\* Uploads!LibraryHasFile, with two uploads of the file racing.
RacingLibraryHasFile == case = "races" => LibraryHasFile

\* Uploads!SettledObjectStays, with two uploads of the file racing.
RacingObjectStays ==
  [][(case = "races" /\ media # NoMedia /\ object = media /\ \A r \in Requests : on[r] # media) =>
       (object' = object \/ deletes > 0)]_allVars

\* Uploads!ReceivedExact, with claims taken over from slow Workers.
SlowReceivedExact == case = "slow" => Slow!ReceivedExact

\* Uploads!UploadsEnd, under the daily cron.
SlowUploadsEnd == \A u \in mcOneUpload : (case = "slow" /\ Slow!Held(u)) ~> ~(case = "slow" /\ Slow!Held(u))
=============================================================================
