------------------------------ MODULE Releases ------------------------------
(***************************************************************************)
(* Deployment and rollback by deploy/scripts/deploy-production.sh: three   *)
(* services, two records (files current and previous), and one job at a    *)
(* time, which may fail at any command or be killed between any two.  A    *)
(* job whose demands on the records, the configuration or the registry are *)
(* not met ends before it changes anything and is not seen here.           *)
(* Two releases may have the same images: the same commit with another     *)
(* environment has, and so may a commit that changes what is not built in. *)
(***************************************************************************)
EXTENDS Naturals

CONSTANTS
  Release,   \* what is deployed: a commit, three digests, a configuration
  Legacy,    \* the two-service release that ran before there were records
  Images,    \* of each release: the images its services run
  Config,    \* of each release: migrations, topology, environment, format
  None,      \* no record; no service running
  Mixed      \* services of different releases, or some of them missing

Known == Release \cup {Legacy}

ASSUME ReleasesAssumption ==
  /\ Legacy \notin Release /\ None \notin Known /\ Mixed # None
  /\ \A r \in Known : Images[r] \notin {None, Mixed}
  /\ \A r \in Release : Images[r] # Images[Legacy] /\ Config[r] # Config[Legacy]

VARIABLES
  current, previous,   \* the records
  running,             \* the images the three services run
  image,               \* images on the host
  job,                 \* the deployment or rollback under way
  verified,            \* releases that have been found healthy
  replaced,            \* what current named before it last changed
  torn,                \* a job ended between the moves of the two records
  schema               \* configuration last brought up, even in part

vars == <<current, previous, running, image, job, verified, replaced, torn, schema>>

Done(result) == [step |-> "done", result |-> result]

ImagesOf(record) == IF record = None THEN None ELSE Images[record]

(* A server with nothing on it, or the legacy pair.                        *)
Init ==
  /\ current = None /\ previous = None
  /\ running \in {None, Images[Legacy]}
  /\ image = {running} \ {None}
  /\ job = Done("none")
  /\ verified = {} /\ replaced = None /\ torn = FALSE
  /\ schema = IF running = None THEN None ELSE Config[Legacy]

Idle == job.step = "done"
At(step) == job.step = step
Go(step) == job' = [job EXCEPT !.step = step]
End(result) == job' = Done(result)

----------------------------------------------------------------------------
(* bootstrap_current_from_running: the healthy legacy pair is recorded.    *)
Bootstrap ==
  /\ Idle /\ current = None /\ previous = None /\ running = Images[Legacy]
  /\ current' = Legacy /\ verified' = verified \cup {Legacy}
  /\ UNCHANGED <<previous, running, image, job, replaced, torn, schema>>

(* load_current_state: the services run the images of the record, in       *)
(* whatever configuration, or there is neither.                            *)
StateIsLoaded == running = ImagesOf(current) /\ (current = None => previous = None)

(* compare_candidate_with_current, compare_target_with_current.            *)
SameConfig(r) == Config[r] = Config[current]

Pulled(kind, r, auto) ==
  /\ image' = image \cup {Images[r]}
  /\ job' = [step |-> "up", kind |-> kind, target |-> r, auto |-> auto, backup |-> None]
  /\ UNCHANGED <<current, previous, running, verified, replaced, torn, schema>>

(* A deployment that changes the configuration needs confirmation and      *)
(* gives up automatic recovery.                                            *)
Deploy(r, confirmed) ==
  /\ Idle /\ StateIsLoaded
  /\ LET changed == current # None /\ ~ SameConfig(r)
     IN  /\ changed => confirmed
         /\ Pulled("deploy", r, ~ changed)

(* A rollback never crosses a change of configuration.                     *)
Rollback ==
  /\ Idle /\ StateIsLoaded /\ previous # None
  /\ current # Legacy /\ previous # Legacy
  /\ SameConfig(previous)
  /\ Pulled("rollback", previous, TRUE)

(* A command that may work, do nothing or stop half-way.  Services whose   *)
(* images stay may have been started again in the configuration of r.      *)
BringUp(r) ==
  /\ running' \in {Images[r], running, Mixed}
  /\ schema' \in {schema, Config[r]}
  /\ running' # running => schema' = Config[r]

IsUp(r) == running' = Images[r] /\ schema' = Config[r]

(* A wrong Update: healthy without a look.                                 *)
UpdateUnverified ==
  /\ At("up")
  /\ BringUp(job.target)
  /\ IF IsUp(job.target) THEN Go("stage") ELSE Go("failed")
  /\ UNCHANGED <<current, previous, image, verified, replaced, torn>>

(* update_services, up to compose up.                                      *)
Update ==
  /\ At("up")
  /\ BringUp(job.target)
  /\ \/ IsUp(job.target) /\ Go("verify")
     \/ Go("failed")
  /\ UNCHANGED <<current, previous, image, verified, replaced, torn>>

(* verify_release: images, health, smoke.                                  *)
Verify ==
  /\ At("verify")
  /\ \/ Go("stage") /\ verified' = verified \cup {job.target}
     \/ Go("failed") /\ UNCHANGED verified
  /\ UNCHANGED <<current, previous, running, image, replaced, torn, schema>>

(* A wrong Restore: whatever was confirmed.                                *)
RestoreAlways ==
  /\ At("failed")
  /\ IF current # None THEN BringUp(current) ELSE UNCHANGED <<running, schema>>
  /\ End("failed")
  /\ UNCHANGED <<current, previous, image, verified, replaced, torn>>

(* restore_current_release where it is called; whether it works or not,    *)
(* the job has failed.                                                     *)
Restore ==
  /\ At("failed")
  /\ IF job.auto /\ current # None /\ current # Legacy
     THEN BringUp(current) ELSE UNCHANGED <<running, schema>>
  /\ End("failed")
  /\ UNCHANGED <<current, previous, image, verified, replaced, torn>>

----------------------------------------------------------------------------
(* promote_target_record.                                                  *)

(* A wrong Stage: the release recorded already is recorded again.          *)
StageAgain ==
  /\ At("stage")
  /\ \/ Go(IF current = None THEN "current" ELSE "previous")
     \/ Go("failed")
  /\ UNCHANGED <<current, previous, running, image, verified, replaced, torn, schema>>

Stage ==
  /\ At("stage")
  /\ \/ current = job.target /\ Go("clean")
     \/ current # job.target /\ Go(IF current = None THEN "current" ELSE "previous")
     \/ current # job.target /\ Go("failed")
  /\ UNCHANGED <<current, previous, running, image, verified, replaced, torn, schema>>

MovePrevious ==
  /\ At("previous")
  /\ \/ /\ previous' = current
        /\ job' = [job EXCEPT !.step = "current", !.backup = previous]
     \/ Go("failed") /\ UNCHANGED previous
  /\ UNCHANGED <<current, running, image, verified, replaced, torn, schema>>

MoveCurrent ==
  /\ At("current")
  /\ current' = job.target /\ replaced' = current
  /\ torn' = FALSE
  /\ Go("clean")
  /\ UNCHANGED <<previous, running, image, verified, schema>>

(* The old previous record is put back; that this may fail is ignored.     *)
MoveCurrentFails ==
  /\ At("current")
  /\ IF current = None THEN UNCHANGED <<previous, torn>>
     ELSE \/ previous' = job.backup /\ UNCHANGED torn
          \/ UNCHANGED previous /\ torn' = TRUE
  /\ Go("failed")
  /\ UNCHANGED <<current, running, image, verified, replaced, schema>>

(* cleanup_state_images: any tag but those of the records and of           *)
(* containers may go; a failure is ignored.                                *)
CleanUp ==
  /\ At("clean")
  /\ \E gone \in SUBSET (image \ {ImagesOf(current), ImagesOf(previous), running}) :
       image' = image \ gone
  /\ End("success")
  /\ UNCHANGED <<current, previous, running, verified, replaced, torn, schema>>

----------------------------------------------------------------------------
(* The runner dies.                                                        *)
Kill ==
  /\ ~ Idle
  /\ torn' = (torn \/ (At("current") /\ current # None))
  /\ End("killed")
  /\ UNCHANGED <<current, previous, running, image, verified, replaced, schema>>

(* External: the operator makes the services what the record says.         *)
Reconcile ==
  /\ Idle /\ running # ImagesOf(current)
  /\ ~ (current = None /\ running = Images[Legacy])
  /\ running' = ImagesOf(current)
  /\ schema' = IF current = None THEN None ELSE Config[current]
  /\ UNCHANGED <<current, previous, image, job, verified, replaced, torn>>

Next ==
  \/ Bootstrap
  \/ \E r \in Release, confirmed \in BOOLEAN : Deploy(r, confirmed)
  \/ Rollback
  \/ Update \/ Verify \/ Restore
  \/ Stage \/ MovePrevious \/ MoveCurrent \/ MoveCurrentFails \/ CleanUp
  \/ Kill \/ Reconcile

Spec == Init /\ [][Next]_vars

----------------------------------------------------------------------------
Underway ==
  [step : {"up", "verify", "failed", "stage", "previous", "current", "clean"},
   kind : {"deploy", "rollback"}, target : Release, auto : BOOLEAN,
   backup : Known \cup {None}]

Ended == [step : {"done"}, result : {"none", "success", "failed", "killed"}]

TypeOK ==
  /\ {current, previous, replaced} \subseteq Known \cup {None}
  /\ running \in {Images[r] : r \in Known} \cup {None, Mixed}
  /\ image \subseteq {Images[r] : r \in Known} /\ verified \subseteq Known
  /\ torn \in BOOLEAN
  /\ job \in Underway \cup Ended

(* What a record names was once found healthy as a whole and still has its *)
(* images on the host, and a job that ended in success left running what   *)
(* current names, in its configuration, whatever failed or was killed      *)
(* before it.                                                              *)
RecordsAreTrue ==
  /\ \A r \in {current, previous} \ {None} : r \in verified /\ Images[r] \in image
  /\ Idle /\ job.result = "success" =>
       running = ImagesOf(current) /\ schema = Config[current]

(* Rollback goes to the release that current named before: retries,        *)
(* failures, and rollbacks themselves never lose it, until a job ends      *)
(* between the moves of the two records; then the next change of current   *)
(* mends it.                                                               *)
RollbackTargetIsKept ==
  Idle /\ ~ torn => previous = replaced /\ (current # None => previous # current)

(* A job that needed no confirmation leaves the configuration in force as  *)
(* it is, or makes it the one current records; one that was confirmed      *)
(* changes it by its own update alone, never by a recovery.                *)
UnaskedKeepsRecordedConfig ==
  [][schema' # schema /\ ~ Idle /\ current # None =>
       \/ At("up") /\ job.kind = "deploy" /\ ~ job.auto
       \/ job.auto /\ schema' = Config[current]]_vars

(* What the documents promise and the code does not: no job without a      *)
(* confirmation changes the configuration in force (deploy/README.md).     *)
(* The records are compared, and the images; what a confirmed job that     *)
(* failed has brought up is in neither.  No run checks it.                 *)
ConfigChangesOnlyWhenAsked ==
  [][schema' # schema /\ ~ Idle /\ current # None =>
       At("up") /\ job.kind = "deploy" /\ ~ job.auto]_vars
=============================================================================
