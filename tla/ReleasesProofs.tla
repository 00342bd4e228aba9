--------------------------- MODULE ReleasesProofs ---------------------------
(***************************************************************************)
(* Proofs about Releases.  What a job may still write is known before it   *)
(* writes it: its target is healthy once it is past verification, the      *)
(* record it sets aside is the one it would put back, and a job that may   *)
(* recover by itself goes to a release of the configuration recorded.      *)
(***************************************************************************)
EXTENDS Releases, TLAPS

Promoting == job.step \in {"stage", "previous", "current", "clean"}

OnHost(r) == r \in verified /\ Images[r] \in image

(* What r names is what runs, in the configuration of r.                   *)
Runs(r) == running = Images[r] /\ schema = Config[r]

(* The records and the target name healthy releases that are on the host.  *)
Healthy ==
  /\ \A r \in {current, previous} \ {None} : OnHost(r)
  /\ current = None => previous = None
  /\ running \notin {None, Mixed} => running \in image
  /\ ~ Idle => Images[job.target] \in image
  /\ ~ Idle /\ Promoting => job.target \in verified /\ Runs(job.target)
  /\ At("clean") => current = job.target
  /\ At("verify") => Runs(job.target)
  /\ ~ Idle /\ job.backup # None => OnHost(job.backup)
  /\ Idle /\ job.result = "success" => current # None /\ Runs(current)

(* Where the rollback target is while the records are moved.               *)
Kept ==
  /\ At("previous") => current # None
  /\ At("previous") \/ At("current") => current # job.target
  /\ At("current") /\ current # None => previous = current
  /\ ~ torn =>
       IF At("current") /\ current # None
       THEN job.backup = replaced /\ job.backup # current
       ELSE previous = replaced /\ (current # None => previous # current)

(* A job with automatic recovery goes to the configuration recorded.       *)
Recoverable ==
  /\ ~ Idle /\ job.kind = "rollback" => job.auto
  /\ ~ Idle /\ ~ At("clean") /\ job.auto /\ current # None =>
       Config[job.target] = Config[current]

----------------------------------------------------------------------------
LEMMA TypesInit == Init => TypeOK
<1> SUFFICES ASSUME Init PROVE TypeOK
  OBVIOUS
<1>1. job \in Ended
  BY DEF Init, Done, Ended
<1>2. image \subseteq {Images[r] : r \in Known}
  BY DEF Init, Known
<1> QED BY <1>1, <1>2 DEF Init, TypeOK, Known

LEMMA Names ==
  /\ None \notin Known /\ Mixed # None
  /\ Release \subseteq Known /\ Legacy \in Known
  /\ \A r \in Known : Images[r] \notin {None, Mixed}
BY ReleasesAssumption DEF Known

LEMMA JobFields ==
  ASSUME TypeOK, ~ Idle
  PROVE  job.target \in Release /\ job.target \in Known
BY Names DEF TypeOK, Idle, Underway, Ended

(* What a step within a job leaves of the job.                             *)
Advanced(step, backup) ==
  /\ job' \in Underway
  /\ job'.step = step /\ job'.backup = backup
  /\ job'.kind = job.kind /\ job'.target = job.target /\ job'.auto = job.auto

LEMMA GoAdvances ==
  ASSUME TypeOK, ~ Idle,
         NEW step \in {"up", "verify", "failed", "stage", "previous", "current", "clean"},
         Go(step)
  PROVE  Advanced(step, job.backup)
BY DEF TypeOK, Idle, Go, Underway, Ended, Advanced

LEMMA MoveAdvances ==
  ASSUME TypeOK, ~ Idle,
         job' = [job EXCEPT !.step = "current", !.backup = previous]
  PROVE  Advanced("current", previous)
<1>1. job \in Underway /\ previous \in Known \cup {None}
  BY DEF TypeOK, Idle, Ended
<1>2. job' = [step |-> "current", kind |-> job.kind, target |-> job.target,
              auto |-> job.auto, backup |-> previous]
  BY <1>1 DEF Underway
<1> QED BY <1>1, <1>2 DEF Underway, Advanced

LEMMA TypesNext == TypeOK /\ [Next]_vars => TypeOK'
<1> SUFFICES ASSUME TypeOK, [Next]_vars PROVE TypeOK'
  OBVIOUS
<1> USE DEF TypeOK, Known, Underway, Ended, Idle, At, Go, End, Done
<1>1. CASE Bootstrap
  BY <1>1 DEF Bootstrap
<1>2. ASSUME NEW r \in Release, NEW confirmed \in BOOLEAN, Deploy(r, confirmed) PROVE TypeOK'
  BY <1>2 DEF Deploy, Pulled, StateIsLoaded, ImagesOf
<1>3. CASE Rollback
  BY <1>3 DEF Rollback, Pulled, StateIsLoaded, ImagesOf
<1>4. CASE Update
  BY <1>4 DEF Update, BringUp, IsUp
<1>5. CASE Verify
  BY <1>5 DEF Verify
<1>6. CASE Restore
  BY <1>6 DEF Restore, BringUp
<1>7. CASE Stage
  BY <1>7 DEF Stage
<1>8. CASE MovePrevious
  BY <1>8, GoAdvances, MoveAdvances DEF MovePrevious, Advanced
<1>9. CASE MoveCurrent
  BY <1>9 DEF MoveCurrent
<1>10. CASE MoveCurrentFails
  BY <1>10 DEF MoveCurrentFails
<1>11. CASE CleanUp
  BY <1>11 DEF CleanUp, ImagesOf
<1>12. CASE Kill
  BY <1>12 DEF Kill
<1>13. CASE Reconcile
  BY <1>13 DEF Reconcile, ImagesOf
<1>14. CASE UNCHANGED vars
  BY <1>14 DEF vars
<1> QED
  BY <1>1, <1>2, <1>3, <1>4, <1>5, <1>6, <1>7, <1>8, <1>9, <1>10, <1>11, <1>12, <1>13, <1>14
     DEF Next

----------------------------------------------------------------------------
LEMMA HealthyInit == Init => Healthy
BY Names DEF Init, Healthy, Promoting, Idle, At, Done

LEMMA HealthyNext == TypeOK /\ TypeOK' /\ Healthy /\ [Next]_vars => Healthy'
<1> SUFFICES ASSUME TypeOK, TypeOK', Healthy, [Next]_vars PROVE Healthy'
  OBVIOUS
<1> USE DEF TypeOK, Healthy, Promoting, OnHost, Runs, Idle, At, End, Done
<1>1. CASE Bootstrap
  BY <1>1, Names, JobFields DEF Bootstrap
<1>2. ASSUME NEW r \in Release, NEW confirmed \in BOOLEAN, Deploy(r, confirmed) PROVE Healthy'
  BY <1>2, Names, JobFields DEF Deploy, Pulled, StateIsLoaded, ImagesOf
<1>3. CASE Rollback
  BY <1>3, Names, JobFields DEF Rollback, Pulled, StateIsLoaded, ImagesOf
<1>4. CASE Update
  BY <1>4, Names, JobFields, GoAdvances DEF Update, BringUp, IsUp, Advanced
<1>5. CASE Verify
  <2>1. CASE Go("stage") /\ verified' = verified \cup {job.target}
    <3>1. Advanced("stage", job.backup)
      BY <1>5, <2>1, GoAdvances DEF Verify
    <3> QED BY <1>5, <2>1, <3>1, Names, JobFields DEF Verify, Advanced
  <2>2. CASE Go("failed") /\ UNCHANGED verified
    <3>1. Advanced("failed", job.backup)
      BY <1>5, <2>2, GoAdvances DEF Verify
    <3> QED BY <1>5, <2>2, <3>1, Names, JobFields DEF Verify, Advanced
  <2> QED BY <1>5, <2>1, <2>2 DEF Verify
<1>6. CASE Restore
  BY <1>6, Names, JobFields DEF Restore, BringUp
<1>7. CASE Stage
  <2>1. ASSUME NEW step \in {"clean", "current", "previous", "failed"}, Go(step),
               step = "clean" => current = job.target,
               step = "current" => current = None
        PROVE  Healthy'
    <3>1. Advanced(step, job.backup)
      BY <1>7, <2>1, GoAdvances DEF Stage
    <3> QED BY <1>7, <2>1, <3>1, Names, JobFields DEF Stage, Advanced
  <2> QED BY <1>7, <2>1 DEF Stage
<1>8. CASE MovePrevious
  BY <1>8, Names, JobFields, GoAdvances, MoveAdvances DEF MovePrevious, Advanced
<1>9. CASE MoveCurrent
  BY <1>9, Names, JobFields, GoAdvances DEF MoveCurrent, Advanced
<1>10. CASE MoveCurrentFails
  BY <1>10, Names, JobFields, GoAdvances DEF MoveCurrentFails, Advanced
<1>11. CASE CleanUp
  BY <1>11, Names, JobFields DEF CleanUp, ImagesOf
<1>12. CASE Kill
  BY <1>12, Names, JobFields DEF Kill
<1>13. CASE Reconcile
  BY <1>13, Names, JobFields DEF Reconcile, ImagesOf
<1>14. CASE UNCHANGED vars
  BY <1>14 DEF vars
<1> QED
  BY <1>1, <1>2, <1>3, <1>4, <1>5, <1>6, <1>7, <1>8, <1>9, <1>10, <1>11, <1>12, <1>13, <1>14
     DEF Next

LEMMA KeptInit == Init => Kept
BY DEF Init, Kept, Idle, At, Done

LEMMA KeptNext == TypeOK /\ TypeOK' /\ Healthy /\ Kept /\ [Next]_vars => Kept'
<1> SUFFICES ASSUME TypeOK, TypeOK', Healthy, Kept, [Next]_vars PROVE Kept'
  OBVIOUS
<1> USE DEF TypeOK, Healthy, Kept, Idle, At, End, Done
<1>1. CASE Bootstrap
  BY <1>1, Names, JobFields DEF Bootstrap
<1>2. ASSUME NEW r \in Release, NEW confirmed \in BOOLEAN, Deploy(r, confirmed) PROVE Kept'
  BY <1>2, Names, JobFields DEF Deploy, Pulled, StateIsLoaded, ImagesOf
<1>3. CASE Rollback
  BY <1>3, Names, JobFields DEF Rollback, Pulled, StateIsLoaded, ImagesOf
<1>4. CASE Update
  BY <1>4, Names, JobFields, GoAdvances DEF Update, BringUp, IsUp, Advanced
<1>5. CASE Verify
  BY <1>5, Names, JobFields, GoAdvances DEF Verify, Advanced
<1>6. CASE Restore
  BY <1>6, Names, JobFields DEF Restore, BringUp
<1>7. CASE Stage
  BY <1>7, Names, JobFields, GoAdvances DEF Stage, Advanced
<1>8. CASE MovePrevious
  BY <1>8, Names, JobFields, GoAdvances, MoveAdvances DEF MovePrevious, Advanced
<1>9. CASE MoveCurrent
  BY <1>9, Names, JobFields, GoAdvances DEF MoveCurrent, Advanced
<1>10. CASE MoveCurrentFails
  BY <1>10, Names, JobFields, GoAdvances DEF MoveCurrentFails, Advanced
<1>11. CASE CleanUp
  BY <1>11, Names, JobFields DEF CleanUp, ImagesOf
<1>12. CASE Kill
  BY <1>12, Names, JobFields DEF Kill
<1>13. CASE Reconcile
  BY <1>13, Names, JobFields DEF Reconcile, ImagesOf
<1>14. CASE UNCHANGED vars
  BY <1>14 DEF vars
<1> QED
  BY <1>1, <1>2, <1>3, <1>4, <1>5, <1>6, <1>7, <1>8, <1>9, <1>10, <1>11, <1>12, <1>13, <1>14
     DEF Next

LEMMA RecoverableInit == Init => Recoverable
BY Names DEF Init, Recoverable, Idle, At, Done

LEMMA RecoverableNext == TypeOK /\ TypeOK' /\ Healthy /\ Recoverable /\ [Next]_vars => Recoverable'
<1> SUFFICES ASSUME TypeOK, TypeOK', Healthy, Recoverable, [Next]_vars PROVE Recoverable'
  OBVIOUS
<1> USE DEF TypeOK, Healthy, Recoverable, Idle, At, End, Done
<1>1. CASE Bootstrap
  BY <1>1, Names, JobFields DEF Bootstrap
<1>2. ASSUME NEW r \in Release, NEW confirmed \in BOOLEAN, Deploy(r, confirmed) PROVE Recoverable'
  BY <1>2, Names, JobFields DEF Deploy, Pulled, StateIsLoaded, ImagesOf, SameConfig
<1>3. CASE Rollback
  BY <1>3, Names, JobFields DEF Rollback, Pulled, StateIsLoaded, ImagesOf, SameConfig
<1>4. CASE Update
  BY <1>4, Names, JobFields, GoAdvances DEF Update, BringUp, IsUp, Advanced
<1>5. CASE Verify
  BY <1>5, Names, JobFields, GoAdvances DEF Verify, Advanced
<1>6. CASE Restore
  BY <1>6, Names, JobFields DEF Restore, BringUp
<1>7. CASE Stage
  BY <1>7, Names, JobFields, GoAdvances DEF Stage, Advanced
<1>8. CASE MovePrevious
  BY <1>8, Names, JobFields, GoAdvances, MoveAdvances DEF MovePrevious, Advanced
<1>9. CASE MoveCurrent
  BY <1>9, Names, JobFields, GoAdvances DEF MoveCurrent, Advanced
<1>10. CASE MoveCurrentFails
  BY <1>10, Names, JobFields, GoAdvances DEF MoveCurrentFails, Advanced
<1>11. CASE CleanUp
  BY <1>11, Names, JobFields DEF CleanUp, ImagesOf
<1>12. CASE Kill
  BY <1>12, Names, JobFields DEF Kill
<1>13. CASE Reconcile
  BY <1>13, Names, JobFields DEF Reconcile, ImagesOf
<1>14. CASE UNCHANGED vars
  BY <1>14 DEF vars
<1> QED
  BY <1>1, <1>2, <1>3, <1>4, <1>5, <1>6, <1>7, <1>8, <1>9, <1>10, <1>11, <1>12, <1>13, <1>14
     DEF Next

----------------------------------------------------------------------------
Inv == TypeOK /\ Healthy /\ Kept /\ Recoverable

LEMMA InvAlways == Spec => []Inv
<1>1. Init => Inv
  BY TypesInit, HealthyInit, KeptInit, RecoverableInit DEF Inv
<1>2. Inv /\ [Next]_vars => Inv'
  BY TypesNext, HealthyNext, KeptNext, RecoverableNext DEF Inv
<1> QED BY <1>1, <1>2, PTL DEF Spec

(* The records, services, images and the job under way keep their types    *)
(* through every deployment, rollback, failure and kill of the script.     *)
THEOREM ReleaseTypes == Spec => []TypeOK
<1>1. Inv => TypeOK
  BY DEF Inv
<1> QED BY <1>1, InvAlways, PTL

(* For any number of releases, and wherever a job fails or is killed, a    *)
(* record names a release once verified whose images are kept, and success *)
(* means that the services are what current names.                         *)
THEOREM RecordsAreAlwaysTrue == Spec => []RecordsAreTrue
<1>1. Inv => RecordsAreTrue
  BY Names DEF Inv, Healthy, OnHost, Runs, RecordsAreTrue, ImagesOf
<1> QED BY <1>1, InvAlways, PTL

(* Between jobs previous names what current named before, unless a job     *)
(* ended between the two moves of promote_target_record.                   *)
THEOREM RollbackTargetIsAlwaysKept == Spec => []RollbackTargetIsKept
<1>1. Inv => RollbackTargetIsKept
  BY DEF Inv, Kept, RollbackTargetIsKept, Idle, At
<1> QED BY <1>1, InvAlways, PTL

(* A recovery, a rollback and a deployment that needed no confirmation     *)
(* leave the configuration alone or return it to the one recorded, however *)
(* many releases share their images, and whatever failed before.           *)
THEOREM ConfigStays == Spec => UnaskedKeepsRecordedConfig
<1> DEFINE KeepsRecorded == schema' # schema /\ ~ Idle /\ current # None =>
                      \/ At("up") /\ job.kind = "deploy" /\ ~ job.auto
                      \/ job.auto /\ schema' = Config[current]
<1>1. Inv /\ [Next]_vars => [KeepsRecorded]_vars
  <2> SUFFICES ASSUME Inv, Next, schema' # schema, ~ Idle, current # None
               PROVE  \/ At("up") /\ job.kind = "deploy" /\ ~ job.auto
                      \/ job.auto /\ schema' = Config[current]
    OBVIOUS
  <2> USE DEF Inv, Recoverable, Idle, At
  <2>1. CASE Update
    <3>1. job \in Underway
      BY DEF TypeOK, Ended
    <3>2. schema' = Config[job.target] /\ At("up")
      BY <2>1 DEF Update, BringUp
    <3>3. CASE job.auto
      BY <3>2, <3>3
    <3>4. CASE ~ job.auto
      BY <3>1, <3>2, <3>4 DEF Underway
    <3> QED BY <3>3, <3>4
  <2>2. CASE Restore
    BY <2>2 DEF Restore, BringUp
  <2>3. \/ UNCHANGED schema \/ Idle \/ Update \/ Restore
    BY DEF Next, Bootstrap, Deploy, Rollback, Pulled, Verify, Stage, MovePrevious,
           MoveCurrent, MoveCurrentFails, CleanUp, Kill, Reconcile
  <2> QED BY <2>1, <2>2, <2>3
<1> QED BY <1>1, InvAlways, PTL DEF Spec, UnaskedKeepsRecordedConfig
=============================================================================
