------------------------- MODULE ProtectedDatabase -------------------------
(***************************************************************************)
(* The password of a ProtectedDatabase.  OCI never shows it, so the client *)
(* keeps a hash of the last one it applied in a Secret of the object's     *)
(* name and sends the password of the spec when its hash differs.  Three   *)
(* wrappers of protecteddatabase_runtime_client.go are modelled: password  *)
(* tracking (outermost), delete confirmation and change operations (a move *)
(* to another compartment), around the generated runtime in its work       *)
(* request form, whose own details GeneratedRuntime has.  There is one     *)
(* step per call of OCI or of KubeSecretClient.                            *)
(*                                                                         *)
(* Objects have a password and no hash of an older operator in their       *)
(* status message.  A hash stands for its password.                        *)
(***************************************************************************)
EXTENDS AsyncStatus, Integers, Sequences

CONSTANTS Edits,                              \* what users may write: sequences of specs
          MaxTroubles,                        \* bound: failures, restarts, changes of the Secret
          MaxUid, MaxGen, MaxLag, MaxCrashes  \* bounds, see Reconciler

Passwords == {"p1", "p2"}

\* other: the fields that Update sends and Get shows.
Specs == [pw : Passwords, comp : {"c1", "c2"}, other : {"o1", "o2"}]

ASSUME ProtectedDatabaseAssumption ==
    /\ OCIDs = {1} /\ WorkRequestIDs \subseteq Nat \ {0}
    /\ MaxTroubles \in Nat
    /\ \A e \in Edits : e \in Seq(Specs) /\ Len(e) = MaxGen

\* There is one incarnation of the object, whose specs Edits gives.
ASSUME ReconcilerBounds ==
    MaxUid = 1 /\ MaxGen \in Nat \ {0} /\ MaxLag \in Nat \ {0} /\ MaxCrashes \in Nat

\* What users may have written after n edits.
WrittenSpecs(n) == {SubSeq(e, 1, n) : e \in Edits}

VARIABLES log, queued, timer, pc, obj, old, fresh, resp, crashes,
          touched, confirmed, tried,
          spec,     \* the generations of the object's spec so far
          db,       \* the database: [state, spec: in force, want: once the operation is done]
          wrs,      \* work request -> [phase, status]
          secret,   \* the Secret: "" (none), "foreign" (not the operator's) or the hash in it
          call,     \* the memory of the running CreateOrUpdate or Delete
          troubles, \* what went wrong so far
          late,     \* history: the spec was edited before the last edit had been settled
          raw404    \* history: Delete ended with a 404 that a wrapper passed on

R == INSTANCE Reconciler WITH
       Status <- OSOKStatus, EmptyStatus <- NoStatus, MergePatch <- MergeFrom,
       ZeroDuration <- FALSE

Api == R!Api

reconcilerVars == <<log, queued, timer, pc, obj, old, fresh, resp, crashes,
                    touched, confirmed, tried>>
ociVars        == <<db, wrs>>
histVars       == <<late, raw404>>
vars           == <<reconcilerVars, spec, ociVars, secret, call, troubles, histVars>>

CallSteps == {"none", "readForChange", "change", "followChange", "confirmChange",
              "enter", "create", "update", "readBack", "record", "reread", "rewrite",
              "guardPoll", "guardRead", "remove", "cleanup", "erase"}

\* hash: as loaded before the delegate was called ("": none recorded).
NoCall == [step |-> "none", st |-> NoStatus, hash |-> "", wr |-> 0, seen |-> ""]

Secrets == Passwords \cup {"", "foreign"}

TypeOK ==
    /\ R!TypeOK
    /\ \E n \in 1 .. MaxGen : spec \in WrittenSpecs(n)
    /\ db \in [state : {"NONE", "CREATING", "ACTIVE", "UPDATING", "DELETING", "GONE"},
               spec : Specs, want : Specs]
    /\ wrs \in [WorkRequestIDs ->
                  [phase : Phases \cup {""},
                   status : {"", "IN_PROGRESS", "SUCCEEDED", "FAILED"}]]
    /\ secret \in Secrets
    /\ call \in [step : CallSteps, st : OSOKStatus, hash : Passwords \cup {""},
                 wr : WorkRequestIDs \cup {0}, seen : Secrets]
    /\ troubles \in 0 .. MaxTroubles /\ {late, raw404} \subseteq BOOLEAN

Init ==
    /\ R!Init
    /\ spec \in WrittenSpecs(1)
    /\ db = [state |-> "NONE", spec |-> spec[1], want |-> spec[1]]
    /\ wrs = [w \in WorkRequestIDs |-> [phase |-> "", status |-> ""]]
    /\ secret = "" /\ call = NoCall
    /\ troubles = 0 /\ late = FALSE /\ raw404 = FALSE

At(step) == call.step = step

Continue(step, st) ==
    call' = [call EXCEPT !.step = step, !.st = st] /\ UNCHANGED reconcilerVars

Trouble   == troubles < MaxTroubles /\ troubles' = troubles + 1
NoTrouble == UNCHANGED troubles

-----------------------------------------------------------------------------
(* The Recovery service. *)

Visible == db.state \notin {"NONE", "GONE"}

\* The next free work request is opened, or none (w = 0).
OpenWorkRequest(phase, w) ==
    \/ w = 0 /\ UNCHANGED wrs
    \/ /\ w # 0 /\ wrs[w].phase = "" /\ \A v \in WorkRequestIDs : v < w => wrs[v].phase # ""
       /\ wrs' = [wrs EXCEPT ![w] = [phase |-> phase, status |-> "IN_PROGRESS"]]

\* A write is accepted when the database is idle; it opens work request w.
Accepted(phase, want, w) ==
    /\ db.state = IF phase = "create" THEN "NONE" ELSE "ACTIVE"
    /\ db' = [db EXCEPT !.want = want,
                        !.state = IF phase = "create" THEN "CREATING" ELSE "UPDATING"]
    /\ OpenWorkRequest(phase, w)

Refused(phase) ==
    \/ db.state # IF phase = "create" THEN "NONE" ELSE "ACTIVE"
    \/ \A w \in WorkRequestIDs : wrs[w].phase # ""

WorkRequestsEnd(status) ==
    wrs' = [w \in WorkRequestIDs |->
              IF wrs[w].status = "IN_PROGRESS" THEN [wrs[w] EXCEPT !.status = status]
              ELSE wrs[w]]

OperationSucceeds ==
    /\ db.state \in {"CREATING", "UPDATING", "DELETING"}
    /\ db' = [db EXCEPT !.state = IF @ = "DELETING" THEN "GONE" ELSE "ACTIVE",
                        !.spec = db.want]
    /\ WorkRequestsEnd("SUCCEEDED") /\ NoTrouble

UpdateFails ==
    /\ db.state = "UPDATING" /\ Trouble
    /\ db' = [db EXCEPT !.state = "ACTIVE", !.want = db.spec]
    /\ WorkRequestsEnd("FAILED")

Oci == OperationSucceeds \/ UpdateFails

-----------------------------------------------------------------------------
(* CreateOrUpdate: what the wrapped clients return. *)

Desired == spec[obj.gen]

Failure == [ok |-> FALSE, requeue |-> FALSE, after |-> FALSE]

Returns(st, r) == R!CreateOrUpdateReturns(st, r) /\ call' = NoCall

\* protectedDatabaseFailure.
Failed(st) == [st EXCEPT !.reason = "Failed"]

\* Mutant: a write that is still in progress counts too.
ShouldRecordPending(st) == ResponseFor(st).ok /\ st.ocid # 0

\* shouldRecordProtectedDatabasePasswordHash, for a delegate without error.
ShouldRecordPasswordHash(st) ==
    /\ ResponseFor(st).ok /\ ~ResponseFor(st).requeue /\ st.ocid # 0
    /\ st.async = NoAsync \/ st.async.class = "succeeded"

\* clearFailedProtectedDatabasePasswordUpdate, after an error.
ClearFailedPasswordUpdate(st) ==
    IF /\ call.hash # "" /\ call.hash # Desired.pw
       /\ st.async.phase = "update" /\ st.async.class \in {"failed", "unknown"}
      THEN ClearAsyncOperation(st) ELSE st

\* CreateOrUpdate of the password tracking client once its delegate is back.
DelegateReturns(st) ==
    IF ShouldRecordPasswordHash(st)
      THEN Continue("record", st)
      ELSE Returns(st, ResponseFor(st))

DelegateFails(st) == Returns(ClearFailedPasswordUpdate(st), Failure)

-----------------------------------------------------------------------------
(* CreateOrUpdate: password tracking, before the delegate. *)

\* Mutant: a Secret of the name is taken for the operator's.
OwnedIfPresent(s) == s # ""

\* SecretOwnedBy: the markers in the data name this kind and object.
SecretOwnedBy(s) == s \notin {"", "foreign"}

\* preparePasswordTracking, loadPasswordTrackingState.
LoadPasswordTrackingState ==
    /\ pc = "createOrUpdate" /\ At("none")
    /\ \/ Trouble /\ Returns(Failed(obj.st), Failure)
       \/ /\ NoTrouble /\ secret # "" /\ ~SecretOwnedBy(secret)
          /\ Returns(Failed(obj.st), Failure)
       \/ /\ NoTrouble /\ (secret = "" \/ SecretOwnedBy(secret))
          /\ call' = [NoCall EXCEPT
                        !.st = obj.st, !.hash = IF secret = "foreign" THEN "" ELSE secret,
                        !.step = IF obj.st.ocid # 0 THEN "readForChange" ELSE "enter"]
          /\ UNCHANGED reconcilerVars
    /\ UNCHANGED <<ociVars, secret>>

-----------------------------------------------------------------------------
(* CreateOrUpdate: change operations.  (The status has the compartment last *)
(* read, so with one move per object the read below is made when it is.)    *)

\* A failed read leaves the change to a later reconcile.
ReadForChange ==
    /\ At("readForChange")
    /\ \/ Trouble /\ Continue("enter", call.st)
       \/ /\ NoTrouble
          /\ Continue(IF db.state = "ACTIVE" /\ db.spec.comp # Desired.comp
                        THEN "change" ELSE "enter", call.st)
    /\ UNCHANGED <<ociVars, secret>>

\* A change that was answered without a work request is only confirmed.
ChangeCompartment ==
    /\ At("change")
    /\ \/ \E w \in WorkRequestIDs \cup {0} :
             /\ Accepted("update", [db.spec EXCEPT !.comp = Desired.comp], w)
             /\ \/ /\ NoTrouble
                   /\ call' = [call EXCEPT
                                 !.step = IF w # 0 THEN "followChange" ELSE "confirmChange",
                                 !.wr = w]
                   /\ UNCHANGED reconcilerVars
                \/ Trouble /\ DelegateFails(Failed(call.st))
       \/ /\ Trouble \/ (Refused("update") /\ NoTrouble)
          /\ DelegateFails(Failed(call.st)) /\ UNCHANGED ociVars
    /\ UNCHANGED secret

\* followChangeWorkRequest.  A failed poll loses the work request.
FollowChangeWorkRequest ==
    /\ At("followChange")
    /\ LET status == wrs[call.wr].status
           observed == SetWorkRequestOperation(call.st, "update", call.wr, Normalize(status))
       IN  \/ Trouble /\ DelegateFails(Failed(call.st))
           \/ NoTrouble /\ status = "IN_PROGRESS" /\ DelegateReturns(observed)
           \/ NoTrouble /\ status = "FAILED" /\ DelegateFails(observed)
           \/ NoTrouble /\ status = "SUCCEEDED" /\ Continue("confirmChange", call.st)
    /\ UNCHANGED <<ociVars, secret>>

\* markProtectedDatabaseUpdatePending.
MarkUpdatePending(st) ==
    LET seen == [st EXCEPT !.ocid = 1]
        op   == ClassifyLifecycle(seen, db.state, "update")
    IN  ApplyAsyncOperation(seen,
            IF op # NoAsync THEN op
            ELSE [source |-> "lifecycle", phase |-> "update", wr |-> 0, class |-> "pending"])

\* applyCompartmentChangeIfNeeded reads again: the database may not have been
\* moved yet.
ConfirmChange ==
    /\ At("confirmChange")
    /\ \/ Trouble /\ DelegateFails(Failed(call.st))
       \/ /\ NoTrouble
          /\ IF db.spec.comp # Desired.comp \/ db.state \in {"CREATING", "UPDATING", "DELETING"}
               THEN DelegateReturns(MarkUpdatePending(call.st))
               ELSE Continue("enter", call.st)
    /\ UNCHANGED <<ociVars, secret>>

-----------------------------------------------------------------------------
(* CreateOrUpdate: the generated runtime, as in GeneratedRuntime. *)

Tracked == ResolveTrackedWorkRequest(call.st)

\* After a stale status patch the tracker may have the work request of another
\* operation, or none: an error, for none only when Delete looks for it.
PhaseConflicts ==
    ~ \E w \in WorkRequestIDs : w = Tracked /\ wrs[w].phase = call.st.async.phase

\* The work request of a create or an update is resumed.  Once it has
\* succeeded the database is only read: nothing is compared with the spec.
ResumeWorkRequest ==
    /\ At("enter") /\ Tracked # 0
    /\ LET st       == call.st
           status   == wrs[Tracked].status
           observed == SetWorkRequestOperation(st, st.async.phase, Tracked, Normalize(status))
       IN  \/ /\ Trouble \/ (PhaseConflicts /\ NoTrouble)
              /\ DelegateFails(MarkFailure(st))
           \/ /\ ~PhaseConflicts /\ NoTrouble
              /\ \/ status = "IN_PROGRESS" /\ DelegateReturns(observed)
                 \/ status = "FAILED" /\ DelegateFails(observed)
                 \/ status = "SUCCEEDED" /\ Continue("readBack", st)
    /\ UNCHANGED <<ociVars, secret>>

CompleteWorkRequestWrite ==
    /\ At("readBack")
    /\ LET st == call.st
       IN  \/ /\ Trouble
              /\ DelegateFails(SetWorkRequestOperation(st, st.async.phase, Tracked, "failed"))
           \/ NoTrouble /\ DelegateReturns(ApplySuccess(st, 1, db.state, st.async.phase))
    /\ UNCHANGED <<ociVars, secret>>

\* setProtectedDatabasePasswordUpdate.
PasswordUpdate == call.hash # "" /\ call.hash # Desired.pw

\* buildProtectedDatabaseUpdateBody.
UpdateBody ==
    [db.spec EXCEPT !.other = Desired.other,
                    !.pw = IF PasswordUpdate THEN Desired.pw ELSE @]

\* validateProtectedDatabasePasswordTracking rejects a known database without
\* a recorded hash (createdAt is set along with the OCID).
PasswordUntracked == call.st.ocid # 0 /\ call.hash = ""

\* The tracked database, or the listed one, is updated or observed; with none
\* it is created.
ResolveExisting ==
    /\ At("enter") /\ Tracked = 0
    /\ LET st     == call.st
           found  == Visible /\ (st.ocid # 0 \/ db.spec.comp = Desired.comp)
           update == PasswordUpdate \/ db.spec.other # Desired.other
       IN  \/ Trouble /\ DelegateFails(MarkFailure(st))
           \/ NoTrouble /\ ~found /\ Continue("create", [st EXCEPT !.ocid = 0])
           \/ /\ NoTrouble /\ found /\ db.state # "ACTIVE"
              /\ DelegateReturns(ApplySuccess(st, 1, db.state, ""))
           \/ /\ NoTrouble /\ found /\ db.state = "ACTIVE"
              /\ CASE PasswordUntracked            -> DelegateFails(MarkFailure(st))
                   [] ~PasswordUntracked /\ update -> Continue("update", [st EXCEPT !.ocid = 1])
                   [] OTHER -> DelegateReturns(ApplySuccess(st, 1, "ACTIVE", ""))
    /\ UNCHANGED <<ociVars, secret>>

\* Create and Update.  An accepted one is followed up through its work
\* request; when its answer is lost nothing of it is recorded.
Write(phase, want) ==
    /\ \/ \E w \in WorkRequestIDs :
             /\ Accepted(phase, want, w)
             /\ \/ /\ NoTrouble
                   /\ Continue("enter", SeedOpeningWorkRequestID(
                                  [call.st EXCEPT !.ocid = 1], phase, w))
                \/ Trouble /\ DelegateFails(MarkFailure(call.st))
       \/ /\ Trouble \/ (Refused(phase) /\ NoTrouble)
          /\ DelegateFails(MarkFailure(call.st)) /\ UNCHANGED ociVars
    /\ UNCHANGED secret

Create == At("create") /\ Write("create", Desired)
Update == At("update") /\ Write("update", UpdateBody)

-----------------------------------------------------------------------------
(* CreateOrUpdate: password tracking, after the delegate. *)

\* An error of the Secret client fails the reconcile, the status is kept.
SecretFails == Trouble /\ Returns(Failed(call.st), Failure)

\* A write of the Secret took effect; its answer may get lost.
SecretWritten ==
    \/ NoTrouble /\ Returns(call.st, ResponseFor(call.st))
    \/ SecretFails

CreatePasswordStateSecret ==
    /\ At("record")
    /\ \/ SecretFails /\ UNCHANGED secret
       \/ secret = "" /\ secret' = Desired.pw /\ SecretWritten
       \/ NoTrouble /\ secret # "" /\ Continue("reread", call.st) /\ UNCHANGED secret
    /\ UNCHANGED ociVars

\* updatePasswordStateSecretIfNeeded: the Secret is read ...
RereadPasswordStateSecret ==
    /\ At("reread")
    /\ \/ SecretFails
       \/ /\ NoTrouble /\ ~SecretOwnedBy(secret)
          /\ Returns(Failed(call.st), Failure)
       \/ /\ NoTrouble /\ SecretOwnedBy(secret) /\ secret = Desired.pw
          /\ Returns(call.st, ResponseFor(call.st))
       \/ /\ NoTrouble /\ SecretOwnedBy(secret) /\ secret # Desired.pw
          /\ call' = [call EXCEPT !.step = "rewrite", !.seen = secret]
          /\ UNCHANGED reconcilerVars
    /\ UNCHANGED <<ociVars, secret>>

\* ... and whatever has its name now is written.
UpdatePasswordStateSecret ==
    /\ At("rewrite")
    /\ \/ SecretFails /\ UNCHANGED secret
       \/ /\ NoTrouble /\ secret = ""
          /\ Returns(Failed(call.st), Failure) /\ UNCHANGED secret
       \/ secret # "" /\ secret' = Desired.pw /\ SecretWritten
    /\ UNCHANGED ociVars

-----------------------------------------------------------------------------
(* Delete. *)

DeleteReturns(st, out) ==
    /\ R!DeleteReturns(st, out) /\ call' = NoCall
    /\ raw404' = (raw404 \/ out = "404 NotFound")

ContinueDelete(step, st) == Continue(step, st) /\ UNCHANGED raw404

\* protectedDatabasePendingWriteWorkRequest.
PendingWrite(st) ==
    /\ st.async.source = "workrequest" /\ st.async.class = "pending"
    /\ st.async.phase \in {"create", "update"}

StartDelete ==
    /\ pc = "delete" /\ At("none") /\ NoTrouble
    /\ call' = [NoCall EXCEPT !.st = obj.st,
                  !.step = IF PendingWrite(obj.st) THEN "guardPoll" ELSE "remove"]
    /\ UNCHANGED <<reconcilerVars, ociVars, secret, raw404>>

\* An error may be a 404, which the wrappers return as it is.
DeleteErrors == {"error", "404 NotFound"}

\* guardPendingWriteBeforeDelete.
GuardPendingWrite ==
    /\ At("guardPoll")
    /\ LET st       == call.st
           status   == wrs[Tracked].status
           observed == SetWorkRequestOperation(st, st.async.phase, Tracked, Normalize(status))
       IN  \/ Trouble /\ \E out \in DeleteErrors : DeleteReturns(Failed(st), out)
           \/ NoTrouble /\ PhaseConflicts /\ DeleteReturns(Failed(st), "error")
           \/ /\ ~PhaseConflicts /\ NoTrouble
              /\ \/ status = "IN_PROGRESS" /\ DeleteReturns(observed, "pending")
                 \/ status = "FAILED" /\ DeleteReturns(observed, "error")
                 \/ status = "SUCCEEDED" /\ ContinueDelete("guardRead", st)
    /\ UNCHANGED <<ociVars, secret>>

\* confirmPendingWriteReadback: a database that has gone, because an earlier
\* Delete got through and its status was lost, is an error here.
ConfirmPendingWriteReadback ==
    /\ At("guardRead")
    /\ \/ Trouble /\ DeleteReturns(call.st, "error")
       \/ /\ NoTrouble /\ ~Visible
          /\ \E out \in DeleteErrors : DeleteReturns(call.st, out)
       \/ NoTrouble /\ Visible /\ ContinueDelete("remove", ClearAsyncOperation(call.st))
    /\ UNCHANGED <<ociVars, secret>>

\* rejectAuthShapedConfirmRead, then Delete of the generated runtime.  What
\* went wrong may be the poll of its work request, answered with 404.
DeleteDatabase ==
    /\ At("remove")
    /\ LET st == call.st
       IN  \/ /\ Trouble /\ UNCHANGED ociVars
              /\ \E out \in DeleteErrors : DeleteReturns(st, out)
           \/ /\ NoTrouble /\ ~Visible /\ UNCHANGED ociVars
              /\ ContinueDelete("cleanup", MarkDeleted(st))
           \/ /\ NoTrouble /\ db.state \in {"CREATING", "UPDATING"} /\ UNCHANGED ociVars
              /\ DeleteReturns(st, "error")
           \/ /\ NoTrouble /\ db.state = "DELETING" /\ UNCHANGED ociVars
              /\ DeleteReturns(MarkTerminating(st), "pending")
           \/ /\ db.state = "ACTIVE"
              /\ db' = [db EXCEPT !.state = "DELETING"] /\ UNCHANGED wrs
              /\ \/ NoTrouble /\ DeleteReturns(MarkTerminating(st), "pending")
                 \/ Trouble /\ DeleteReturns(st, "error")
    /\ UNCHANGED secret

\* DeleteOwnedSecretIfPresent: the Secret is read ...
DeletePasswordStateSecret ==
    /\ At("cleanup")
    /\ \/ Trouble /\ DeleteReturns(call.st, "error")
       \/ NoTrouble /\ ~SecretOwnedBy(secret) /\ DeleteReturns(call.st, "deleted")
       \/ /\ NoTrouble /\ SecretOwnedBy(secret)
          /\ call' = [call EXCEPT !.step = "erase", !.seen = secret]
          /\ UNCHANGED <<reconcilerVars, raw404>>
    /\ UNCHANGED <<ociVars, secret>>

\* Mutant: an error of the deletion is ignored.
EraseErrorIgnored ==
    /\ At("erase")
    /\ \/ Trouble /\ UNCHANGED secret
       \/ NoTrouble /\ secret' = ""
    /\ DeleteReturns(call.st, "deleted")
    /\ UNCHANGED ociVars

\* ... and deleted by its name.
EraseSecret ==
    /\ At("erase")
    /\ \/ Trouble /\ secret' \in {secret, ""} /\ DeleteReturns(call.st, "error")
       \/ NoTrouble /\ secret' = "" /\ DeleteReturns(call.st, "deleted")
    /\ UNCHANGED ociVars

-----------------------------------------------------------------------------
(* The whole. *)

\* Nothing is under way for the object, its status knows the database, the last
\* spec is in force, and the recorded hash is that of its password.
Settled ==
    /\ pc = "idle" /\ db.state = "ACTIVE"
    /\ db.spec = spec[Len(spec)] /\ secret = db.spec.pw
    /\ Api.st.ocid # 0 /\ Api.st.async = NoAsync

\* Users as in Operator: no finalizers of others, no edit after the deletion.
Users ==
    \/ R!UserCreate /\ ~Api'.ext /\ UNCHANGED <<spec, late>>
    \/ /\ R!UserEditSpec /\ ~Api.del
       /\ \E next \in WrittenSpecs(Len(spec) + 1) :
             SubSeq(next, 1, Len(spec)) = spec /\ spec' = next
       /\ late' = (late \/ ~Settled)
    \/ R!UserDelete /\ UNCHANGED <<spec, late>>

\* Users delete the Secret or put their own in its place.
UserChangesSecret ==
    /\ Trouble
    /\ secret' \in {"", "foreign"} \ {secret}
    /\ UNCHANGED <<reconcilerVars, spec, ociVars, call, histVars>>

Kubernetes ==
    /\ \/ Users
       \/ (R!Deliver \/ R!TimerFires \/ R!Controller) /\ UNCHANGED <<spec, late>>
    /\ UNCHANGED <<ociVars, secret, call, troubles, raw404>>

\* A restart ends the call in flight.
Restart ==
    /\ R!Restart /\ Trouble
    /\ call' = NoCall
    /\ UNCHANGED <<spec, ociVars, secret, histVars>>

CreateOrUpdate ==
    /\ \/ LoadPasswordTrackingState
       \/ ReadForChange \/ ChangeCompartment \/ FollowChangeWorkRequest \/ ConfirmChange
       \/ ResumeWorkRequest \/ CompleteWorkRequestWrite
       \/ ResolveExisting \/ Create \/ Update
       \/ CreatePasswordStateSecret \/ RereadPasswordStateSecret
       \/ UpdatePasswordStateSecret
    /\ UNCHANGED raw404

Delete ==
    \/ StartDelete \/ GuardPendingWrite \/ ConfirmPendingWriteReadback
    \/ DeleteDatabase \/ DeletePasswordStateSecret \/ EraseSecret

Next ==
    \/ Kubernetes \/ Restart \/ UserChangesSecret
    \/ (CreateOrUpdate \/ Delete) /\ UNCHANGED <<spec, late>>
    \/ Oci /\ UNCHANGED <<reconcilerVars, spec, secret, call, histVars>>

Spec == Init /\ [][Next]_vars

-----------------------------------------------------------------------------
(* Properties. *)

\* A CreateOrUpdate that ends in Active leaves the database with the password
\* of the spec, although answers are lost, updates fail, the operator restarts
\* between the update and the Secret, or the Secret changes under it.  Not so
\* for an edit made before the last one was settled: the work request in
\* flight then ends in Active, and the hash of a password that was never sent
\* is recorded (shouldRecordProtectedDatabasePasswordHash).
ActiveMeansPassword ==
    pc = "patchStatus" /\ obj.st.reason = "Active" /\ ~late => db.spec.pw = Desired.pw

\* The Secret goes with the object: as long as it exists, the object is stored
\* with the finalizer, so that some later Delete cleans up.  Not so after a
\* 404 that reaches the reconciler as an error of Delete, which it takes for a
\* confirmed deletion (deleteResourceResult).
NoSecretLeftBehind == secret \in Passwords /\ ~raw404 => Api.ex /\ Api.fin

\* The operator overwrites or deletes a Secret of somebody else only if it has
\* taken the place of its own since it looked (GetSecret, then DeleteSecret or
\* UpdateSecret by name).
ForeignSecretKept ==
    [][secret = "foreign" /\ secret' # secret /\ call' # call => call.seen \in Passwords]_vars

\* Every step is a step of the reconciler with an arbitrary service manager,
\* or leaves it alone; as in Operator, with the manager's status named.
ReconcilerStep ==
    \/ R!Environment \/ R!Deliver \/ R!TimerFires \/ R!Restart \/ R!Controller
    \/ \E r \in R!AnyResponses : obj'.st \in OSOKStatus /\ R!CreateOrUpdateReturns(obj'.st, r)
    \/ \E st \in {obj'.st, old}, out \in R!DeleteOutcomes :
          st \in OSOKStatus /\ R!DeleteReturns(st, out)

ImplementsReconciler == R!Init /\ [][ReconcilerStep]_reconcilerVars
=============================================================================
