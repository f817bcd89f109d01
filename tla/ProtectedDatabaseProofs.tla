---------------------- MODULE ProtectedDatabaseProofs ----------------------
(***************************************************************************)
(* Proofs about ProtectedDatabase, for every sequence of edits, every set  *)
(* of work requests and every number of failures: its types, that it       *)
(* implements Reconciler, and what happens to the Secret with the hash.    *)
(***************************************************************************)
EXTENDS ProtectedDatabase, AsyncStatusProofs

RP == INSTANCE ReconcilerProofs WITH
        Status <- OSOKStatus, EmptyStatus <- NoStatus, MergePatch <- MergeFrom,
        ZeroDuration <- FALSE

\* The assumptions under which the theorems about Reconciler were proved.
LEMMA StatusFits == RP!StatusAssumption
  BY MergeFromIsStatus DEF RP!StatusAssumption

LEMMA BoundsFit == RP!BoundsAssumption
  BY ReconcilerBounds DEF RP!BoundsAssumption

\* The two instances of Reconciler, the one of ProtectedDatabase and the one
\* that comes with the theorems, are the same.
LEMMA SameInit == R!Init <=> RP!Init
  BY Zenon DEF R!Init, R!Gone, R!NoResponse, RP!Init, RP!Gone, RP!NoResponse

LEMMA SameVars == R!vars = RP!vars /\ R!vars' = RP!vars'
  BY Zenon DEF R!vars, R!apiVars, R!ctrlVars, R!histVars,
               RP!vars, RP!apiVars, RP!ctrlVars, RP!histVars

LEMMA SameNext == R!Next <=> RP!Next
  BY Zenon DEF
    R!Next, R!Environment, R!Controller, R!ServiceManager, R!UserCreate, R!UserEditSpec,
    R!UserDelete, R!OtherFinalizerRemoved, R!StoreByOther, R!Store, R!Gone, R!Api, R!Cached,
    R!Room, R!Deliver, R!ReconcilePredicate, R!TimerFires, R!Restart, R!NoResponse, R!Start,
    R!CallCreateOrUpdate, R!Finish, R!UpdateAccepted, R!AddFinalizer, R!FinalizerUpdateFails,
    R!CreateOrUpdateReturns, R!PatchApplied, R!RequeueOf, R!PatchStatus, R!DeleteReturns,
    R!DeleteResourceResult, R!DeleteOutcomes, R!PatchDeleteStatus, R!RemoveFinalizer,
    R!Responses, R!AnyResponses, R!apiVars, R!histVars,
    RP!Next, RP!Environment, RP!Controller, RP!ServiceManager, RP!UserCreate,
    RP!UserEditSpec, RP!UserDelete, RP!OtherFinalizerRemoved, RP!StoreByOther, RP!Store,
    RP!Gone, RP!Api, RP!Cached, RP!Room, RP!Deliver, RP!ReconcilePredicate, RP!TimerFires,
    RP!Restart, RP!NoResponse, RP!Start, RP!CallCreateOrUpdate, RP!Finish,
    RP!UpdateAccepted, RP!AddFinalizer, RP!FinalizerUpdateFails, RP!CreateOrUpdateReturns,
    RP!PatchApplied, RP!RequeueOf, RP!PatchStatus, RP!DeleteReturns,
    RP!DeleteResourceResult, RP!DeleteOutcomes, RP!PatchDeleteStatus, RP!RemoveFinalizer,
    RP!Responses, RP!AnyResponses, RP!apiVars, RP!histVars

LEMMA SameType == (R!TypeOK <=> RP!TypeOK) /\ (R!TypeOK' <=> RP!TypeOK')
  BY Zenon DEF R!TypeOK, R!Version, R!Steps, R!Responses,
               RP!TypeOK, RP!Version, RP!Steps, RP!Responses

-----------------------------------------------------------------------------
(* The inductive invariant. *)

CreateSteps == {"readForChange", "change", "followChange", "confirmChange", "enter",
                "create", "update", "readBack", "record", "reread", "rewrite"}
DeleteSteps == {"guardPoll", "guardRead", "remove", "cleanup", "erase"}

CallRecord == [step : CallSteps, st : OSOKStatus, hash : Passwords \cup {""},
               wr : WorkRequestIDs \cup {0}, seen : Secrets]

\* A call runs only while the reconciler waits for it; a Secret is written or
\* deleted by name only after the operator's own was read.
CallOK ==
    /\ call \in CallRecord
    /\ call.step \in CreateSteps => pc = "createOrUpdate"
    /\ call.step \in DeleteSteps => pc = "delete"
    /\ call.step = "readBack" => Tracked # 0
    /\ call.step \in {"rewrite", "erase"} => call.seen \in Passwords

\* The object held by CreateOrUpdate has a generation that was written.
SpecOK ==
    /\ Len(spec) \in 1 .. MaxGen /\ spec \in WrittenSpecs(Len(spec))
    /\ Api.ex /\ ~Api.del => Api.gen = Len(spec)
    /\ Api.uid = 0 => ~Api.ex /\ Len(spec) = 1
    /\ \A i \in 1 .. Len(log) : log[i].ex /\ ~log[i].del => log[i].gen \in 1 .. Len(spec)
    /\ pc = "addFinalizer" /\ fresh => obj = Api
    /\ pc = "createOrUpdate" => obj.gen \in 1 .. Len(spec)

\* A hash is recorded for an incarnation whose deletion has not been
\* confirmed, unless a 404 has been taken for the confirmation.
HashGuarded == secret \in Passwords /\ ~raw404 => \E u \in touched : u \notin confirmed

StateOK ==
    /\ db \in [state : {"NONE", "CREATING", "ACTIVE", "UPDATING", "DELETING", "GONE"},
               spec : Specs, want : Specs]
    /\ wrs \in [WorkRequestIDs ->
                  [phase : Phases \cup {""},
                   status : {"", "IN_PROGRESS", "SUCCEEDED", "FAILED"}]]
    /\ secret \in Secrets
    /\ troubles \in 0 .. MaxTroubles
    /\ late \in BOOLEAN /\ raw404 \in BOOLEAN

PInv == RP!IInv /\ CallOK /\ SpecOK /\ StateOK /\ HashGuarded

-----------------------------------------------------------------------------
(* Steps of a call. *)

\* How a step of CreateOrUpdate or Delete ends: it returns to the reconciler,
\* or the call goes on.
CallStep ==
    \/ \E st \in OSOKStatus, r \in R!AnyResponses :
          R!CreateOrUpdateReturns(st, r) /\ call' = NoCall
    \/ \E st \in OSOKStatus, out \in R!DeleteOutcomes :
          R!DeleteReturns(st, out) /\ call' = NoCall
    \/ UNCHANGED reconcilerVars /\ CallOK'

LEMMA NoCallOK == NoCall \in CallRecord /\ NoCall.step = "none"
  BY MergeFromIsStatus DEF NoCall, CallRecord, CallSteps, Secrets

LEMMA StatusType ==
    ASSUME NEW st \in OSOKStatus
    PROVE  /\ Failed(st) \in OSOKStatus /\ ClearAsyncOperation(st) \in OSOKStatus
           /\ [st EXCEPT !.ocid = 0] \in OSOKStatus /\ [st EXCEPT !.ocid = 1] \in OSOKStatus
           /\ ClearFailedPasswordUpdate(st) \in OSOKStatus
<1>1. 1 \in OCIDs
  BY ProtectedDatabaseAssumption
<1>2. NoAsync \in AsyncOperation /\ "Failed" \in Conditions
  BY DEF NoAsync, AsyncOperation, Conditions
<1>3. ClearAsyncOperation(st) \in OSOKStatus
  BY <1>2 DEF OSOKStatus, ClearAsyncOperation
<1> QED
  BY <1>1, <1>2, <1>3 DEF OSOKStatus, Failed, ClearFailedPasswordUpdate

\* The status of a move that is not visible yet.
LEMMA UpdatePendingType ==
    ASSUME NEW st \in OSOKStatus
    PROVE  MarkUpdatePending(st) \in OSOKStatus
<1> DEFINE seen == [st EXCEPT !.ocid = 1]
           op   == ClassifyLifecycle(seen, db.state, "update")
           pending == [source |-> "lifecycle", phase |-> "update", wr |-> 0, class |-> "pending"]
<1>1. seen \in OSOKStatus
  BY StatusType
<1> HIDE DEF seen
<1>2. op = NoAsync \/ op \in AsyncOperation
  BY DEF ClassifyLifecycle, AsyncOperation, Phases, Classes
<1>3. pending \in AsyncOperation
  BY DEF AsyncOperation, Phases, Classes
<1>4. MarkUpdatePending(st) = ApplyAsyncOperation(seen, IF op # NoAsync THEN op ELSE pending)
  BY DEF MarkUpdatePending, seen
<1> HIDE DEF op, pending
<1> QED
  BY <1>1, <1>2, <1>3, <1>4, ApplyType

LEMMA FailureIsResponse == Failure \in R!AnyResponses
  BY DEF Failure, R!AnyResponses, R!Responses

LEMMA ResponseAllowed == \A st : ResponseFor(st) \in R!AnyResponses
  BY ResponseType DEF R!AnyResponses, R!Responses

LEMMA ReturnsOK ==
    ASSUME NEW st \in OSOKStatus, NEW r \in R!AnyResponses, Returns(st, r)
    PROVE  CallStep
  BY DEF Returns, CallStep

LEMMA DeleteReturnsOK ==
    ASSUME NEW st \in OSOKStatus,
           NEW out \in {"deleted", "pending", "404 NotFound", "error"}, DeleteReturns(st, out)
    PROVE  CallStep
<1>1. out \in R!DeleteOutcomes
  BY DEF R!DeleteOutcomes
<1> QED
  BY <1>1 DEF DeleteReturns, CallStep

\* The call goes on with another step, in the same call of the reconciler.
LEMMA ContinueOK ==
    ASSUME CallOK, NEW s \in CreateSteps \cup DeleteSteps, NEW st \in OSOKStatus,
           Continue(s, st), s \notin {"rewrite", "erase"},
           s \in CreateSteps => pc = "createOrUpdate", s \in DeleteSteps => pc = "delete",
           s = "readBack" => ResolveTrackedWorkRequest(st) # 0
    PROVE  CallStep
<1>1. call \in CallRecord
  BY DEF CallOK
<1>2. s \in CallSteps
  BY DEF CreateSteps, DeleteSteps, CallSteps
<1>3. call' \in CallRecord /\ call'.step = s /\ call'.st = st /\ UNCHANGED pc
  BY <1>1, <1>2 DEF Continue, CallRecord, reconcilerVars
<1>4. CallOK'
  BY <1>3 DEF CallOK, Tracked
<1> QED
  BY <1>4 DEF CallStep, Continue

LEMMA DelegateOK ==
    ASSUME CallOK, pc = "createOrUpdate", NEW st \in OSOKStatus,
           DelegateReturns(st) \/ DelegateFails(st)
    PROVE  CallStep
<1>1. CASE DelegateFails(st)
  BY <1>1, StatusType, FailureIsResponse, ReturnsOK DEF DelegateFails
<1>2. CASE Continue("record", st)
  BY <1>2, ContinueOK DEF CreateSteps, DeleteSteps
<1>3. CASE Returns(st, ResponseFor(st))
  BY <1>3, ResponseAllowed, ReturnsOK
<1> QED
  BY <1>1, <1>2, <1>3 DEF DelegateReturns

LEMMA NormalizeType ==
    /\ Normalize("IN_PROGRESS") = "pending" /\ Normalize("FAILED") = "failed"
    /\ {"pending", "failed", "succeeded"} \subseteq Classes
  BY DEF Normalize, Classes

\* A work request that is tracked, or polled, has its phase.
LEMMA TrackedPhase ==
    ASSUME call.st \in OSOKStatus
    PROVE  /\ Tracked \in WorkRequestIDs \cup {0}
           /\ Tracked # 0 \/ ~PhaseConflicts => call.st.async.phase \in Phases
           /\ call.st.async.phase \in Phases \cup {""}
<1>1. /\ call.st.async.wr \in WorkRequestIDs \cup {0}
      /\ call.st.async.phase \in Phases \cup {""}
  BY DEF OSOKStatus, AsyncOperation
<1>2. ~PhaseConflicts => Tracked # 0
  BY IdentifierAssumption DEF PhaseConflicts
<1> QED
  BY <1>1, <1>2 DEF Tracked, ResolveTrackedWorkRequest

\* Each step of CreateOrUpdate returns or goes on.
LEMMA CreateOrUpdateStep ==
    ASSUME CallOK, secret \in Secrets, obj.st \in OSOKStatus, CreateOrUpdate
    PROVE  CallStep
<1>c. /\ call \in CallRecord /\ call.st \in OSOKStatus
      /\ call.wr \in WorkRequestIDs \cup {0}
  BY DEF CallOK, CallRecord
<1>p. call.step \in CreateSteps => pc = "createOrUpdate"
  BY DEF CallOK
<1>t. /\ Tracked \in WorkRequestIDs \cup {0}
      /\ Tracked # 0 => call.st.async.phase \in Phases
      /\ call.st.async.phase \in Phases \cup {""}
  BY <1>c, TrackedPhase
<1>s. /\ Failed(call.st) \in OSOKStatus /\ MarkFailure(call.st) \in OSOKStatus
      /\ [call.st EXCEPT !.ocid = 0] \in OSOKStatus
      /\ [call.st EXCEPT !.ocid = 1] \in OSOKStatus
  BY <1>c, StatusType, MarkType
<1>o. 1 \in OCIDs \cup {0} /\ {"create", "update"} \subseteq Phases
  BY ProtectedDatabaseAssumption DEF Phases
<1>e. {"change", "enter", "confirmChange", "create", "update", "readBack", "record",
       "reread"} \subseteq CreateSteps \ (DeleteSteps \cup {"rewrite", "erase"})
  BY DEF CreateSteps, DeleteSteps
<1>f. ASSUME pc = "createOrUpdate", NEW st \in OSOKStatus,
             NEW s \in {"change", "enter", "confirmChange", "create", "update", "record",
                        "reread"}, Continue(s, st)
      PROVE  CallStep
  BY <1>e, <1>f, ContinueOK
<1>g. ASSUME NEW st \in OSOKStatus, Returns(st, Failure) \/ Returns(st, ResponseFor(st))
      PROVE  CallStep
  BY <1>g, ReturnsOK, FailureIsResponse, ResponseAllowed
<1>1. CASE LoadPasswordTrackingState
  <2>1. CASE Returns(Failed(obj.st), Failure)
    BY <1>g, <2>1, StatusType
  <2>2. CASE /\ secret = "" \/ SecretOwnedBy(secret)
             /\ call' = [NoCall EXCEPT
                  !.st = obj.st, !.hash = IF secret = "foreign" THEN "" ELSE secret,
                  !.step = IF obj.st.ocid # 0 THEN "readForChange" ELSE "enter"]
             /\ UNCHANGED reconcilerVars
    <3> DEFINE s == IF obj.st.ocid # 0 THEN "readForChange" ELSE "enter"
    <3>1. s \in CallSteps /\ s \in CreateSteps \ (DeleteSteps \cup {"rewrite", "erase", "readBack"})
      BY DEF CallSteps, CreateSteps, DeleteSteps
    <3>2. (IF secret = "foreign" THEN "" ELSE secret) \in Passwords \cup {""}
      BY DEF Secrets
    <3>3. call' = [NoCall EXCEPT !.st = obj.st,
                    !.hash = IF secret = "foreign" THEN "" ELSE secret, !.step = s]
      BY <2>2
    <3> HIDE DEF s
    <3>4. call' \in CallRecord /\ call'.step = s
      BY <3>1, <3>2, <3>3, NoCallOK DEF CallRecord
    <3>5. pc' = "createOrUpdate"
      BY <1>1, <2>2 DEF LoadPasswordTrackingState, reconcilerVars
    <3>6. CallOK'
      BY <3>1, <3>4, <3>5 DEF CallOK
    <3> QED
      BY <2>2, <3>6 DEF CallStep
  <2> QED
    BY <1>1, <2>1, <2>2 DEF LoadPasswordTrackingState
<1>2. CASE ReadForChange
  <2>1. pc = "createOrUpdate"
    BY <1>2, <1>p DEF ReadForChange, At, CreateSteps
  <2> QED
    BY <1>2, <1>c, <1>f, <2>1 DEF ReadForChange
<1>3. CASE ChangeCompartment
  <2>1. pc = "createOrUpdate"
    BY <1>3, <1>p DEF ChangeCompartment, At, CreateSteps
  <2>2. CASE DelegateFails(Failed(call.st))
    BY <1>s, <2>1, <2>2, DelegateOK
  <2>3. ASSUME NEW w \in WorkRequestIDs \cup {0}, NEW s \in {"followChange", "confirmChange"},
               call' = [call EXCEPT !.step = s, !.wr = w], UNCHANGED reconcilerVars
        PROVE  CallStep
    <3>1. call' \in CallRecord /\ call'.step = s /\ pc' = "createOrUpdate"
      BY <1>c, <2>1, <2>3 DEF CallRecord, CallSteps, reconcilerVars
    <3>2. CallOK'
      BY <3>1 DEF CallOK, DeleteSteps
    <3> QED
      BY <2>3, <3>2 DEF CallStep
  <2> QED
    BY <1>3, <2>2, <2>3 DEF ChangeCompartment
<1>4. CASE FollowChangeWorkRequest
  <2> DEFINE observed(class) == SetWorkRequestOperation(call.st, "update", call.wr, class)
  <2>1. pc = "createOrUpdate"
    BY <1>4, <1>p DEF FollowChangeWorkRequest, At, CreateSteps
  <2>2. observed("pending") \in OSOKStatus /\ observed("failed") \in OSOKStatus
    BY <1>c, <1>o, NormalizeType, WorkRequestStatus
  <2>3. \/ DelegateFails(Failed(call.st)) \/ DelegateReturns(observed("pending"))
        \/ DelegateFails(observed("failed")) \/ Continue("confirmChange", call.st)
    BY <1>4, NormalizeType DEF FollowChangeWorkRequest
  <2> HIDE DEF observed
  <2> QED
    BY <1>c, <1>s, <1>f, <2>1, <2>2, <2>3, DelegateOK
<1>5. CASE ConfirmChange
  <2>1. pc = "createOrUpdate"
    BY <1>5, <1>p DEF ConfirmChange, At, CreateSteps
  <2>2. MarkUpdatePending(call.st) \in OSOKStatus
    BY <1>c, UpdatePendingType
  <2>3. \/ DelegateFails(Failed(call.st)) \/ Continue("enter", call.st)
        \/ DelegateReturns(MarkUpdatePending(call.st))
    BY <1>5 DEF ConfirmChange
  <2> QED
    BY <1>c, <1>s, <1>f, <2>1, <2>2, <2>3, DelegateOK
<1>6. CASE ResumeWorkRequest
  <2> DEFINE observed(class) ==
               SetWorkRequestOperation(call.st, call.st.async.phase, Tracked, class)
  <2>1. pc = "createOrUpdate" /\ Tracked # 0
    BY <1>6, <1>p DEF ResumeWorkRequest, At, CreateSteps
  <2>2. observed("pending") \in OSOKStatus /\ observed("failed") \in OSOKStatus
    BY <1>c, <1>t, <2>1, NormalizeType, WorkRequestStatus
  <2>3. \/ DelegateFails(MarkFailure(call.st)) \/ DelegateReturns(observed("pending"))
        \/ DelegateFails(observed("failed")) \/ Continue("readBack", call.st)
    BY <1>6, NormalizeType DEF ResumeWorkRequest
  <2> HIDE DEF observed
  <2>4. CASE Continue("readBack", call.st)
    BY <1>c, <1>e, <2>1, <2>4, ContinueOK DEF Tracked
  <2> QED
    BY <1>s, <2>1, <2>2, <2>3, <2>4, DelegateOK
<1>7. CASE CompleteWorkRequestWrite
  <2> DEFINE failed == SetWorkRequestOperation(call.st, call.st.async.phase, Tracked, "failed")
             seen == ApplySuccess(call.st, 1, db.state, call.st.async.phase)
  <2>1. pc = "createOrUpdate" /\ Tracked # 0
    BY <1>7, <1>p DEF CompleteWorkRequestWrite, At, CreateSteps, CallOK
  <2>2. failed \in OSOKStatus /\ seen \in OSOKStatus
    BY <1>c, <1>o, <1>t, <2>1, NormalizeType, WorkRequestStatus, ApplySuccessType
  <2>3. DelegateFails(failed) \/ DelegateReturns(seen)
    BY <1>7 DEF CompleteWorkRequestWrite
  <2> HIDE DEF failed, seen
  <2> QED
    BY <2>1, <2>2, <2>3, DelegateOK
<1>8. CASE ResolveExisting
  <2> DEFINE seen(state) == ApplySuccess(call.st, 1, state, "")
  <2>1. pc = "createOrUpdate"
    BY <1>8, <1>p DEF ResolveExisting, At, CreateSteps
  <2>2. \A state : seen(state) \in OSOKStatus
    BY <1>c, <1>o, ApplySuccessType
  <2>3. \/ DelegateFails(MarkFailure(call.st))
        \/ Continue("create", [call.st EXCEPT !.ocid = 0])
        \/ Continue("update", [call.st EXCEPT !.ocid = 1])
        \/ DelegateReturns(seen(db.state)) \/ DelegateReturns(seen("ACTIVE"))
    BY <1>8 DEF ResolveExisting
  <2> HIDE DEF seen
  <2> QED
    BY <1>s, <1>f, <2>1, <2>2, <2>3, DelegateOK
<1>9. CASE Create \/ Update
  <2>1. pc = "createOrUpdate"
    BY <1>9, <1>p DEF Create, Update, At, CreateSteps
  <2> DEFINE seeded(phase, w) ==
               SeedOpeningWorkRequestID([call.st EXCEPT !.ocid = 1], phase, w)
  <2>2. \A phase \in {"create", "update"}, w \in WorkRequestIDs : seeded(phase, w) \in OSOKStatus
    BY <1>s, <1>o, NormalizeType, WorkRequestStatus
  <2>3. \/ DelegateFails(MarkFailure(call.st))
        \/ \E phase \in {"create", "update"}, w \in WorkRequestIDs :
              Continue("enter", seeded(phase, w))
    BY <1>9 DEF Create, Update, Write
  <2> HIDE DEF seeded
  <2> QED
    BY <1>s, <1>f, <2>1, <2>2, <2>3, DelegateOK
<1>10. CASE CreatePasswordStateSecret
  <2>1. pc = "createOrUpdate"
    BY <1>10, <1>p DEF CreatePasswordStateSecret, At, CreateSteps
  <2> QED
    BY <1>10, <1>c, <1>s, <1>f, <1>g, <2>1
       DEF CreatePasswordStateSecret, SecretFails, SecretWritten
<1>11. CASE RereadPasswordStateSecret
  <2>1. pc = "createOrUpdate"
    BY <1>11, <1>p DEF RereadPasswordStateSecret, At, CreateSteps
  <2>2. CASE /\ SecretOwnedBy(secret)
             /\ call' = [call EXCEPT !.step = "rewrite", !.seen = secret]
             /\ UNCHANGED reconcilerVars
    <3>1. secret \in Passwords
      BY <2>2 DEF SecretOwnedBy, Secrets
    <3>2. /\ call' \in CallRecord /\ call'.step = "rewrite" /\ call'.seen = secret
          /\ pc' = "createOrUpdate"
      BY <1>c, <2>1, <2>2 DEF CallRecord, CallSteps, reconcilerVars
    <3>3. CallOK'
      BY <3>1, <3>2 DEF CallOK, DeleteSteps
    <3> QED
      BY <2>2, <3>3 DEF CallStep
  <2> QED
    BY <1>11, <1>c, <1>s, <1>g, <2>2 DEF RereadPasswordStateSecret, SecretFails
<1>12. CASE UpdatePasswordStateSecret
  BY <1>12, <1>c, <1>s, <1>g DEF UpdatePasswordStateSecret, SecretFails, SecretWritten
<1> QED
  BY <1>1, <1>2, <1>3, <1>4, <1>5, <1>6, <1>7, <1>8, <1>9, <1>10, <1>11, <1>12
     DEF CreateOrUpdate

\* Each step of Delete returns or goes on.
LEMMA DeleteStep ==
    ASSUME CallOK, secret \in Secrets, obj.st \in OSOKStatus, Delete
    PROVE  CallStep
<1>c. /\ call \in CallRecord /\ call.st \in OSOKStatus
  BY DEF CallOK, CallRecord
<1>p. call.step \in DeleteSteps => pc = "delete"
  BY DEF CallOK
<1>t. /\ Tracked \in WorkRequestIDs \cup {0}
      /\ ~PhaseConflicts => call.st.async.phase \in Phases
  BY <1>c, TrackedPhase
<1>s. /\ Failed(call.st) \in OSOKStatus /\ ClearAsyncOperation(call.st) \in OSOKStatus
      /\ MarkDeleted(call.st) \in OSOKStatus /\ MarkTerminating(call.st) \in OSOKStatus
  BY <1>c, StatusType, MarkType
<1>f. ASSUME pc = "delete", NEW st \in OSOKStatus,
             NEW s \in {"guardRead", "remove", "cleanup"}, Continue(s, st)
      PROVE  CallStep
  BY <1>f, ContinueOK DEF CreateSteps, DeleteSteps
<1>g. ASSUME NEW st \in OSOKStatus, NEW out \in {"deleted", "pending", "404 NotFound", "error"},
             DeleteReturns(st, out)
      PROVE  CallStep
  BY <1>g, DeleteReturnsOK
<1>1. CASE StartDelete
  <2> DEFINE s == IF PendingWrite(obj.st) THEN "guardPoll" ELSE "remove"
  <2>1. s \in CallSteps /\ s \notin CreateSteps \cup {"rewrite", "erase", "readBack"}
    BY DEF CallSteps, CreateSteps
  <2>2. /\ call' = [NoCall EXCEPT !.st = obj.st, !.step = s]
        /\ UNCHANGED reconcilerVars /\ pc' = "delete"
    BY <1>1 DEF StartDelete, reconcilerVars
  <2> HIDE DEF s
  <2>3. call' \in CallRecord /\ call'.step = s
    BY <2>1, <2>2, NoCallOK DEF CallRecord
  <2>4. CallOK'
    BY <2>1, <2>2, <2>3 DEF CallOK
  <2> QED
    BY <2>2, <2>4 DEF CallStep
<1>2. CASE GuardPendingWrite
  <2> DEFINE observed(class) ==
               SetWorkRequestOperation(call.st, call.st.async.phase, Tracked, class)
  <2>1. pc = "delete"
    BY <1>2, <1>p DEF GuardPendingWrite, At, DeleteSteps
  <2>2. ~PhaseConflicts => observed("pending") \in OSOKStatus /\ observed("failed") \in OSOKStatus
    BY <1>c, <1>t, NormalizeType, WorkRequestStatus
  <2>3. \/ \E out \in {"error", "404 NotFound"} : DeleteReturns(Failed(call.st), out)
        \/ ~PhaseConflicts /\ DeleteReturns(observed("pending"), "pending")
        \/ ~PhaseConflicts /\ DeleteReturns(observed("failed"), "error")
        \/ Continue("guardRead", call.st)
    BY <1>2, NormalizeType DEF GuardPendingWrite, DeleteErrors, ContinueDelete
  <2> HIDE DEF observed
  <2> QED
    BY <1>c, <1>s, <1>f, <1>g, <2>1, <2>2, <2>3
<1>3. CASE ConfirmPendingWriteReadback
  <2>1. pc = "delete"
    BY <1>3, <1>p DEF ConfirmPendingWriteReadback, At, DeleteSteps
  <2> QED
    BY <1>3, <1>c, <1>s, <1>f, <1>g, <2>1
       DEF ConfirmPendingWriteReadback, DeleteErrors, ContinueDelete
<1>4. CASE DeleteDatabase
  <2>1. pc = "delete"
    BY <1>4, <1>p DEF DeleteDatabase, At, DeleteSteps
  <2> QED
    BY <1>4, <1>c, <1>s, <1>f, <1>g, <2>1 DEF DeleteDatabase, DeleteErrors, ContinueDelete
<1>5. CASE DeletePasswordStateSecret
  <2>1. pc = "delete"
    BY <1>5, <1>p DEF DeletePasswordStateSecret, At, DeleteSteps
  <2>2. CASE /\ SecretOwnedBy(secret)
             /\ call' = [call EXCEPT !.step = "erase", !.seen = secret]
             /\ UNCHANGED reconcilerVars
    <3>1. secret \in Passwords
      BY <2>2 DEF SecretOwnedBy, Secrets
    <3>2. /\ call' \in CallRecord /\ call'.step = "erase" /\ call'.seen = secret
          /\ pc' = "delete"
      BY <1>c, <2>1, <2>2 DEF CallRecord, CallSteps, reconcilerVars
    <3>3. CallOK'
      BY <3>1, <3>2 DEF CallOK, CreateSteps
    <3> QED
      BY <2>2, <3>3 DEF CallStep
  <2> QED
    BY <1>5, <1>c, <1>g, <2>2 DEF DeletePasswordStateSecret
<1>6. CASE EraseSecret
  BY <1>6, <1>c, <1>g DEF EraseSecret
<1> QED
  BY <1>1, <1>2, <1>3, <1>4, <1>5, <1>6 DEF Delete

-----------------------------------------------------------------------------
(* Refinement. *)

LEMMA SameReconcilerVars == UNCHANGED reconcilerVars <=> UNCHANGED R!vars
  BY DEF reconcilerVars, R!vars, R!apiVars, R!ctrlVars, R!histVars

\* What the proofs below need to know of the reconciler.
LEMMA ReconcilerFacts ==
    ASSUME RP!IInv
    PROVE  /\ R!TypeOK /\ obj \in R!Version /\ old \in OSOKStatus /\ obj.st \in OSOKStatus
           /\ obj.uid \in Nat /\ obj.gen \in Nat
<1>1. R!TypeOK
  BY SameType DEF RP!IInv
<1> QED
  BY <1>1 DEF R!TypeOK, R!Version

LEMMA CallStepRefines ==
    ASSUME RP!IInv, CallStep
    PROVE  ReconcilerStep \/ UNCHANGED reconcilerVars
<1>o. obj \in R!Version
  BY ReconcilerFacts
<1>u. \A st \in OSOKStatus : [obj EXCEPT !.st = st].st = st
  BY <1>o DEF R!Version
<1>1. ASSUME NEW st \in OSOKStatus, NEW r \in R!AnyResponses, R!CreateOrUpdateReturns(st, r)
      PROVE  ReconcilerStep
  <2>1. obj'.st = st
    BY <1>1, <1>u DEF R!CreateOrUpdateReturns
  <2> QED
    BY <1>1, <2>1 DEF ReconcilerStep
<1>2. ASSUME NEW st \in OSOKStatus, NEW out \in R!DeleteOutcomes, R!DeleteReturns(st, out)
      PROVE  ReconcilerStep
  <2>1. st \in {obj'.st, old}
    BY <1>2, <1>u DEF R!DeleteReturns
  <2> QED
    BY <1>2, <2>1 DEF ReconcilerStep
<1> QED
  BY <1>1, <1>2 DEF CallStep

LEMMA StepRefines ==
    RP!IInv /\ CallOK /\ StateOK /\ [Next]_vars => ReconcilerStep \/ UNCHANGED reconcilerVars
<1> SUFFICES ASSUME RP!IInv, CallOK, StateOK, [Next]_vars
             PROVE  ReconcilerStep \/ UNCHANGED reconcilerVars
  OBVIOUS
<1>1. CASE Kubernetes
  BY <1>1 DEF Kubernetes, Users, ReconcilerStep, R!Environment
<1>2. CASE Restart
  BY <1>2 DEF Restart, ReconcilerStep
<1>3. CASE CreateOrUpdate \/ Delete
  BY <1>3, ReconcilerFacts, CreateOrUpdateStep, DeleteStep, CallStepRefines DEF StateOK
<1>4. CASE UserChangesSecret \/ (Oci /\ UNCHANGED <<reconcilerVars, spec, secret, call, histVars>>)
           \/ UNCHANGED vars
  BY <1>4 DEF UserChangesSecret, vars
<1> QED
  BY <1>1, <1>2, <1>3, <1>4 DEF Next

\* A step of the reconciler with the manager's status named is one with some
\* status.
LEMMA NamedStep == ReconcilerStep => R!Next
  BY DEF ReconcilerStep, R!Next, R!ServiceManager

LEMMA ReconcilerInductive ==
    ASSUME RP!IInv, CallOK, StateOK, [Next]_vars
    PROVE  RP!IInv'
<1>1. [R!Next]_(R!vars)
  BY StepRefines, NamedStep, SameReconcilerVars
<1>2. [RP!Next]_(RP!vars)
  BY <1>1, SameNext, SameVars
<1> QED
  BY <1>2, StatusFits, BoundsFit, RP!IInvInductive

-----------------------------------------------------------------------------
(* The calls. *)

\* While a call runs, the reconciler keeps the object.
LEMMA KubernetesKeepsCall ==
    ASSUME Kubernetes
    PROVE  /\ pc \in {"createOrUpdate", "delete"} => UNCHANGED <<pc, obj>>
           /\ touched \subseteq touched' /\ UNCHANGED confirmed
<1>1. CASE Users \/ R!Deliver \/ R!TimerFires
  BY <1>1 DEF Users, R!UserCreate, R!UserEditSpec, R!UserDelete, R!Deliver, R!TimerFires,
              R!histVars
<1>2. CASE R!Controller
  BY <1>2 DEF R!Controller, R!Start, R!AddFinalizer, R!FinalizerUpdateFails, R!PatchStatus,
              R!PatchDeleteStatus, R!RemoveFinalizer, R!CallCreateOrUpdate, R!histVars
<1> QED
  BY <1>1, <1>2 DEF Kubernetes

LEMMA CallInductive ==
    ASSUME RP!IInv, CallOK, StateOK, [Next]_vars
    PROVE  CallOK'
<1>n. call' = NoCall => CallOK'
  BY NoCallOK DEF CallOK, CreateSteps, DeleteSteps
<1>k. UNCHANGED <<call, pc>> => CallOK'
  BY DEF CallOK, Tracked
<1>1. CASE Kubernetes
  <2>1. UNCHANGED call
    BY <1>1 DEF Kubernetes
  <2>2. CASE call.step = "none"
    BY <2>1, <2>2 DEF CallOK, CreateSteps, DeleteSteps
  <2>3. CASE call.step # "none"
    <3>1. call.step \in CreateSteps \cup DeleteSteps
      BY <2>3 DEF CallOK, CallRecord, CallSteps, CreateSteps, DeleteSteps
    <3>2. UNCHANGED pc
      BY <1>1, <3>1, KubernetesKeepsCall DEF CallOK
    <3> QED
      BY <1>k, <2>1, <3>2
  <2> QED
    BY <2>2, <2>3
<1>2. CASE Restart
  BY <1>2, <1>n DEF Restart
<1>3. CASE CreateOrUpdate \/ Delete
  <2>1. CallStep
    BY <1>3, ReconcilerFacts, CreateOrUpdateStep, DeleteStep DEF StateOK
  <2> QED
    BY <1>n, <2>1 DEF CallStep
<1>4. CASE UserChangesSecret \/ (Oci /\ UNCHANGED <<reconcilerVars, spec, secret, call, histVars>>)
           \/ UNCHANGED vars
  BY <1>4, <1>k DEF UserChangesSecret, vars, reconcilerVars
<1> QED
  BY <1>1, <1>2, <1>3, <1>4 DEF Next

-----------------------------------------------------------------------------
(* The specs. *)

LEMMA WrittenType ==
    ASSUME NEW n \in 1 .. MaxGen, NEW s \in WrittenSpecs(n)
    PROVE  s \in Seq(Specs) /\ Len(s) = n /\ \A i \in 1 .. n : s[i] \in Specs
<1>1. PICK e \in Edits : s = SubSeq(e, 1, n)
  BY DEF WrittenSpecs
<1>2. e \in Seq(Specs) /\ Len(e) = MaxGen /\ MaxGen \in Nat
  BY ProtectedDatabaseAssumption, ReconcilerBounds
<1> QED
  BY <1>1, <1>2

LEMMA DesiredType == SpecOK /\ pc = "createOrUpdate" => Desired \in Specs
  BY WrittenType DEF SpecOK, Desired

\* The part of SpecOK that is about the log, and the part about the object
\* the reconciler holds.
SpecInLog ==
    /\ Len(spec) \in 1 .. MaxGen /\ spec \in WrittenSpecs(Len(spec))
    /\ Api.ex /\ ~Api.del => Api.gen = Len(spec)
    /\ Api.uid = 0 => ~Api.ex /\ Len(spec) = 1
    /\ \A i \in 1 .. Len(log) : log[i].ex /\ ~log[i].del => log[i].gen \in 1 .. Len(spec)

SpecHeld ==
    /\ pc = "addFinalizer" /\ fresh => obj = Api
    /\ pc = "createOrUpdate" => obj.gen \in 1 .. Len(spec)

LEMMA SpecParts == (SpecOK <=> SpecInLog /\ SpecHeld) /\ (SpecOK' <=> SpecInLog' /\ SpecHeld')
  BY DEF SpecOK, SpecInLog, SpecHeld

LEMMA LogFacts ==
    ASSUME RP!IInv
    PROVE  /\ Len(log) \in Nat /\ Len(log) >= 1 /\ log \in Seq(RP!Version)
           /\ Api \in RP!Version /\ log[1] \in RP!Version
           /\ Api.uid \in Nat /\ Api.gen \in Nat /\ Api = log[Len(log)] /\ Api = RP!Api
<1>1. RP!TypeOK
  BY DEF RP!IInv
<1>2. Api = log[Len(log)] /\ Api = RP!Api /\ RP!Cached = log[1]
  BY DEF Api, R!Api, RP!Api, RP!Cached
<1>3. Len(log) \in Nat /\ Len(log) >= 1 /\ Api \in RP!Version /\ log[1] \in RP!Version
  BY <1>1, <1>2, StatusFits, BoundsFit, RP!VersionsInLog
<1> QED
  BY <1>1, <1>2, <1>3 DEF RP!TypeOK, RP!Version

\* A new version of an object that exists.
LEMMA StoredSpec ==
    ASSUME RP!IInv, SpecInLog, NEW v \in RP!Version, R!Room, R!Store(v), v.ex, v.uid # 0,
           Len(spec') \in 1 .. MaxGen, spec' \in WrittenSpecs(Len(spec')),
           Len(spec) <= Len(spec'), ~v.del => v.gen = Len(spec')
    PROVE  SpecInLog' /\ (~v.del => Api' = v)
<1>1. RP!TypeOK /\ RP!Room /\ RP!Store(v)
  BY DEF RP!IInv, R!Room, RP!Room, R!Store, RP!Store, R!Gone, RP!Gone
<1>2. /\ Len(log') = Len(log) + 1 /\ \A i \in 1 .. Len(log) : log'[i] = log[i]
      /\ RP!Api' = RP!Stored(v)
  BY <1>1, StatusFits, BoundsFit, RP!StoreEffect
<1>3. Api' = RP!Stored(v) /\ Api' = log'[Len(log')]
  BY <1>2 DEF Api, R!Api, RP!Api
<1>4. /\ RP!Stored(v).uid = v.uid /\ (RP!Stored(v).ex => RP!Stored(v) = v)
      /\ ~v.del => RP!Stored(v) = v
  BY DEF RP!Stored, RP!Gone
<1>5. Len(log) \in Nat /\ Len(spec) \in Nat /\ Len(spec') \in Nat
  BY LogFacts DEF SpecInLog
<1>6. \A i \in 1 .. Len(log') :
         log'[i].ex /\ ~log'[i].del => log'[i].gen \in 1 .. Len(spec')
  <2> SUFFICES ASSUME NEW i \in 1 .. Len(log'), log'[i].ex, ~log'[i].del
               PROVE  log'[i].gen \in 1 .. Len(spec')
    OBVIOUS
  <2>1. CASE i \in 1 .. Len(log)
    BY <1>2, <1>5, <2>1 DEF SpecInLog
  <2>2. CASE i = Len(log')
    BY <1>3, <1>4, <1>5, <2>2
  <2> QED
    BY <1>2, <1>5, <2>1, <2>2
<1>7. Api'.ex /\ ~Api'.del => Api'.gen = Len(spec')
  BY <1>3, <1>4
<1>8. Api'.uid # 0
  BY <1>3, <1>4
<1> QED
  BY <1>3, <1>4, <1>6, <1>7, <1>8 DEF SpecInLog, WrittenSpecs

LEMMA SameLogSpec == SpecInLog /\ UNCHANGED <<log, spec>> => SpecInLog' /\ UNCHANGED Api
  BY DEF SpecInLog, Api, R!Api, WrittenSpecs

\* A version that differs from the stored one in neither generation nor
\* deletion.
LEMMA RestoredSpec ==
    ASSUME RP!IInv, SpecInLog, NEW v \in RP!Version, R!Room, R!Store(v), UNCHANGED spec,
           Api.ex, v.ex, v.uid = Api.uid, v.gen = Api.gen, v.del = Api.del
    PROVE  SpecInLog' /\ (~v.del => Api' = v)
<1>1. v.uid # 0 /\ (~v.del => v.gen = Len(spec))
  BY DEF SpecInLog
<1>2. Len(spec) \in 1 .. MaxGen /\ spec \in WrittenSpecs(Len(spec)) /\ Len(spec) <= Len(spec)
  BY DEF SpecInLog
<1> QED
  BY <1>1, <1>2, StoredSpec

LEMMA PatchSpec ==
    ASSUME RP!IInv, SpecInLog, UNCHANGED spec, R!PatchApplied \/ UNCHANGED log
    PROVE  SpecInLog'
<1>1. CASE UNCHANGED log
  BY <1>1, SameLogSpec
<1>2. CASE R!PatchApplied /\ ~UNCHANGED log
  <2> DEFINE st == MergeFrom(R!Api.st, old, obj.st)
             v == [R!Api EXCEPT !.st = st]
  <2>1. R!Api = Api
    BY DEF Api
  <2>2. Api \in RP!Version /\ Api.st \in OSOKStatus /\ old \in OSOKStatus /\ obj.st \in OSOKStatus
    BY LogFacts, ReconcilerFacts DEF RP!Version
  <2>3. st \in OSOKStatus
    BY <2>1, <2>2, MergeFromIsStatus
  <2>4. Api.ex /\ R!Room /\ R!Store(v)
    BY <1>2, <2>1 DEF R!PatchApplied
  <2> HIDE DEF st
  <2>5. v \in RP!Version /\ v.ex = Api.ex /\ v.uid = Api.uid /\ v.gen = Api.gen /\ v.del = Api.del
    BY <2>1, <2>2, <2>3 DEF RP!Version
  <2> HIDE DEF v
  <2> QED
    BY <2>4, <2>5, RestoredSpec
<1> QED
  BY <1>1, <1>2

LEMMA SpecInductive ==
    ASSUME RP!IInv, CallOK, StateOK, SpecOK, [Next]_vars
    PROVE  SpecOK'
<1>p. SpecInLog /\ SpecHeld
  BY SpecParts
<1> SUFFICES SpecInLog' /\ SpecHeld'
  BY SpecParts
<1>l. /\ Len(log) \in Nat /\ Len(log) >= 1 /\ log \in Seq(RP!Version)
      /\ Api \in RP!Version /\ log[1] \in RP!Version
      /\ Api.uid \in Nat /\ Api.gen \in Nat /\ Api = log[Len(log)] /\ Api = RP!Api
  BY LogFacts
<1>a. R!Api = Api /\ R!Cached = log[1]
  BY DEF Api, R!Cached
<1>g. /\ Len(spec) \in 1 .. MaxGen /\ spec \in WrittenSpecs(Len(spec)) /\ Len(spec) \in Nat
      /\ MaxGen \in Nat /\ Len(spec) <= Len(spec)
  BY <1>p, ReconcilerBounds DEF SpecInLog
<1>i. pc' \notin {"addFinalizer", "createOrUpdate"} => SpecHeld'
  BY DEF SpecHeld
<1>u. UNCHANGED <<log, spec, pc, obj, fresh>> => SpecInLog' /\ SpecHeld'
  BY <1>p, SameLogSpec DEF SpecHeld
<1>o. ASSUME UNCHANGED <<pc, obj>>, fresh' = FALSE, Len(spec') \in Nat, Len(spec) <= Len(spec')
      PROVE  SpecHeld'
  BY <1>o, <1>p, <1>g DEF SpecHeld
<1>1. CASE R!UserCreate /\ UNCHANGED spec
  <2> PICK e \in BOOLEAN :
         R!StoreByOther([ex |-> TRUE, uid |-> R!Api.uid + 1, gen |-> 1, fin |-> FALSE,
                         ext |-> e, del |-> FALSE, st |-> NoStatus])
    BY <1>1 DEF R!UserCreate
  <2> DEFINE v == [ex |-> TRUE, uid |-> R!Api.uid + 1, gen |-> 1, fin |-> FALSE,
                   ext |-> e, del |-> FALSE, st |-> NoStatus]
  <2>1. /\ R!Room /\ R!Store(v) /\ fresh' = FALSE
    BY DEF R!StoreByOther
  <2>2. Api.uid + 1 \in Nat /\ Api.uid + 1 # 0
    BY <1>l
  <2>3. v \in RP!Version /\ v.ex /\ v.uid # 0 /\ v.gen = 1 /\ ~v.del
    BY <1>a, <2>2, MergeFromIsStatus DEF RP!Version
  <2>4. Len(spec) = 1
    <3>1. Api.uid < MaxUid /\ MaxUid = 1
      BY <1>1, <1>a, ReconcilerBounds DEF R!UserCreate
    <3>2. Api.uid = 0
      BY <1>l, <3>1
    <3> QED
      BY <1>p, <3>2 DEF SpecInLog
  <2> HIDE DEF v
  <2>5. SpecInLog'
    BY <1>1, <1>p, <1>g, <2>1, <2>3, <2>4, StoredSpec
  <2> QED
    BY <1>1, <1>o, <1>g, <2>1, <2>5 DEF R!UserCreate
<1>2. CASE /\ R!UserEditSpec /\ ~Api.del
           /\ \E next \in WrittenSpecs(Len(spec) + 1) :
                 SubSeq(next, 1, Len(spec)) = spec /\ spec' = next
  <2> DEFINE v == [R!Api EXCEPT !.gen = @ + 1]
  <2>1. R!Room /\ R!Store(v) /\ fresh' = FALSE /\ Api.ex /\ Api.gen < MaxGen
    BY <1>2, <1>a DEF R!UserEditSpec, R!StoreByOther
  <2>2. Api.gen = Len(spec) /\ Api.uid # 0
    BY <1>2, <1>p, <2>1 DEF SpecInLog
  <2>3. Len(spec) + 1 \in 1 .. MaxGen
    BY <1>g, <2>1, <2>2
  <2>4. Len(spec') = Len(spec) + 1 /\ spec' \in WrittenSpecs(Len(spec) + 1)
    BY <1>2, <2>3, WrittenType
  <2>5. v \in RP!Version /\ v.ex /\ v.uid # 0 /\ v.gen = Len(spec) + 1
    BY <1>a, <1>l, <2>1, <2>2 DEF RP!Version
  <2> HIDE DEF v
  <2>6. SpecInLog'
    BY <1>p, <1>g, <2>1, <2>3, <2>4, <2>5, StoredSpec
  <2>7. UNCHANGED <<pc, obj>>
    BY <1>2 DEF R!UserEditSpec
  <2>8. Len(spec') \in Nat /\ Len(spec) <= Len(spec')
    BY <1>g, <2>4
  <2> QED
    BY <1>o, <2>1, <2>6, <2>7, <2>8
<1>3. CASE R!UserDelete /\ UNCHANGED spec
  <2> DEFINE v == [R!Api EXCEPT !.del = TRUE, !.gen = @ + 1]
  <2>1. R!Room /\ R!Store(v) /\ fresh' = FALSE /\ Api.ex
    BY <1>3, <1>a DEF R!UserDelete, R!StoreByOther
  <2>2. Api.gen + 1 \in Nat /\ Api.uid # 0
    BY <1>l, <1>p, <2>1 DEF SpecInLog
  <2>3. v \in RP!Version /\ v.ex /\ v.uid # 0 /\ v.del
    BY <1>a, <1>l, <2>1, <2>2 DEF RP!Version
  <2> HIDE DEF v
  <2>4. SpecInLog'
    BY <1>3, <1>p, <1>g, <2>1, <2>3, StoredSpec
  <2> QED
    BY <1>3, <1>o, <1>g, <2>1, <2>4 DEF R!UserDelete
<1>4. CASE R!Deliver /\ UNCHANGED spec
  <2>1. log' = Tail(log) /\ Len(log) > 1 /\ UNCHANGED <<pc, obj, fresh>>
    BY <1>4 DEF R!Deliver
  <2>2. /\ Len(log') = Len(log) - 1
        /\ \A i \in 1 .. Len(log) - 1 : log'[i] = log[i + 1]
    BY <1>l, <2>1
  <2>3. Api' = Api
    <3>1. Len(log) - 1 \in 1 .. Len(log) - 1 /\ Len(log) - 1 + 1 = Len(log)
      BY <1>l, <2>1
    <3>2. log'[Len(log) - 1] = log[Len(log)]
      BY <2>2, <3>1
    <3> QED
      BY <2>2, <3>2 DEF Api, R!Api
  <2>4. \A i \in 1 .. Len(log') :
           log'[i].ex /\ ~log'[i].del => log'[i].gen \in 1 .. Len(spec)
    BY <1>l, <1>p, <2>2 DEF SpecInLog
  <2>5. SpecInLog'
    BY <1>4, <1>p, <2>3, <2>4 DEF SpecInLog, WrittenSpecs
  <2>6. SpecHeld'
    BY <1>4, <1>p, <2>1, <2>3 DEF SpecHeld
  <2> QED
    BY <2>5, <2>6
<1>5. CASE R!TimerFires /\ UNCHANGED spec
  BY <1>5, <1>u DEF R!TimerFires, R!apiVars
<1>6. CASE R!Start /\ UNCHANGED spec
  <2>1. UNCHANGED <<log, spec>>
    BY <1>6 DEF R!Start, R!apiVars
  <2>2. SpecInLog' /\ Api' = Api
    BY <1>p, <2>1, SameLogSpec
  <2>3. CASE UNCHANGED <<pc, obj, fresh>>
    BY <1>p, <2>1, <2>2, <2>3 DEF SpecHeld
  <2>4. CASE log[1].ex /\ fresh' = (Len(log) = 1) /\ obj' = log[1] /\ pc' = "addFinalizer"
    BY <1>l, <2>2, <2>4 DEF SpecHeld
  <2>5. CASE log[1].ex /\ ~log[1].del /\ obj' = log[1] /\ pc' = "createOrUpdate"
    <3>1. log[1].gen \in 1 .. Len(spec)
      BY <1>l, <1>p, <2>5 DEF SpecInLog
    <3> QED
      BY <2>1, <2>2, <2>5, <3>1 DEF SpecHeld
  <2>6. CASE pc' = "delete"
    BY <1>i, <2>2, <2>6
  <2> QED
    BY <1>6, <1>a, <2>3, <2>4, <2>5, <2>6 DEF R!Start, R!CallCreateOrUpdate
<1>7. CASE R!AddFinalizer /\ UNCHANGED spec
  <2> DEFINE v == [obj EXCEPT !.fin = TRUE]
  <2>1. /\ R!UpdateAccepted(v) /\ R!Store(v) /\ pc' = "createOrUpdate" /\ obj' = v
        /\ pc = "addFinalizer"
    BY <1>7 DEF R!AddFinalizer, R!CallCreateOrUpdate
  <2>2. obj = Api /\ obj.ex /\ ~obj.fin
    BY <1>p, <2>1 DEF SpecHeld, R!UpdateAccepted, RP!IInv, RP!HeldInStep
  <2>3. /\ v \in RP!Version /\ v.ex /\ v.uid = Api.uid /\ v.gen = Api.gen /\ v.del = Api.del
        /\ v.fin
    BY <1>l, <2>2 DEF RP!Version
  <2> HIDE DEF v
  <2>4. R!Room /\ ~v.del
    BY <1>a, <2>1, <2>2, <2>3 DEF R!UpdateAccepted
  <2>5. SpecInLog'
    BY <1>7, <1>p, <2>1, <2>2, <2>3, <2>4, RestoredSpec
  <2>6. obj'.gen = Len(spec)
    BY <1>p, <2>1, <2>2, <2>3, <2>4 DEF SpecInLog
  <2> QED
    BY <1>7, <1>g, <2>1, <2>5, <2>6 DEF SpecHeld
<1>8. CASE R!FinalizerUpdateFails /\ UNCHANGED spec
  BY <1>8, <1>i, <1>p, SameLogSpec DEF R!FinalizerUpdateFails, R!Finish, R!apiVars
<1>9. CASE (R!PatchStatus \/ R!PatchDeleteStatus) /\ UNCHANGED spec
  <2>1. pc' = "idle" /\ (R!PatchApplied \/ UNCHANGED log)
    BY <1>9 DEF R!PatchStatus, R!PatchDeleteStatus, R!Finish
  <2> QED
    BY <1>9, <1>i, <1>p, <2>1, PatchSpec
<1>10. CASE R!RemoveFinalizer /\ UNCHANGED spec
  <2> DEFINE v == [R!Api EXCEPT !.fin = FALSE]
  <2>1. fresh /\ R!Room /\ R!Store(v) /\ pc = "removeFinalizer" /\ pc' = "idle"
    BY <1>10 DEF R!RemoveFinalizer, R!UpdateAccepted, R!Finish
  <2>2. Api.ex
    BY <1>l, <2>1 DEF RP!IInv, RP!HeldIsStored
  <2>3. v \in RP!Version /\ v.ex /\ v.uid = Api.uid /\ v.gen = Api.gen /\ v.del = Api.del
    BY <1>a, <1>l, <2>2 DEF RP!Version
  <2> HIDE DEF v
  <2> QED
    BY <1>10, <1>i, <1>p, <2>1, <2>2, <2>3, RestoredSpec
<1>11. CASE Restart
  <2>1. log' = <<Api>> /\ pc' = "idle" /\ UNCHANGED spec
    BY <1>11, <1>a DEF Restart, R!Restart
  <2>2. Len(log') = 1 /\ log'[1] = Api /\ Api' = Api
    BY <2>1 DEF Api, R!Api
  <2>3. Api.ex /\ ~Api.del => Api.gen \in 1 .. Len(spec)
    BY <1>l, <1>p DEF SpecInLog
  <2>4. SpecInLog'
    BY <1>p, <2>1, <2>2, <2>3 DEF SpecInLog, WrittenSpecs
  <2> QED
    BY <1>i, <2>1, <2>4
<1>12. CASE (CreateOrUpdate \/ Delete) /\ UNCHANGED spec
  <2>1. CallStep
    BY <1>12, ReconcilerFacts, CreateOrUpdateStep, DeleteStep DEF StateOK
  <2>2. CASE UNCHANGED reconcilerVars
    BY <1>12, <1>u, <2>2 DEF reconcilerVars
  <2>3. CASE UNCHANGED log /\ pc' \notin {"addFinalizer", "createOrUpdate"}
    BY <1>12, <1>i, <1>p, <2>3, SameLogSpec
  <2> QED
    BY <2>1, <2>2, <2>3
       DEF CallStep, R!CreateOrUpdateReturns, R!DeleteReturns, R!Finish, R!apiVars
<1>13. CASE UserChangesSecret \/ (Oci /\ UNCHANGED <<reconcilerVars, spec, secret, call, histVars>>)
            \/ UNCHANGED vars
  BY <1>13, <1>u DEF UserChangesSecret, vars, reconcilerVars
<1>14. CASE Kubernetes
  BY <1>14, <1>1, <1>2, <1>3, <1>4, <1>5, <1>6, <1>7, <1>8, <1>9, <1>10
     DEF Kubernetes, Users, R!Controller
<1> QED
  BY <1>11, <1>12, <1>13, <1>14 DEF Next

-----------------------------------------------------------------------------
(* The database, its work requests and the Secret. *)

LEMMA TroubleType ==
    (Trouble \/ NoTrouble) /\ troubles \in 0 .. MaxTroubles => troubles' \in 0 .. MaxTroubles
<1>1. MaxTroubles \in Nat
  BY ProtectedDatabaseAssumption
<1> QED
  BY <1>1 DEF Trouble, NoTrouble

DbType == db \in [state : {"NONE", "CREATING", "ACTIVE", "UPDATING", "DELETING", "GONE"},
                  spec : Specs, want : Specs]
WrsType == wrs \in [WorkRequestIDs ->
                     [phase : Phases \cup {""},
                      status : {"", "IN_PROGRESS", "SUCCEEDED", "FAILED"}]]

\* What the service does to the database.
LEMMA OciKeepsType ==
    ASSUME DbType, WrsType, Oci
    PROVE  DbType' /\ WrsType'
<1>1. \A status \in {"SUCCEEDED", "FAILED"} : WorkRequestsEnd(status) => WrsType'
  BY DEF WorkRequestsEnd, WrsType
<1>2. CASE OperationSucceeds
  <2>1. db' = [db EXCEPT !.state = IF @ = "DELETING" THEN "GONE" ELSE "ACTIVE", !.spec = db.want]
    BY <1>2 DEF OperationSucceeds
  <2>2. DbType'
    BY <2>1 DEF DbType
  <2> QED
    BY <1>1, <1>2, <2>2 DEF OperationSucceeds
<1>3. CASE UpdateFails
  BY <1>1, <1>3 DEF UpdateFails, DbType
<1> QED
  BY <1>2, <1>3 DEF Oci

LEMMA AcceptedType ==
    ASSUME DbType, WrsType, NEW phase \in {"create", "update"}, NEW want \in Specs,
           NEW w \in WorkRequestIDs \cup {0}, Accepted(phase, want, w)
    PROVE  DbType' /\ WrsType'
<1>1. DbType'
  BY DEF Accepted, DbType
<1>2. WrsType'
  <2>1. CASE UNCHANGED wrs
    BY <2>1 DEF WrsType
  <2>2. CASE w # 0 /\ wrs' = [wrs EXCEPT ![w] = [phase |-> phase, status |-> "IN_PROGRESS"]]
    <3>1. phase \in Phases
      BY DEF Phases
    <3> QED
      BY <2>2, <3>1 DEF WrsType
  <2> QED
    BY <2>1, <2>2 DEF Accepted, OpenWorkRequest
<1> QED
  BY <1>1, <1>2

\* What a call does to the database: it writes what the spec of a written
\* generation says, or starts its deletion.
LEMMA CallKeepsType ==
    ASSUME DbType, WrsType, CallOK, SpecOK, CreateOrUpdate \/ Delete
    PROVE  DbType' /\ WrsType'
<1>u. UNCHANGED ociVars => DbType' /\ WrsType'
  BY DEF ociVars, DbType, WrsType
<1>d. pc = "createOrUpdate" => Desired \in Specs
  BY DesiredType
<1>s. db.spec \in Specs
  BY DEF DbType
<1>1. CASE ChangeCompartment
  <2>1. pc = "createOrUpdate"
    BY <1>1 DEF ChangeCompartment, At, CallOK, CreateSteps
  <2>2. [db.spec EXCEPT !.comp = Desired.comp] \in Specs
    BY <1>d, <1>s, <2>1 DEF Specs
  <2> QED
    BY <1>1, <1>u, <2>2, AcceptedType DEF ChangeCompartment
<1>2. CASE Create
  <2>1. pc = "createOrUpdate"
    BY <1>2 DEF Create, At, CallOK, CreateSteps
  <2> QED
    BY <1>2, <1>d, <1>u, <2>1, AcceptedType DEF Create, Write
<1>3. CASE Update
  <2>1. pc = "createOrUpdate"
    BY <1>3 DEF Update, At, CallOK, CreateSteps
  <2>2. UpdateBody \in Specs
    BY <1>d, <1>s, <2>1 DEF UpdateBody, Specs
  <2> QED
    BY <1>3, <1>u, <2>2, AcceptedType DEF Update, Write
<1>4. CASE DeleteDatabase
  <2>1. CASE db' = [db EXCEPT !.state = "DELETING"] /\ UNCHANGED wrs
    BY <2>1 DEF DbType, WrsType
  <2> QED
    BY <1>4, <1>u, <2>1 DEF DeleteDatabase
<1> QED
  BY <1>1, <1>2, <1>3, <1>4, <1>u
     DEF CreateOrUpdate, LoadPasswordTrackingState, ReadForChange, FollowChangeWorkRequest,
         ConfirmChange, ResumeWorkRequest, CompleteWorkRequestWrite, ResolveExisting,
         CreatePasswordStateSecret, RereadPasswordStateSecret, UpdatePasswordStateSecret,
         Delete, StartDelete, GuardPendingWrite, ConfirmPendingWriteReadback,
         DeletePasswordStateSecret, EraseSecret

\* What a call does to the Secret: CreateOrUpdate writes the hash, and only
\* where there is no Secret, or in place of its own; Delete removes it.
LEMMA CallChangesSecret ==
    ASSUME CallOK, CreateOrUpdate \/ Delete, secret' # secret
    PROVE  \/ /\ secret' = Desired.pw /\ CreateOrUpdate
              /\ secret = "" \/ (call.step = "rewrite" /\ call.seen \in Passwords)
              /\ \E st, r : Returns(st, r)
           \/ secret' = "" /\ call.step = "erase" /\ call.seen \in Passwords
<1>1. CASE CreatePasswordStateSecret /\ CreateOrUpdate
  BY <1>1 DEF CreatePasswordStateSecret, SecretWritten, SecretFails
<1>2. CASE UpdatePasswordStateSecret /\ CreateOrUpdate
  BY <1>2 DEF UpdatePasswordStateSecret, SecretWritten, SecretFails, At, CallOK
<1>3. CASE EraseSecret
  BY <1>3 DEF EraseSecret, At, CallOK
<1> QED
  BY <1>1, <1>2, <1>3
     DEF CreateOrUpdate, LoadPasswordTrackingState, ReadForChange, ChangeCompartment,
         FollowChangeWorkRequest, ConfirmChange, ResumeWorkRequest, CompleteWorkRequestWrite,
         ResolveExisting, Create, Update, Write, RereadPasswordStateSecret,
         Delete, StartDelete, GuardPendingWrite, ConfirmPendingWriteReadback,
         DeleteDatabase, DeletePasswordStateSecret

LEMMA CallTroubles ==
    ASSUME CreateOrUpdate \/ Delete
    PROVE  Trouble \/ NoTrouble
  BY DEF CreateOrUpdate, LoadPasswordTrackingState, ReadForChange, ChangeCompartment,
         FollowChangeWorkRequest, ConfirmChange, ResumeWorkRequest, CompleteWorkRequestWrite,
         ResolveExisting, Create, Update, Write, CreatePasswordStateSecret,
         RereadPasswordStateSecret, UpdatePasswordStateSecret, SecretFails, SecretWritten,
         Delete, StartDelete, GuardPendingWrite, ConfirmPendingWriteReadback, DeleteDatabase,
         DeletePasswordStateSecret, EraseSecret

\* What Delete notes of the 404s it returns.
LEMMA DeleteNotes ==
    ASSUME Delete
    PROVE  UNCHANGED raw404 \/ \E out : raw404' = (raw404 \/ out = "404 NotFound")
  BY DEF Delete, StartDelete, GuardPendingWrite, ConfirmPendingWriteReadback, DeleteDatabase,
         DeletePasswordStateSecret, EraseSecret, ContinueDelete, DeleteReturns

LEMMA StateInductive ==
    ASSUME RP!IInv, CallOK, SpecOK, StateOK, [Next]_vars
    PROVE  StateOK'
<1>t. DbType /\ WrsType /\ secret \in Secrets /\ troubles \in 0 .. MaxTroubles
  BY DEF StateOK, DbType, WrsType
<1>b. late \in BOOLEAN /\ raw404 \in BOOLEAN
  BY DEF StateOK
<1>q. DbType' /\ WrsType' /\ secret' \in Secrets /\ troubles' \in 0 .. MaxTroubles
      /\ late' \in BOOLEAN /\ raw404' \in BOOLEAN => StateOK'
  BY DEF StateOK, DbType, WrsType
<1>u. UNCHANGED ociVars => DbType' /\ WrsType'
  BY <1>t DEF ociVars, DbType, WrsType
<1>1. CASE Kubernetes
  <2>1. late' \in BOOLEAN
    BY <1>1, <1>b, Zenon DEF Kubernetes, Users
  <2> QED
    BY <1>1, <1>t, <1>b, <1>q, <1>u, <2>1 DEF Kubernetes
<1>2. CASE Restart
  BY <1>2, <1>t, <1>b, <1>q, <1>u, TroubleType DEF Restart, histVars
<1>3. CASE UserChangesSecret
  <2>1. secret' \in Secrets
    BY <1>3 DEF UserChangesSecret, Secrets
  <2> QED
    BY <1>3, <1>t, <1>b, <1>q, <1>u, <2>1, TroubleType DEF UserChangesSecret, histVars
<1>4. CASE (CreateOrUpdate \/ Delete) /\ UNCHANGED <<spec, late>>
  <2>1. DbType' /\ WrsType' /\ troubles' \in 0 .. MaxTroubles
    BY <1>4, <1>t, CallKeepsType, CallTroubles, TroubleType
  <2>2. secret' \in Secrets
    <3>1. CASE secret' # secret
      <4>1. (\E st, r : Returns(st, r)) => pc = "createOrUpdate"
        BY DEF Returns, R!CreateOrUpdateReturns
      <4>2. pc = "createOrUpdate" => Desired.pw \in Passwords
        BY DesiredType DEF Specs
      <4> QED
        BY <1>4, <3>1, <4>1, <4>2, CallChangesSecret DEF Secrets
    <3> QED
      BY <1>t, <3>1
  <2>3. raw404' \in BOOLEAN
    <3>1. UNCHANGED raw404 \/ \E out : raw404' = (raw404 \/ out = "404 NotFound")
      BY <1>4, DeleteNotes DEF CreateOrUpdate
    <3> QED
      BY <1>b, <3>1, Zenon
  <2> QED
    BY <1>4, <1>b, <1>q, <2>1, <2>2, <2>3
<1>5. CASE Oci /\ UNCHANGED <<reconcilerVars, spec, secret, call, histVars>>
  <2>1. Trouble \/ NoTrouble
    BY <1>5 DEF Oci, OperationSucceeds, UpdateFails
  <2> QED
    BY <1>5, <1>t, <1>b, <1>q, <2>1, OciKeepsType, TroubleType DEF histVars
<1>6. CASE UNCHANGED vars
  BY <1>6, <1>t, <1>b, <1>q, <1>u DEF vars, histVars
<1> QED
  BY <1>1, <1>2, <1>3, <1>4, <1>5, <1>6 DEF Next

\* A hash is recorded only by CreateOrUpdate, on an incarnation that is not
\* confirmed; a Delete that confirms one has found no hash, has removed it, or
\* passes a 404 on.
LEMMA HashInductive ==
    ASSUME PInv, [Next]_vars
    PROVE  HashGuarded'
<1>i. RP!IInv /\ CallOK /\ SpecOK /\ StateOK /\ HashGuarded
  BY DEF PInv
<1>b. raw404 \in BOOLEAN
  BY <1>i DEF StateOK
<1>k. ASSUME secret' \in Passwords => secret' = secret, UNCHANGED raw404,
             touched \subseteq touched', UNCHANGED confirmed
      PROVE  HashGuarded'
  BY <1>i, <1>k DEF HashGuarded
<1>r. ASSUME NEW st, NEW r, Returns(st, r), UNCHANGED raw404
      PROVE  HashGuarded'
  <2>1. pc = "createOrUpdate" /\ UNCHANGED <<touched, confirmed>>
    BY <1>r DEF Returns, R!CreateOrUpdateReturns, R!histVars
  <2>2. obj.uid \in touched /\ obj.uid \notin confirmed
    <3>1. RP!TypeOK /\ RP!FinalizerMeansTouched /\ RP!CreateOnGuardedObject
      BY <1>i DEF RP!IInv, RP!Safe
    <3>2. Len(log) \in Nat /\ Len(log) >= 1
      BY <1>i, LogFacts
    <3>3. RP!Api.ex /\ RP!Api.fin => RP!Api.uid \in touched
      BY <3>1, <3>2 DEF RP!FinalizerMeansTouched, RP!Indices, RP!Api
    <3> QED
      BY <2>1, <3>1, <3>3 DEF RP!CreateOnGuardedObject
  <2> QED
    BY <2>1, <2>2 DEF HashGuarded
<1>d. ASSUME NEW st, NEW out \in {"deleted", "pending", "404 NotFound", "error"},
             DeleteReturns(st, out), secret' \in Passwords => secret' = secret,
             out = "deleted" => secret' \notin Passwords
      PROVE  HashGuarded'
  <2>1. CASE out = "404 NotFound"
    <3>1. raw404' = TRUE
      BY <1>d, <2>1 DEF DeleteReturns
    <3> QED
      BY <3>1 DEF HashGuarded
  <2>2. CASE out = "deleted"
    BY <1>d, <2>2 DEF HashGuarded
  <2>3. CASE out \in {"pending", "error"}
    <3>1. R!DeleteResourceResult(out) # "deleted"
      BY <2>3 DEF R!DeleteResourceResult
    <3>2. UNCHANGED <<touched, confirmed>>
      BY <1>d, <3>1 DEF DeleteReturns, R!DeleteReturns
    <3>3. raw404' = raw404
      BY <1>b, <1>d, <2>3 DEF DeleteReturns
    <3> QED
      BY <1>d, <1>k, <3>2, <3>3
  <2> QED
    BY <2>1, <2>2, <2>3
<1>c. ASSUME UNCHANGED <<reconcilerVars, secret, raw404>> PROVE HashGuarded'
  BY <1>c, <1>k DEF reconcilerVars
<1>1. CASE Kubernetes
  BY <1>1, <1>k, KubernetesKeepsCall DEF Kubernetes
<1>2. CASE Restart
  BY <1>2, <1>k DEF Restart, R!Restart, R!histVars, histVars
<1>3. CASE UserChangesSecret
  <2>1. secret' \notin Passwords
    BY <1>3 DEF UserChangesSecret, Passwords
  <2> QED
    BY <2>1 DEF HashGuarded
<1>4. CASE CreateOrUpdate
  <2>1. UNCHANGED raw404
    BY <1>4 DEF CreateOrUpdate
  <2>2. CASE \E st, r : Returns(st, r)
    BY <1>r, <2>1, <2>2
  <2>3. CASE UNCHANGED <<reconcilerVars, secret>>
    BY <1>c, <2>1, <2>3
  <2>4. \/ \E st, r : Returns(st, r)
        \/ UNCHANGED <<reconcilerVars, secret>>
    BY <1>4 DEF CreateOrUpdate, LoadPasswordTrackingState, ReadForChange, ChangeCompartment,
         FollowChangeWorkRequest, ConfirmChange, ResumeWorkRequest, CompleteWorkRequestWrite,
         ResolveExisting, Create, Update, Write, CreatePasswordStateSecret,
         RereadPasswordStateSecret, UpdatePasswordStateSecret, SecretFails, SecretWritten,
         DelegateReturns, DelegateFails, Continue
  <2> QED
    BY <2>2, <2>3, <2>4
<1>5. CASE Delete
  <2>1. CASE StartDelete
    BY <1>c, <2>1 DEF StartDelete
  <2>2. CASE GuardPendingWrite \/ ConfirmPendingWriteReadback \/ DeleteDatabase
    <3>1. UNCHANGED secret
      BY <2>2 DEF GuardPendingWrite, ConfirmPendingWriteReadback, DeleteDatabase
    <3>2. \/ \E st, out : out \in {"pending", "404 NotFound", "error"} /\ DeleteReturns(st, out)
          \/ UNCHANGED <<reconcilerVars, raw404>>
      BY <2>2 DEF GuardPendingWrite, ConfirmPendingWriteReadback, DeleteDatabase, DeleteErrors,
                  ContinueDelete, Continue
    <3> QED
      BY <1>c, <1>d, <3>1, <3>2
  <2>3. CASE DeletePasswordStateSecret
    <3>1. UNCHANGED secret
      BY <2>3 DEF DeletePasswordStateSecret
    <3>2. ~SecretOwnedBy(secret) => secret \notin Passwords
      BY DEF SecretOwnedBy, Passwords
    <3> QED
      BY <1>c, <1>d, <2>3, <3>1, <3>2 DEF DeletePasswordStateSecret
  <2>4. CASE EraseSecret
    <3>1. "" \notin Passwords
      BY DEF Passwords
    <3> QED
      BY <1>d, <2>4, <3>1 DEF EraseSecret
  <2> QED
    BY <1>5, <2>1, <2>2, <2>3, <2>4 DEF Delete
<1>6. CASE (Oci /\ UNCHANGED <<reconcilerVars, spec, secret, call, histVars>>) \/ UNCHANGED vars
  BY <1>6, <1>c DEF vars, histVars
<1> QED
  BY <1>1, <1>2, <1>3, <1>4, <1>5, <1>6 DEF Next

LEMMA InitPInv == Init => PInv
<1> SUFFICES ASSUME Init PROVE PInv
  OBVIOUS
<1>1. RP!IInv
  BY SameInit, StatusFits, BoundsFit, RP!InitInv DEF Init
<1>2. CallOK
  BY NoCallOK DEF Init, CallOK, CreateSteps, DeleteSteps
<1>3. 1 \in 1 .. MaxGen /\ spec \in WrittenSpecs(1)
  <2>1. 1 \in 1 .. MaxGen
    BY ReconcilerBounds
  <2>2. spec \in WrittenSpecs(1)
    BY Zenon DEF Init
  <2> QED
    BY <2>1, <2>2
<1>4. Len(spec) = 1 /\ spec[1] \in Specs
  <2>1. Len(spec) = 1 /\ \A i \in 1 .. 1 : spec[i] \in Specs
    BY <1>3, WrittenType
  <2> QED
    BY <2>1
<1>5. SpecOK
  <2>1. log = <<R!Gone(0)>> /\ pc = "idle"
    BY DEF Init, R!Init
  <2>2. Len(log) = 1 /\ log[1] = R!Gone(0) /\ Api = R!Gone(0) /\ ~R!Gone(0).ex
    BY <2>1 DEF Api, R!Api, R!Gone
  <2> QED
    BY <1>3, <1>4, <2>1, <2>2 DEF SpecOK
<1>6. StateOK
  <2>1. DbType
    BY <1>4 DEF Init, DbType
  <2>2. WrsType
    BY DEF Init, WrsType
  <2>3. /\ secret \in Secrets /\ troubles \in 0 .. MaxTroubles
        /\ late \in BOOLEAN /\ raw404 \in BOOLEAN
    <3>1. 0 \in 0 .. MaxTroubles
      BY ProtectedDatabaseAssumption
    <3>2. secret = "" /\ troubles = 0 /\ late = FALSE /\ raw404 = FALSE
      BY DEF Init
    <3> QED
      BY <3>1, <3>2 DEF Secrets
  <2> QED
    BY <2>1, <2>2, <2>3 DEF StateOK, DbType, WrsType
<1>7. HashGuarded
  BY DEF Init, HashGuarded, Passwords
<1> QED
  BY <1>1, <1>2, <1>5, <1>6, <1>7 DEF PInv

LEMMA PInvInductive == PInv /\ [Next]_vars => PInv'
  BY ReconcilerInductive, CallInductive, SpecInductive, StateInductive, HashInductive DEF PInv

LEMMA PInvInvariant == Spec => []PInv
  BY InitPInv, PInvInductive, PTL DEF Spec

-----------------------------------------------------------------------------
(* The theorems. *)

\* Every variable of the wrappers, of the service and of the reconciler stays
\* within its type, whatever is stale, lost or restarted.
THEOREM DatabaseTypeCorrect == Spec => []TypeOK
<1>1. PInv => TypeOK
  <2> SUFFICES ASSUME PInv PROVE TypeOK
    OBVIOUS
  <2>1. R!TypeOK
    BY SameType DEF PInv, RP!IInv
  <2>2. \E n \in 1 .. MaxGen : spec \in WrittenSpecs(n)
    BY DEF PInv, SpecOK
  <2>3. {late, raw404} \subseteq BOOLEAN
    BY Zenon DEF PInv, StateOK
  <2> QED
    BY <2>1, <2>2, <2>3 DEF PInv, StateOK, CallOK, CallRecord, TypeOK
<1> QED
  BY <1>1, PInvInvariant, PTL

\* The three wrappers around the generated runtime are a service manager: each
\* of their steps is one the reconciler allows every manager, or invisible to
\* the reconciler.
THEOREM DatabaseRefinesReconciler == Spec => ImplementsReconciler
<1>1. Init => R!Init
  BY DEF Init
<1>2. PInv /\ [Next]_vars => [ReconcilerStep]_reconcilerVars
  BY StepRefines DEF PInv
<1> QED
  BY <1>1, <1>2, PInvInvariant, PTL DEF Spec, ImplementsReconciler

\* The Secret with the hash exists only as long as the object is stored with
\* its finalizer, unless a 404 was taken for a confirmed deletion.
THEOREM HashGoesWithObject == Spec => []NoSecretLeftBehind
<1>1. PInv => NoSecretLeftBehind
  BY DEF PInv, RP!IInv, RP!Safe, RP!FinalizerRetention, HashGuarded,
         NoSecretLeftBehind, Api, R!Api, RP!Api
<1> QED
  BY <1>1, PInvInvariant, PTL

\* A Secret of somebody else is overwritten or deleted only when it has taken
\* the place of the operator's own since that was read.
THEOREM ForeignSecretIsKept == Spec => ForeignSecretKept
<1> DEFINE Kept == secret = "foreign" /\ secret' # secret /\ call' # call => call.seen \in Passwords
<1>1. PInv /\ [Next]_vars => Kept
  <2> SUFFICES ASSUME PInv, Next, secret = "foreign", secret' # secret, call' # call
               PROVE  call.seen \in Passwords
    BY DEF vars
  <2>1. CreateOrUpdate \/ Delete
    BY DEF Next, Kubernetes, Restart, UserChangesSecret
  <2> QED
    BY <2>1, CallChangesSecret DEF PInv
<1>2. PInv /\ [Next]_vars => [Kept]_vars
  BY <1>1
<1> QED
  BY <1>2, PInvInvariant, PTL DEF Spec, ForeignSecretKept

\* What holds of the reconciler with every service manager holds with this
\* client: the finalizer stays, CreateOrUpdate runs on the guarded object
\* only, and no wake-up is lost.
THEOREM DatabaseKeepsReconcilerSafe ==
    Spec => [](R!FinalizerRetention /\ R!CreateOnGuardedObject /\ R!NoLostWakeup)
<1>1. R!Init => RP!Init
  BY SameInit
<1>2. [ReconcilerStep]_reconcilerVars => [RP!Next]_(RP!vars)
  BY NamedStep, SameReconcilerVars, SameNext, SameVars
<1>3. ImplementsReconciler => RP!Spec
  BY <1>1, <1>2, PTL DEF ImplementsReconciler, RP!Spec
<1>4. RP!Spec => [](RP!FinalizerRetention /\ RP!CreateOnGuardedObject /\ RP!NoLostWakeup)
  BY RP!FinalizerIsRetained, RP!CreateIsGuarded, RP!NoWakeupIsLost, StatusFits, BoundsFit, PTL
<1>5. RP!FinalizerRetention /\ RP!CreateOnGuardedObject /\ RP!NoLostWakeup
      => R!FinalizerRetention /\ R!CreateOnGuardedObject /\ R!NoLostWakeup
  BY Zenon DEF R!FinalizerRetention, R!CreateOnGuardedObject, R!NoLostWakeup,
               R!WakeupPending, R!ReconcilePredicate, R!Api,
               RP!FinalizerRetention, RP!CreateOnGuardedObject, RP!NoLostWakeup,
               RP!WakeupPending, RP!ReconcilePredicate, RP!Api
<1> QED
  BY <1>3, <1>4, <1>5, DatabaseRefinesReconciler, PTL
=============================================================================
