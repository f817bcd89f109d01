---------------------- MODULE WebAppAccelerationProofs ----------------------
(***************************************************************************)
(* Proofs about WebAppAcceleration, for every sequence of edits, every set *)
(* of resources and work requests and every number of failures: its types, *)
(* that it implements Reconciler, and that no resource is created twice.   *)
(***************************************************************************)
EXTENDS WebAppAcceleration, TLAPS

RP == INSTANCE ReconcilerProofs WITH
        Status <- Statuses, EmptyStatus <- EmptyStatus, MergePatch <- MergeFrom,
        ZeroDuration <- FALSE

-----------------------------------------------------------------------------
(* Statuses. *)

LEMMA MergeIsStatus ==
    /\ EmptyStatus \in Statuses
    /\ \A a, b, c \in Statuses : MergeFrom(a, b, c) \in Statuses
<1>1. NoTracker \in Trackers
  BY DEF NoTracker, Trackers
<1>2. EmptyStatus \in Statuses
  BY <1>1 DEF EmptyStatus, Statuses
<1>3. ASSUME NEW a \in Statuses, NEW b \in Statuses, NEW c \in Statuses
      PROVE  MergeFrom(a, b, c) \in Statuses
  <2> DEFINE leaf(s, x, y) == IF y = x THEN s ELSE y
             merged == [f \in DOMAIN NoTracker |->
                          leaf(a.async[f], b.async[f], c.async[f])]
  <2>1. a.async \in Trackers /\ c.async \in Trackers
    BY DEF Statuses
  <2>2. merged \in Trackers
    BY <2>1 DEF Trackers, NoTracker
  <2>3. leaf(a.ocid, b.ocid, c.ocid) \in OCIDs \cup {0}
    BY DEF Statuses
  <2>4. leaf(a.reason, b.reason, c.reason) \in A!Conditions \cup {""}
    BY DEF Statuses
  <2> QED
    BY <1>1, <2>2, <2>3, <2>4 DEF MergeFrom, Statuses
<1> QED
  BY <1>2, <1>3

LEMMA ProjectType ==
    \A class, phase : A!ProjectAsyncCondition(class, phase).condition \in A!Conditions
<1>1. \A phase : A!ConditionForAsyncPhase(phase) \in A!Conditions
  BY DEF A!ConditionForAsyncPhase, A!Conditions
<1> SUFFICES ASSUME NEW class, NEW phase
             PROVE  A!ProjectAsyncCondition(class, phase).condition \in A!Conditions
  OBVIOUS
<1> QED
  BY <1>1 DEF A!ProjectAsyncCondition, A!Conditions

\* The shared tracker, with the operation type: an observation that carries a
\* work request makes it the tracked one.
LEMMA ApplyType ==
    ASSUME NEW st \in Statuses, NEW cur \in Trackers
    PROVE  /\ A!ApplyAsyncOperation(st, cur) \in Statuses
           /\ cur.wr # 0 => A!ApplyAsyncOperation(st, cur).async.wr = cur.wr
<1> DEFINE wr == IF cur.wr # 0 THEN cur.wr
                 ELSE A!PreservedInFlightWorkRequestID(st.async, cur)
           reason == A!ProjectAsyncCondition(cur.class, cur.phase).condition
<1>1. st.async \in Trackers
  BY DEF Statuses
<1>2. wr \in WorkRequestIDs \cup {0} /\ (cur.wr # 0 => wr = cur.wr)
  BY <1>1 DEF Trackers, A!PreservedInFlightWorkRequestID
<1>3. reason \in A!Conditions
  BY ProjectType
<1>4. A!ApplyAsyncOperation(st, cur) =
         [st EXCEPT !.reason = reason, !.async = [cur EXCEPT !.wr = wr]]
  BY DEF A!ApplyAsyncOperation
<1> HIDE DEF wr, reason
<1>5. [cur EXCEPT !.wr = wr] \in Trackers /\ [cur EXCEPT !.wr = wr].wr = wr
  BY <1>2 DEF Trackers
<1> QED
  BY <1>2, <1>3, <1>4, <1>5 DEF Statuses

LEMMA PhaseType ==
    \A op \in Operations \cup {""} : WorkRequestPhase(op) \in A!Phases \cup {""}
  BY DEF Operations, WorkRequestPhase, A!Phases

LEMMA PendingType ==
    ASSUME NEW op \in Operations \cup {""}, NEW w \in WorkRequestIDs \cup {0}
    PROVE  PendingOperation(op, w) \in Trackers /\ PendingOperation(op, w).wr = w
  BY PhaseType DEF PendingOperation, Trackers, A!Classes

LEMMA SeedType ==
    ASSUME NEW st \in Statuses, NEW op \in Operations, NEW w \in WorkRequestIDs \cup {0}
    PROVE  Seed(st, op, w) \in Statuses /\ (w # 0 => Seed(st, op, w).async.wr # 0)
<1>1. PendingOperation(op, w) \in Trackers /\ PendingOperation(op, w).wr = w
  BY PendingType
<1> QED
  BY <1>1, ApplyType DEF Seed

\* Statuses with one of their parts replaced.
LEMMA StatusType ==
    ASSUME NEW st \in Statuses
    PROVE  /\ Failure(st) \in Statuses /\ ClearAsyncOperation(st) \in Statuses
           /\ Confirmed(st) \in Statuses
           /\ \A i \in OCIDs \cup {0} : [st EXCEPT !.ocid = i] \in Statuses
           /\ st.async \in Trackers /\ st.ocid \in OCIDs \cup {0}
           /\ st.async.wr \in WorkRequestIDs \cup {0}
<1>1. NoTracker \in Trackers /\ {"Failed", "Terminating"} \subseteq A!Conditions
  BY DEF NoTracker, Trackers, A!Conditions
<1>2. /\ Failure(st) \in Statuses
      /\ \A i \in OCIDs \cup {0} : [st EXCEPT !.ocid = i] \in Statuses
      /\ st.async \in Trackers /\ st.ocid \in OCIDs \cup {0}
  BY <1>1 DEF Failure, Statuses
<1>3. ClearAsyncOperation(st) \in Statuses
  BY <1>1 DEF ClearAsyncOperation, Statuses
<1>4. Confirmed(st) \in Statuses
  BY <1>1, <1>3 DEF Confirmed, Statuses
<1> QED
  BY <1>2, <1>3, <1>4 DEF Trackers

LEMMA ApplySuccessType ==
    ASSUME NEW st \in Statuses, NEW i \in OCIDs \cup {0}, NEW state, NEW fallback
    PROVE  ApplySuccess(st, i, state, fallback) \in Statuses
<1> DEFINE seen == [st EXCEPT !.ocid = i]
<1>1. seen \in Statuses
  BY StatusType
<1>2. \A phase \in {"create", "update", "delete"}, class \in {"pending", "succeeded", "failed"} :
         LifecycleOperation(phase, class) \in Trackers
  BY DEF LifecycleOperation, Trackers, A!Phases, A!Classes
<1> HIDE DEF seen
<1>3. \A phase \in {"create", "update", "delete"}, class \in {"pending", "succeeded", "failed"} :
         A!ApplyAsyncOperation(seen, LifecycleOperation(phase, class)) \in Statuses
  BY <1>1, <1>2, ApplyType
<1>4. ClearAsyncOperation(seen) \in Statuses /\ {"Failed", "Active"} \subseteq A!Conditions
  BY <1>1, StatusType DEF A!Conditions
<1>5. \A r \in {"Failed", "Active"} : [ClearAsyncOperation(seen) EXCEPT !.reason = r] \in Statuses
  BY <1>4 DEF Statuses
<1> DEFINE to(phase, class) == A!ApplyAsyncOperation(seen, LifecycleOperation(phase, class))
<1>6. ApplySuccess(st, i, state, fallback) =
        CASE state = "CREATING" -> to("create", "pending")
          [] state = "UPDATING" -> to("update", "pending")
          [] state = "DELETING" -> to("delete", "pending")
          [] state = "DELETED"  -> to("delete", "succeeded")
          [] state = "FAILED" /\ fallback # "Active" ->
               to(IF fallback = "Provisioning" THEN "create" ELSE "update", "failed")
          [] OTHER -> [ClearAsyncOperation(seen) EXCEPT
                         !.reason = IF state = "FAILED" THEN "Failed" ELSE "Active"]
  BY DEF ApplySuccess, seen
<1> QED
  BY <1>3, <1>5, <1>6

\* What a poll of a tracked work request makes of a status.
LEMMA ObservedType ==
    ASSUME NEW st \in Statuses, NEW w \in WorkRequestIDs,
           wrs \in [WorkRequestIDs ->
                     [op : Operations \cup {""}, res : OCIDs \cup {0},
                      status : {"", "IN_PROGRESS", "SUCCEEDED", "FAILED", "GONE"}]]
    PROVE  /\ FailWorkRequest(st, Observed(w)) \in Statuses
           /\ MarkObservedWorkRequest(st, Observed(w)) \in Statuses
           /\ FailWorkRequest(st, Succeeded(w)) \in Statuses
           /\ MarkObservedWorkRequest(st, Succeeded(w)) \in Statuses
<1> DEFINE op == wrs[w].op
<1>1. op \in Operations \cup {""}
  OBVIOUS
<1>2. WorkRequestPhase(op) \in A!Phases \cup {""} /\ {"failed", "pending"} \subseteq A!Classes
  BY <1>1, PhaseType DEF A!Classes
<1>3. \A class \in {"failed", "pending"} :
         /\ [Observed(w) EXCEPT !.class = class] \in Trackers
         /\ [Succeeded(w) EXCEPT !.class = class] \in Trackers
  <2> SUFFICES ASSUME NEW class \in {"failed", "pending"}
               PROVE  /\ [Observed(w) EXCEPT !.class = class] \in Trackers
                      /\ [Succeeded(w) EXCEPT !.class = class] \in Trackers
    OBVIOUS
  <2>1. PendingOperation(op, w) \in Trackers
    BY <1>1, PendingType
  <2>2. [Succeeded(w) EXCEPT !.class = class] \in Trackers
    BY <1>2, <2>1 DEF Succeeded, Trackers, A!Classes
  <2>3. [Observed(w) EXCEPT !.class = class] \in Trackers
    BY <1>1, <1>2 DEF Observed, Trackers
  <2> QED
    BY <2>2, <2>3
<1> QED
  BY <1>3, ApplyType DEF FailWorkRequest, MarkObservedWorkRequest

\* What is known of a work request that could not be read, and of a resource
\* in transition when Delete looks at it.
LEMMA MarkType ==
    ASSUME NEW st \in Statuses, NEW i \in OCIDs \cup {0}
    PROVE  /\ FailWorkRequest(st, st.async) \in Statuses
           /\ MarkWithoutReadback(st) \in Statuses
           /\ MarkReadbackPending(st, i) \in Statuses
           /\ MarkDeletePending(st, i) \in Statuses
<1>s. st.async \in Trackers /\ [st EXCEPT !.ocid = i] \in Statuses
      /\ st.async.wr \in WorkRequestIDs \cup {0}
  BY StatusType
<1>1. FailWorkRequest(st, st.async) \in Statuses
  <2>1. [st.async EXCEPT !.class = "failed"] \in Trackers
    BY <1>s DEF Trackers, A!Classes
  <2> QED
    BY <2>1, ApplyType DEF FailWorkRequest
<1>2. MarkWithoutReadback(st) \in Statuses
  <2> DEFINE op == IF st.async.op = "" THEN st.async.phase ELSE st.async.op
             t == [st.async EXCEPT !.op = op]
  <2>1. op \in Operations \cup {""}
    BY <1>s DEF Trackers, Operations, A!Phases
  <2>2. MarkWithoutReadback(st) = MarkObservedWorkRequest(st, t)
    BY <1>s DEF MarkWithoutReadback, Trackers
  <2> HIDE DEF op
  <2>3. t \in Trackers
    BY <1>s, <2>1 DEF Trackers
  <2>4. [t EXCEPT !.class = "pending"] \in Trackers
    BY <2>3 DEF Trackers, A!Classes
  <2> QED
    BY <2>2, <2>4, ApplyType DEF MarkObservedWorkRequest
<1>3. MarkReadbackPending(st, i) \in Statuses
  <2>1. \A phase \in {"create", "update"} :
           [LifecycleOperation(phase, "pending") EXCEPT !.class = "pending"] \in Trackers
    BY DEF LifecycleOperation, Trackers, A!Phases, A!Classes
  <2> QED
    BY <1>s, <2>1, ApplyType DEF MarkReadbackPending, MarkObservedWorkRequest
<1>4. MarkDeletePending(st, i) \in Statuses
  <2>1. "delete" \in Operations
    BY DEF Operations
  <2>2. PendingOperation("delete", st.async.wr) \in Trackers
    BY <1>s, <2>1, PendingType
  <2>3. [PendingOperation("delete", st.async.wr) EXCEPT !.source = "workrequest"] \in Trackers
    BY <2>2 DEF Trackers
  <2> QED
    BY <2>3, ApplyType, ApplySuccessType DEF MarkDeletePending
<1> QED
  BY <1>1, <1>2, <1>3, <1>4

-----------------------------------------------------------------------------
(* The reconciler. *)

\* The assumptions under which the theorems about Reconciler were proved.
LEMMA StatusFits == RP!StatusAssumption
  BY MergeIsStatus DEF RP!StatusAssumption

LEMMA BoundsFit == RP!BoundsAssumption
  BY ReconcilerBounds DEF RP!BoundsAssumption

\* The two instances of Reconciler, the one of WebAppAcceleration and the one
\* that comes with the theorems, are the same.
LEMMA SameInit == R!Init <=> RP!Init
  BY Zenon DEF R!Init, R!Gone, R!NoResponse, RP!Init, RP!Gone, RP!NoResponse

LEMMA SameVars == R!vars = RP!vars /\ R!vars' = RP!vars'
  BY Zenon DEF R!vars, R!apiVars, R!ctrlVars, R!histVars,
               RP!vars, RP!apiVars, RP!ctrlVars, RP!histVars

LEMMA SameNext == R!Next <=> RP!Next
  BY Zenon DEF
    R!Next, R!Environment, R!Controller, R!ServiceManager, R!UserCreate, R!UserEditSpec,
    R!UserDelete, R!OtherFinalizerRemoved, R!StoreByOther, R!Store, R!Gone, R!Api, R!Cached,
    R!Room, R!Deliver, R!ReconcilePredicate, R!TimerFires, R!Restart, R!NoResponse, R!Start,
    R!CallCreateOrUpdate, R!Finish, R!UpdateAccepted, R!AddFinalizer, R!FinalizerUpdateFails,
    R!CreateOrUpdateReturns, R!PatchApplied, R!RequeueOf, R!PatchStatus, R!DeleteReturns,
    R!DeleteResourceResult, R!DeleteOutcomes, R!PatchDeleteStatus, R!RemoveFinalizer,
    R!Responses, R!AnyResponses, R!apiVars, R!histVars,
    RP!Next, RP!Environment, RP!Controller, RP!ServiceManager, RP!UserCreate,
    RP!UserEditSpec, RP!UserDelete, RP!OtherFinalizerRemoved, RP!StoreByOther, RP!Store,
    RP!Gone, RP!Api, RP!Cached, RP!Room, RP!Deliver, RP!ReconcilePredicate, RP!TimerFires,
    RP!Restart, RP!NoResponse, RP!Start, RP!CallCreateOrUpdate, RP!Finish,
    RP!UpdateAccepted, RP!AddFinalizer, RP!FinalizerUpdateFails, RP!CreateOrUpdateReturns,
    RP!PatchApplied, RP!RequeueOf, RP!PatchStatus, RP!DeleteReturns,
    RP!DeleteResourceResult, RP!DeleteOutcomes, RP!PatchDeleteStatus, RP!RemoveFinalizer,
    RP!Responses, RP!AnyResponses, RP!apiVars, RP!histVars

LEMMA SameType == (R!TypeOK <=> RP!TypeOK) /\ (R!TypeOK' <=> RP!TypeOK')
  BY Zenon DEF R!TypeOK, R!Version, R!Steps, R!Responses,
               RP!TypeOK, RP!Version, RP!Steps, RP!Responses

-----------------------------------------------------------------------------
(* The inductive invariant. *)

CreateSteps == {"list", "create", "readCreated", "move", "readMoved", "update",
                "readUpdated", "poll"}
DeleteSteps == {"guardPoll", "guardLifecycle", "guardSucceeded", "preRead", "delete",
                "confirm", "pollDelete", "confirmSucceeded"}

\* Steps with a work request to read, and steps with a resource to write.
PollSteps  == {"poll", "guardPoll", "guardSucceeded", "pollDelete", "confirmSucceeded"}
WriteSteps == {"move", "readMoved", "update", "preRead", "delete"}

CallRecord == [step : CallSteps, st : Statuses, id : OCIDs \cup {0},
               wr : WorkRequestIDs \cup {0}]

\* A call runs only while the reconciler waits for it.
CallOK ==
    /\ call \in CallRecord
    /\ call.step \in CreateSteps => pc = "createOrUpdate"
    /\ call.step \in DeleteSteps => pc = "delete"
    /\ call.step \in PollSteps => call.st.async.wr # 0
    /\ call.step \in WriteSteps => call.id # 0

ResType == res \in [OCIDs -> [own : Nat, gen : Nat, spec : Specs, want : Specs,
                              op : Operations \cup {""},
                              state : LifecycleStates \cup {"NONE", "ACCEPTED"}]]
WrsType == wrs \in [WorkRequestIDs ->
                     [op : Operations \cup {""}, res : OCIDs \cup {0},
                      status : {"", "IN_PROGRESS", "SUCCEEDED", "FAILED", "GONE"}]]

-----------------------------------------------------------------------------
(* Steps of a call. *)

\* How a step of CreateOrUpdate or Delete ends: it returns to the reconciler,
\* or the call goes on.
CallStep ==
    \/ \E st \in Statuses, r \in R!AnyResponses :
          R!CreateOrUpdateReturns(st, r) /\ call' = NoCall
    \/ \E st \in Statuses, out \in R!DeleteOutcomes :
          R!DeleteReturns(st, out) /\ call' = NoCall
    \/ UNCHANGED reconcilerVars /\ CallOK'

LEMMA NoCallOK == NoCall \in CallRecord /\ NoCall.step = "none"
  BY MergeIsStatus DEF NoCall, CallRecord, CallSteps

LEMMA ReturnsOK ==
    ASSUME NEW st \in Statuses, Returns(st)
    PROVE  CallStep
<1>1. Response(st) \in R!AnyResponses
  BY DEF Response, R!AnyResponses, R!Responses
<1> QED
  BY <1>1 DEF Returns, CallStep

Outcomes == {"deleted", "pending", "404 NotFound", "409 IncorrectState", "error"}

LEMMA DeleteReturnsOK ==
    ASSUME NEW st \in Statuses, NEW out \in Outcomes, DeleteReturns(st, out)
    PROVE  CallStep
<1>1. out \in R!DeleteOutcomes
  BY DEF R!DeleteOutcomes, Outcomes
<1> QED
  BY <1>1 DEF DeleteReturns, CallStep

\* The call goes on with another step, in the same call of the reconciler.
LEMMA ContinueOK ==
    ASSUME NEW s \in CreateSteps \cup DeleteSteps, NEW st \in Statuses,
           NEW i \in OCIDs \cup {0}, NEW w \in WorkRequestIDs \cup {0},
           Continue(s, st, i, w),
           s \in CreateSteps => pc = "createOrUpdate", s \in DeleteSteps => pc = "delete",
           s \in PollSteps => st.async.wr # 0, s \in WriteSteps => i # 0
    PROVE  CallStep
<1>1. s \in CallSteps
  BY DEF CreateSteps, DeleteSteps, CallSteps
<1>2. /\ call' \in CallRecord /\ call'.step = s /\ call'.st = st /\ call'.id = i
      /\ UNCHANGED pc
  BY <1>1 DEF Continue, CallRecord, reconcilerVars
<1>3. CallOK'
  BY <1>2 DEF CallOK
<1> QED
  BY <1>3 DEF CallStep, Continue

LEMMA HandlePendingWriteOK ==
    ASSUME pc = "createOrUpdate", NEW st \in Statuses, NEW i \in OCIDs \cup {0},
           NEW pending \in Trackers, pending.wr # 0 => st.async.wr # 0,
           HandlePendingWrite(st, i, pending)
    PROVE  CallStep
<1>1. CASE Continue("poll", st, i, 0)
  <2>1. /\ "poll" \in CreateSteps \cup DeleteSteps /\ "poll" \notin DeleteSteps
        /\ "poll" \notin WriteSteps
    BY DEF CreateSteps, DeleteSteps, WriteSteps
  <2>2. CASE pending.wr # 0
    BY <1>1, <2>1, <2>2, ContinueOK
  <2>3. CASE pending.wr = 0
    BY <2>3, StatusType, ApplyType, ReturnsOK DEF HandlePendingWrite
  <2> QED
    BY <2>2, <2>3
<1>2. CASE Returns(A!ApplyAsyncOperation([st EXCEPT !.ocid = i], pending))
  BY <1>2, StatusType, ApplyType, ReturnsOK
<1> QED
  BY <1>1, <1>2 DEF HandlePendingWrite

LEMMA HandlePendingMoveOK ==
    ASSUME pc = "createOrUpdate", NEW st \in Statuses, NEW i \in OCIDs \cup {0},
           HandlePendingMove(st, i)
    PROVE  CallStep
<1>1. CASE HandlePendingWrite(st, i, st.async)
  BY <1>1, StatusType, HandlePendingWriteOK
<1>2. CASE Returns(ApplySuccess(st, i, res[i].state, "Updating"))
  BY <1>2, ApplySuccessType, ReturnsOK
<1> QED
  BY <1>1, <1>2 DEF HandlePendingMove

LEMMA ReconcileUpdateOK ==
    ASSUME pc = "createOrUpdate", NEW st \in Statuses, NEW i \in OCIDs, i # 0,
           ReconcileUpdate(st, i)
    PROVE  CallStep
<1>1. CASE Continue("update", st, i, 0)
  BY <1>1, ContinueOK DEF CreateSteps, DeleteSteps, PollSteps
<1>2. CASE Returns(ApplySuccess(st, i, res[i].state, "Active"))
  BY <1>2, ApplySuccessType, ReturnsOK
<1> QED
  BY <1>1, <1>2 DEF ReconcileUpdate

LEMMA ReconcileExistingOK ==
    ASSUME pc = "createOrUpdate", NEW st0 \in Statuses, NEW i \in OCIDs, i # 0,
           ReconcileExisting(st0, i)
    PROVE  CallStep
<1> DEFINE st == [st0 EXCEPT !.ocid = i]
<1>1. st \in Statuses /\ st.async \in Trackers /\ Failure(st) \in Statuses
  BY StatusType
<1>2. \/ Returns(Failure(st)) \/ HandlePendingWrite(st, i, st.async)
      \/ Returns(ApplySuccess(st, i, res[i].state, "Active"))
      \/ HandlePendingMove(st, i) \/ Continue("move", st, i, 0)
      \/ ReconcileUpdate(st, i)
  BY DEF ReconcileExisting
<1> HIDE DEF st
<1>3. CASE Continue("move", st, i, 0)
  BY <1>1, <1>3, ContinueOK DEF CreateSteps, DeleteSteps, PollSteps
<1>4. ApplySuccess(st, i, res[i].state, "Active") \in Statuses
  BY <1>1, ApplySuccessType
<1> QED
  BY <1>1, <1>2, <1>3, <1>4, ReturnsOK, HandlePendingWriteOK, HandlePendingMoveOK,
     ReconcileUpdateOK

\* What a step of a call may assume.
LEMMA CallFacts ==
    ASSUME CallOK
    PROVE  /\ call \in CallRecord /\ call.st \in Statuses /\ call.id \in OCIDs \cup {0}
           /\ call.wr \in WorkRequestIDs \cup {0} /\ call.st.async \in Trackers
           /\ call.st.async.wr \in WorkRequestIDs \cup {0}
           /\ call.step \in CreateSteps => pc = "createOrUpdate"
           /\ call.step \in DeleteSteps => pc = "delete"
           /\ call.step \in PollSteps => call.st.async.wr \in WorkRequestIDs
           /\ call.step \in WriteSteps => call.id \in OCIDs
<1>1. /\ call \in CallRecord /\ call.st \in Statuses /\ call.id \in OCIDs \cup {0}
      /\ call.wr \in WorkRequestIDs \cup {0}
  BY DEF CallOK, CallRecord
<1>2. call.st.async \in Trackers /\ call.st.async.wr \in WorkRequestIDs \cup {0}
  BY <1>1, StatusType
<1> QED
  BY <1>1, <1>2 DEF CallOK

\* Each step of CreateOrUpdate returns or goes on.
LEMMA CreateStepOK ==
    ASSUME CallOK, WrsType, obj.st \in Statuses, CreateOrUpdate
    PROVE  CallStep
<1>c. /\ call \in CallRecord /\ call.st \in Statuses /\ call.id \in OCIDs \cup {0}
      /\ call.wr \in WorkRequestIDs \cup {0} /\ call.st.async \in Trackers
      /\ call.step \in CreateSteps => pc = "createOrUpdate"
      /\ call.step \in PollSteps => call.st.async.wr \in WorkRequestIDs
      /\ call.step \in WriteSteps => call.id \in OCIDs
  BY CallFacts
<1>z. 0 \notin OCIDs /\ 0 \notin WorkRequestIDs
  BY WaaAssumption
<1>f. Failure(call.st) \in Statuses /\ Failure(obj.st) \in Statuses
  BY <1>c, StatusType
<1>s. \A i, state, fallback : i \in OCIDs \cup {0} =>
         ApplySuccess(call.st, i, state, fallback) \in Statuses
  BY <1>c, ApplySuccessType
<1>o. {"create", "update", "move"} \subseteq Operations
  BY DEF Operations
<1>1. CASE ReadCurrent
  <2>1. pc = "createOrUpdate" /\ obj.st.ocid \in OCIDs /\ obj.st.ocid # 0
    BY <1>1, StatusType DEF ReadCurrent
  <2>2. CASE Continue("list", EmptyStatus, 0, 0)
    BY <2>1, <2>2, MergeIsStatus, ContinueOK DEF CreateSteps, DeleteSteps, PollSteps, WriteSteps
  <2> QED
    BY <1>1, <1>f, <2>1, <2>2, ReturnsOK, ReconcileExistingOK DEF ReadCurrent
<1>2. CASE FindExisting
  <2> DEFINE st == IF At("list") THEN call.st ELSE obj.st
  <2>1. pc = "createOrUpdate"
    BY <1>2, <1>c DEF FindExisting, At, CreateSteps
  <2>2. st \in Statuses /\ Failure(st) \in Statuses
    BY <1>c, <1>f
  <2>3. \/ Returns(Failure(st)) \/ Continue("create", st, 0, 0)
        \/ \E i \in OCIDs : ReconcileExisting(st, i)
    BY <1>2 DEF FindExisting
  <2> HIDE DEF st
  <2>4. CASE Continue("create", st, 0, 0)
    BY <2>1, <2>2, <2>4, ContinueOK DEF CreateSteps, DeleteSteps, PollSteps, WriteSteps
  <2> QED
    BY <1>z, <2>1, <2>2, <2>3, <2>4, ReturnsOK, ReconcileExistingOK
<1>3. CASE Create
  <2>1. pc = "createOrUpdate"
    BY <1>3, <1>c DEF Create, At, CreateSteps
  <2>2. ASSUME NEW i \in OCIDs, NEW w \in WorkRequestIDs \cup {0},
               Continue("readCreated", Seed(call.st, "create", w), i, w)
        PROVE  CallStep
    <3>1. Seed(call.st, "create", w) \in Statuses
      BY <1>c, <1>o, SeedType
    <3> QED
      BY <2>1, <2>2, <3>1, ContinueOK DEF CreateSteps, DeleteSteps, PollSteps, WriteSteps
  <2> QED
    BY <1>3, <1>f, <2>2, ReturnsOK DEF Create
<1>4. CASE ReadAfterCreate
  <2>1. pc = "createOrUpdate"
    BY <1>4, <1>c DEF ReadAfterCreate, At, CreateSteps
  <2>2. \/ Returns(Failure(call.st)) \/ HandlePendingWrite(call.st, call.id, call.st.async)
        \/ \E state : Returns(ApplySuccess(call.st, call.id, state, "Provisioning"))
    BY <1>4 DEF ReadAfterCreate
  <2> QED
    BY <1>c, <1>f, <1>s, <2>1, <2>2, ReturnsOK, HandlePendingWriteOK
<1>w. ASSUME pc = "createOrUpdate", NEW op \in {"move", "update"}, NEW want,
             NEW next \in {"readMoved", "readUpdated"}, CallWrite(op, want, next),
             call.id \in OCIDs
      PROVE  CallStep
  <2>1. ASSUME NEW w \in WorkRequestIDs \cup {0},
               Continue(next, Seed(call.st, op, w), call.id, w)
        PROVE  CallStep
    <3>1. Seed(call.st, op, w) \in Statuses
      BY <1>c, <1>o, SeedType
    <3>2. next \in CreateSteps \cup DeleteSteps /\ next \notin PollSteps \cup DeleteSteps
      BY DEF CreateSteps, DeleteSteps, PollSteps
    <3> QED
      BY <1>c, <1>w, <1>z, <2>1, <3>1, <3>2, ContinueOK
  <2> QED
    BY <1>w, <1>f, <2>1, ReturnsOK DEF CallWrite
<1>5. CASE MoveCompartment
  <2>1. pc = "createOrUpdate" /\ call.id \in OCIDs
    BY <1>5, <1>c DEF MoveCompartment, At, CreateSteps, WriteSteps
  <2> QED
    BY <1>5, <1>w, <2>1 DEF MoveCompartment
<1>6. CASE Update
  <2>1. pc = "createOrUpdate" /\ call.id \in OCIDs
    BY <1>6, <1>c DEF Update, At, CreateSteps, WriteSteps
  <2> QED
    BY <1>6, <1>w, <2>1 DEF Update
<1>7. CASE ReadAfterMove
  <2>1. pc = "createOrUpdate" /\ call.id \in OCIDs /\ call.id # 0
    BY <1>7, <1>c, <1>z DEF ReadAfterMove, At, CreateSteps, WriteSteps
  <2>2. \/ Returns(Failure(call.st)) \/ HandlePendingMove(call.st, call.id)
        \/ ReconcileUpdate(call.st, call.id)
    BY <1>7 DEF ReadAfterMove
  <2> QED
    BY <1>c, <1>f, <2>1, <2>2, ReturnsOK, HandlePendingMoveOK, ReconcileUpdateOK
<1>8. CASE ReadAfterUpdate
  <2> DEFINE pending == IF call.wr # 0 THEN call.st.async ELSE PendingOperation("update", 0)
  <2>1. pc = "createOrUpdate"
    BY <1>8, <1>c DEF ReadAfterUpdate, At, CreateSteps
  <2>2. PendingOperation("update", 0) \in Trackers /\ PendingOperation("update", 0).wr = 0
    BY <1>o, PendingType
  <2>3. pending \in Trackers /\ (pending.wr # 0 => call.st.async.wr # 0)
    BY <1>c, <2>2
  <2>4. \/ Returns(Failure(call.st)) \/ HandlePendingWrite(call.st, call.id, pending)
        \/ Returns(ApplySuccess(call.st, call.id, res[call.id].state, "Updating"))
    BY <1>8 DEF ReadAfterUpdate
  <2> HIDE DEF pending
  <2> QED
    BY <1>c, <1>f, <1>s, <2>1, <2>3, <2>4, ReturnsOK, HandlePendingWriteOK
<1>9. CASE PollPendingWorkRequest
  <2> DEFINE w == call.st.async.wr
             seen == [call.st EXCEPT !.ocid = call.id]
  <2>1. w \in WorkRequestIDs
    BY <1>9, <1>c DEF PollPendingWorkRequest, At, PollSteps
  <2>2. /\ FailWorkRequest(call.st, call.st.async) \in Statuses /\ seen \in Statuses
    BY <1>c, MarkType, StatusType
  <2>3. \/ Returns(FailWorkRequest(call.st, call.st.async))
        \/ Returns(FailWorkRequest(call.st, Observed(w)))
        \/ Returns(MarkObservedWorkRequest(seen, Observed(w)))
    BY <1>9 DEF PollPendingWorkRequest
  <2> HIDE DEF seen, w
  <2>4. /\ FailWorkRequest(call.st, Observed(w)) \in Statuses
        /\ MarkObservedWorkRequest(seen, Observed(w)) \in Statuses
    BY <1>c, <2>1, <2>2, ObservedType DEF WrsType
  <2> QED
    BY <2>2, <2>3, <2>4, ReturnsOK
<1> QED
  BY <1>1, <1>2, <1>3, <1>4, <1>5, <1>6, <1>7, <1>8, <1>9 DEF CreateOrUpdate

LEMMA DeleteUnguardedOK ==
    ASSUME pc = "delete", NEW st \in Statuses, DeleteUnguarded(st)
    PROVE  CallStep
<1>s. Confirmed(st) \in Statuses /\ st.ocid \in OCIDs \cup {0}
  BY StatusType
<1>1. CASE DeleteReturns(Confirmed(st), "deleted")
  BY <1>s, <1>1, DeleteReturnsOK DEF Outcomes
<1>2. CASE st.ocid # 0 /\ st.async.wr # 0 /\ Continue("pollDelete", st, st.ocid, 0)
  BY <1>s, <1>2, ContinueOK DEF CreateSteps, DeleteSteps, WriteSteps
<1>3. CASE st.ocid # 0 /\ Continue("preRead", st, st.ocid, 0)
  BY <1>s, <1>3, ContinueOK DEF CreateSteps, DeleteSteps, PollSteps
<1> QED
  BY <1>1, <1>2, <1>3 DEF DeleteUnguarded

\* Each step of Delete returns or goes on.
LEMMA DeleteStepOK ==
    ASSUME CallOK, WrsType, obj.st \in Statuses, DeleteStep
    PROVE  CallStep
<1>c. /\ call \in CallRecord /\ call.st \in Statuses /\ call.id \in OCIDs \cup {0}
      /\ call.step \in DeleteSteps => pc = "delete"
      /\ call.step \in PollSteps => call.st.async.wr \in WorkRequestIDs
      /\ call.step \in WriteSteps => call.id \in OCIDs
  BY CallFacts
<1>z. 0 \notin OCIDs /\ 0 \notin WorkRequestIDs
  BY WaaAssumption
<1>s. /\ ClearAsyncOperation(call.st) \in Statuses /\ Confirmed(call.st) \in Statuses
      /\ FailWorkRequest(call.st, call.st.async) \in Statuses
      /\ MarkWithoutReadback(call.st) \in Statuses
      /\ MarkReadbackPending(call.st, call.id) \in Statuses
      /\ MarkDeletePending(call.st, call.id) \in Statuses
  BY <1>c, StatusType, MarkType
<1>w. ASSUME NEW w \in WorkRequestIDs
      PROVE  /\ FailWorkRequest(call.st, Observed(w)) \in Statuses
             /\ MarkObservedWorkRequest(call.st, Observed(w)) \in Statuses
             /\ FailWorkRequest(call.st, Succeeded(w)) \in Statuses
             /\ MarkObservedWorkRequest(call.st, Succeeded(w)) \in Statuses
  BY <1>c, ObservedType DEF WrsType
<1>g. ASSUME NEW st \in Statuses, NEW out \in Outcomes, DeleteReturns(st, out)
      PROVE  CallStep
  BY <1>g, DeleteReturnsOK
<1>o. {"deleted", "pending", "404 NotFound", "409 IncorrectState", "error"} \subseteq Outcomes
  BY DEF Outcomes
<1>r. ASSUME pc = "delete",
             NEW settled \in {call.st, ClearAsyncOperation(call.st)},
             GuardReadback(call.st, call.id, settled)
      PROVE  CallStep
  BY <1>c, <1>s, <1>g, <1>o, <1>r, DeleteUnguardedOK DEF GuardReadback
<1>e. ASSUME call.st.async.wr \in WorkRequestIDs, PollEndsDelete(call.st)
      PROVE  CallStep
  BY <1>e, <1>s, <1>w, <1>g, <1>o DEF PollEndsDelete
<1>1. CASE Delete
  <2> DEFINE s == IF obj.st.async.wr # 0 THEN "guardPoll" ELSE "guardLifecycle"
  <2>1. pc = "delete" /\ obj.st.ocid \in OCIDs \cup {0}
    BY <1>1, StatusType DEF Delete
  <2>2. CASE Continue(s, obj.st, obj.st.ocid, 0)
    <3>1. /\ s \in CreateSteps \cup DeleteSteps /\ s \notin CreateSteps \cup WriteSteps
          /\ s \in PollSteps => obj.st.async.wr # 0
      BY DEF CreateSteps, DeleteSteps, PollSteps, WriteSteps
    <3> HIDE DEF s
    <3> QED
      BY <2>1, <2>2, <3>1, ContinueOK
  <2> QED
    BY <1>1, <2>1, <2>2, DeleteUnguardedOK DEF Delete
<1>2. CASE GuardPoll
  <2>1. pc = "delete" /\ call.st.async.wr \in WorkRequestIDs
    BY <1>2, <1>c DEF GuardPoll, At, DeleteSteps, PollSteps
  <2>2. CASE Continue("guardSucceeded", call.st, call.id, 0)
    BY <1>c, <1>z, <2>1, <2>2, ContinueOK DEF CreateSteps, DeleteSteps, WriteSteps
  <2> QED
    BY <1>2, <1>s, <1>e, <2>1, <2>2, DeleteUnguardedOK DEF GuardPoll
<1>3. CASE GuardLifecycle
  <2>1. pc = "delete"
    BY <1>3, <1>c DEF GuardLifecycle, At, DeleteSteps
  <2> QED
    BY <1>3, <1>c, <1>s, <1>g, <1>o, <1>r, <2>1 DEF GuardLifecycle
<1>4. CASE GuardSucceeded
  <2>1. pc = "delete" /\ call.st.async.wr \in WorkRequestIDs
    BY <1>4, <1>c DEF GuardSucceeded, At, DeleteSteps, PollSteps
  <2>2. \/ DeleteReturns(FailWorkRequest(call.st, Succeeded(call.st.async.wr)), "error")
        \/ DeleteUnguarded(ClearAsyncOperation(call.st))
        \/ GuardReadback(call.st, call.id, ClearAsyncOperation(call.st))
    BY <1>4 DEF GuardSucceeded
  <2> QED
    BY <1>s, <1>w, <1>g, <1>o, <1>r, <2>1, <2>2, DeleteUnguardedOK
<1>5. CASE PreRead
  <2>1. pc = "delete" /\ call.id \in OCIDs
    BY <1>5, <1>c DEF PreRead, At, DeleteSteps, WriteSteps
  <2>2. Continue("delete", call.st, call.id, 0) => CallStep
    BY <1>c, <1>z, <2>1, ContinueOK DEF CreateSteps, DeleteSteps, PollSteps
  <2>3. \/ DeleteReturns(call.st, "error") \/ DeleteReturns(Confirmed(call.st), "deleted")
        \/ DeleteReturns(MarkReadbackPending(call.st, call.id), "pending")
        \/ DeleteReturns(MarkDeletePending(call.st, call.id), "pending")
        \/ Continue("delete", call.st, call.id, 0)
    BY <1>5 DEF PreRead, HandleDeleteReadState
  <2> QED
    BY <1>c, <1>s, <1>g, <1>o, <2>2, <2>3
<1>6. CASE RequestDelete
  <2>1. pc = "delete" /\ call.id \in OCIDs
    BY <1>6, <1>c DEF RequestDelete, At, DeleteSteps, WriteSteps
  <2>2. ASSUME NEW w \in WorkRequestIDs \cup {0},
               Continue(IF w # 0 THEN "pollDelete" ELSE "confirm",
                        Seed(call.st, "delete", w), call.id, w)
        PROVE  CallStep
    <3> DEFINE s == IF w # 0 THEN "pollDelete" ELSE "confirm"
    <3>1. /\ Seed(call.st, "delete", w) \in Statuses
          /\ w # 0 => Seed(call.st, "delete", w).async.wr # 0
      BY <1>c, SeedType DEF Operations
    <3>2. /\ s \in CreateSteps \cup DeleteSteps /\ s \notin CreateSteps \cup WriteSteps
          /\ s \in PollSteps => w # 0
      BY DEF CreateSteps, DeleteSteps, PollSteps, WriteSteps
    <3>3. Continue(s, Seed(call.st, "delete", w), call.id, w)
      BY <2>2
    <3> HIDE DEF s
    <3> QED
      BY <1>c, <2>1, <3>1, <3>2, <3>3, ContinueOK
  <2> QED
    BY <1>6, <1>c, <1>s, <1>g, <1>o, <2>2 DEF RequestDelete
<1>7. CASE ConfirmDeleted
  <2>1. \/ DeleteReturns(call.st, "error") \/ DeleteReturns(Confirmed(call.st), "deleted")
        \/ DeleteReturns(MarkReadbackPending(call.st, call.id), "pending")
        \/ DeleteReturns(MarkDeletePending(call.st, call.id), "pending")
    BY <1>7 DEF ConfirmDeleted, HandleDeleteReadState
  <2> QED
    BY <1>c, <1>s, <1>g, <1>o, <2>1
<1>8. CASE PollDelete
  <2>1. pc = "delete" /\ call.st.async.wr \in WorkRequestIDs
    BY <1>8, <1>c DEF PollDelete, At, DeleteSteps, PollSteps
  <2>2. CASE Continue("confirmSucceeded", call.st, call.id, 0)
    BY <1>c, <1>z, <2>1, <2>2, ContinueOK DEF CreateSteps, DeleteSteps, WriteSteps
  <2> QED
    BY <1>8, <1>e, <2>1, <2>2 DEF PollDelete
<1>9. CASE ConfirmSucceeded
  <2>1. call.st.async.wr \in WorkRequestIDs
    BY <1>9, <1>c DEF ConfirmSucceeded, At, PollSteps
  <2>2. \/ DeleteReturns(FailWorkRequest(call.st, Succeeded(call.st.async.wr)), "error")
        \/ DeleteReturns(Confirmed(call.st), "deleted")
        \/ DeleteReturns(MarkObservedWorkRequest(call.st, Succeeded(call.st.async.wr)), "pending")
    BY <1>9 DEF ConfirmSucceeded
  <2> QED
    BY <1>s, <1>w, <1>g, <1>o, <2>1, <2>2
<1> QED
  BY <1>1, <1>2, <1>3, <1>4, <1>5, <1>6, <1>7, <1>8, <1>9 DEF DeleteStep

-----------------------------------------------------------------------------
(* Refinement. *)

LEMMA SameReconcilerVars == UNCHANGED reconcilerVars <=> UNCHANGED R!vars
  BY DEF reconcilerVars, R!vars, R!apiVars, R!ctrlVars, R!histVars

\* What the proofs below need to know of the reconciler.
LEMMA ReconcilerFacts ==
    ASSUME RP!IInv
    PROVE  /\ R!TypeOK /\ obj \in R!Version /\ old \in Statuses /\ obj.st \in Statuses
           /\ obj.uid \in Nat /\ obj.gen \in Nat
<1>1. R!TypeOK
  BY SameType DEF RP!IInv
<1> QED
  BY <1>1 DEF R!TypeOK, R!Version

LEMMA CallStepRefines ==
    ASSUME RP!IInv, CallStep
    PROVE  ReconcilerStep \/ UNCHANGED reconcilerVars
<1>o. obj \in R!Version
  BY ReconcilerFacts
<1>u. \A st \in Statuses : [obj EXCEPT !.st = st].st = st
  BY <1>o DEF R!Version
<1>1. ASSUME NEW st \in Statuses, NEW r \in R!AnyResponses, R!CreateOrUpdateReturns(st, r)
      PROVE  ReconcilerStep
  <2>1. obj'.st = st
    BY <1>1, <1>u DEF R!CreateOrUpdateReturns
  <2> QED
    BY <1>1, <2>1 DEF ReconcilerStep
<1>2. ASSUME NEW st \in Statuses, NEW out \in R!DeleteOutcomes, R!DeleteReturns(st, out)
      PROVE  ReconcilerStep
  <2>1. st \in {obj'.st, old}
    BY <1>2, <1>u DEF R!DeleteReturns
  <2> QED
    BY <1>2, <2>1 DEF ReconcilerStep
<1> QED
  BY <1>1, <1>2 DEF CallStep

LEMMA StepRefines ==
    RP!IInv /\ CallOK /\ WrsType /\ [Next]_vars => ReconcilerStep \/ UNCHANGED reconcilerVars
<1> SUFFICES ASSUME RP!IInv, CallOK, WrsType, [Next]_vars
             PROVE  ReconcilerStep \/ UNCHANGED reconcilerVars
  OBVIOUS
<1>1. CASE Kubernetes
  BY <1>1 DEF Kubernetes, Users, ReconcilerStep, R!Environment
<1>2. CASE Restart
  BY <1>2 DEF Restart, ReconcilerStep
<1>3. CASE Manager
  BY <1>3, ReconcilerFacts, CreateStepOK, DeleteStepOK, CallStepRefines DEF Manager
<1>4. CASE (Oci /\ UNCHANGED otherVars) \/ UNCHANGED vars
  BY <1>4 DEF otherVars, vars
<1> QED
  BY <1>1, <1>2, <1>3, <1>4 DEF Next

\* A step of the reconciler with the manager's status named is one with some
\* status.
LEMMA NamedStep == ReconcilerStep => R!Next
  BY DEF ReconcilerStep, R!Next, R!ServiceManager

LEMMA ReconcilerInductive ==
    ASSUME RP!IInv, CallOK, WrsType, [Next]_vars
    PROVE  RP!IInv'
<1>1. [R!Next]_(R!vars)
  BY StepRefines, NamedStep, SameReconcilerVars
<1>2. [RP!Next]_(RP!vars)
  BY <1>1, SameNext, SameVars
<1> QED
  BY <1>2, StatusFits, BoundsFit, RP!IInvInductive

-----------------------------------------------------------------------------
(* The calls. *)

\* While a call runs, the reconciler keeps the object.
LEMMA KubernetesKeepsCall ==
    ASSUME Kubernetes
    PROVE  pc \in {"createOrUpdate", "delete"} => UNCHANGED pc
<1>1. CASE Users \/ R!Deliver \/ R!TimerFires
  BY <1>1 DEF Users, R!UserCreate, R!UserEditSpec, R!UserDelete, R!Deliver, R!TimerFires
<1>2. CASE R!Controller
  BY <1>2 DEF R!Controller, R!Start, R!AddFinalizer, R!FinalizerUpdateFails, R!PatchStatus,
              R!PatchDeleteStatus, R!RemoveFinalizer
<1> QED
  BY <1>1, <1>2 DEF Kubernetes

LEMMA CallInductive ==
    ASSUME RP!IInv, CallOK, WrsType, [Next]_vars
    PROVE  CallOK'
<1>n. call' = NoCall => CallOK'
  BY NoCallOK DEF CallOK, CreateSteps, DeleteSteps, PollSteps, WriteSteps
<1>k. UNCHANGED <<call, pc>> => CallOK'
  BY DEF CallOK
<1>1. CASE Kubernetes
  <2>1. UNCHANGED call
    BY <1>1 DEF Kubernetes
  <2>2. CASE call.step = "none"
    BY <2>1, <2>2 DEF CallOK, CreateSteps, DeleteSteps
  <2>3. CASE call.step # "none"
    <3>1. call.step \in CreateSteps \cup DeleteSteps
      BY <2>3 DEF CallOK, CallRecord, CallSteps, CreateSteps, DeleteSteps
    <3>2. UNCHANGED pc
      BY <1>1, <3>1, KubernetesKeepsCall DEF CallOK
    <3> QED
      BY <1>k, <2>1, <3>2
  <2> QED
    BY <2>2, <2>3
<1>2. CASE Restart
  BY <1>2, <1>n DEF Restart
<1>3. CASE Manager
  <2>1. CallStep
    BY <1>3, ReconcilerFacts, CreateStepOK, DeleteStepOK DEF Manager
  <2> QED
    BY <1>n, <2>1 DEF CallStep
<1>4. CASE (Oci /\ UNCHANGED otherVars) \/ UNCHANGED vars
  BY <1>4, <1>k DEF otherVars, vars, reconcilerVars
<1> QED
  BY <1>1, <1>2, <1>3, <1>4 DEF Next

-----------------------------------------------------------------------------
(* The specs. *)

LEMMA WrittenType ==
    ASSUME NEW n \in 1 .. MaxGen, NEW s \in Written(n)
    PROVE  /\ s \in Seq(Specs) /\ Len(s) = n /\ \A i \in 1 .. n : s[i] \in Specs
           /\ s \in SpecsWritten
<1>1. s \in SpecsWritten /\ Len(s) = n
  BY DEF Written
<1>2. PICK e \in Edits, m \in 1 .. MaxGen : s = SubSeq(e, 1, m)
  BY <1>1 DEF SpecsWritten
<1>3. e \in Seq(Specs) /\ Len(e) = MaxGen /\ MaxGen \in Nat
  BY WaaAssumption, ReconcilerBounds
<1> QED
  BY <1>1, <1>2, <1>3

\* The specs are those of the stored incarnation, and its versions in the log
\* have generations that were written.
SpecInLog ==
    /\ Len(spec) \in 1 .. MaxGen /\ spec \in SpecsWritten
    /\ Api.ex => Api.uid # 0
    /\ Api.ex /\ ~Api.del => Api.gen = Len(spec)
    /\ \A i \in 1 .. Len(log) :
          log[i].ex /\ ~log[i].del /\ log[i].uid = Api.uid => log[i].gen \in 1 .. Len(spec)

\* So has the object that the reconciler holds.
SpecHeld ==
    /\ pc = "addFinalizer" /\ fresh => obj = Api
    /\ pc = "createOrUpdate" => obj.gen \in 1 .. Len(spec)

SpecOK == SpecInLog /\ SpecHeld

LEMMA DesiredType == SpecOK /\ pc = "createOrUpdate" => Desired \in Specs
  BY WrittenType DEF SpecOK, SpecInLog, SpecHeld, Desired, Written

LEMMA LogFacts ==
    ASSUME RP!IInv
    PROVE  /\ Len(log) \in Nat /\ Len(log) >= 1 /\ log \in Seq(RP!Version)
           /\ Api \in RP!Version /\ log[1] \in RP!Version
           /\ Api.uid \in Nat /\ Api.gen \in Nat /\ Api = log[Len(log)] /\ Api = RP!Api
<1>1. RP!TypeOK
  BY DEF RP!IInv
<1>2. Api = log[Len(log)] /\ Api = RP!Api /\ RP!Cached = log[1]
  BY DEF Api, R!Api, RP!Api, RP!Cached
<1>3. Len(log) \in Nat /\ Len(log) >= 1 /\ Api \in RP!Version /\ log[1] \in RP!Version
  BY <1>1, <1>2, StatusFits, BoundsFit, RP!VersionsInLog
<1> QED
  BY <1>1, <1>2, <1>3 DEF RP!TypeOK, RP!Version

\* A new version of the stored incarnation, or of a new one.
LEMMA StoredSpec ==
    ASSUME RP!IInv, SpecInLog, NEW v \in RP!Version, R!Room, R!Store(v), v.ex, v.uid # 0,
           Len(spec') \in 1 .. MaxGen, spec' \in SpecsWritten,
           (v.uid = Api.uid /\ Len(spec) <= Len(spec')) \/ v.uid > Api.uid,
           ~v.del => v.gen = Len(spec')
    PROVE  SpecInLog' /\ (~v.del => Api' = v)
<1>1. RP!TypeOK /\ RP!LogOrdered /\ RP!Room /\ RP!Store(v)
  BY DEF RP!IInv, R!Room, RP!Room, R!Store, RP!Store, R!Gone, RP!Gone
<1>2. /\ Len(log') = Len(log) + 1 /\ \A i \in 1 .. Len(log) : log'[i] = log[i]
      /\ RP!Api' = RP!Stored(v)
  BY <1>1, StatusFits, BoundsFit, RP!StoreEffect
<1>3. Api' = RP!Stored(v) /\ Api' = log'[Len(log')]
  BY <1>2 DEF Api, R!Api, RP!Api
<1>4. /\ RP!Stored(v).uid = v.uid /\ (RP!Stored(v).ex => RP!Stored(v) = v)
      /\ ~v.del => RP!Stored(v) = v
  BY DEF RP!Stored, RP!Gone
<1>5. Len(log) \in Nat /\ Len(log) >= 1 /\ Len(spec) \in Nat /\ Len(spec') \in Nat
  BY LogFacts DEF SpecInLog
<1>6. \A i \in 1 .. Len(log) : log[i].uid \in Nat /\ log[i].uid <= Api.uid
  <2> SUFFICES ASSUME NEW i \in 1 .. Len(log)
               PROVE  log[i].uid \in Nat /\ log[i].uid <= Api.uid
    OBVIOUS
  <2>1. log \in Seq(RP!Version) /\ Api = log[Len(log)]
    BY LogFacts
  <2>2. log[i].uid \in Nat
    <3>1. log[i] \in RP!Version
      BY <2>1
    <3> QED
      BY <3>1 DEF RP!Version
  <2>3. i \in RP!Indices /\ Len(log) \in RP!Indices /\ i <= Len(log)
    BY <1>5 DEF RP!Indices
  <2> QED
    BY <1>1, <2>1, <2>2, <2>3 DEF RP!LogOrdered
<1>7. \A i \in 1 .. Len(log') :
         log'[i].ex /\ ~log'[i].del /\ log'[i].uid = v.uid => log'[i].gen \in 1 .. Len(spec')
  <2> SUFFICES ASSUME NEW i \in 1 .. Len(log'), log'[i].ex, ~log'[i].del, log'[i].uid = v.uid
               PROVE  log'[i].gen \in 1 .. Len(spec')
    OBVIOUS
  <2>1. CASE i \in 1 .. Len(log)
    <3>1. log'[i] = log[i]
      BY <1>2, <2>1
    <3>2. v.uid = Api.uid
      BY <1>6, <2>1, <3>1, LogFacts
    <3>3. Len(spec) <= Len(spec')
      BY <3>2, LogFacts
    <3>4. log[i].gen \in 1 .. Len(spec)
      BY <2>1, <3>1, <3>2 DEF SpecInLog
    <3> QED
      BY <1>5, <3>1, <3>3, <3>4
  <2>2. CASE i = Len(log')
    BY <1>3, <1>4, <1>5, <2>2
  <2> QED
    BY <1>2, <1>5, <2>1, <2>2
<1>8. Api'.ex /\ ~Api'.del => Api'.gen = Len(spec')
  BY <1>3, <1>4
<1>9. Api'.uid = v.uid
  BY <1>3, <1>4
<1> QED
  BY <1>3, <1>4, <1>7, <1>8, <1>9 DEF SpecInLog, SpecsWritten

LEMMA SameLogSpec == SpecInLog /\ UNCHANGED <<log, spec>> => SpecInLog' /\ UNCHANGED Api
  BY DEF SpecInLog, Api, R!Api, SpecsWritten

\* A version that differs from the stored one in neither generation nor
\* deletion.
LEMMA RestoredSpec ==
    ASSUME RP!IInv, SpecInLog, NEW v \in RP!Version, R!Room, R!Store(v), UNCHANGED spec,
           Api.ex, v.ex, v.uid = Api.uid, v.gen = Api.gen, v.del = Api.del
    PROVE  SpecInLog' /\ (~v.del => Api' = v)
<1>1. v.uid # 0 /\ (~v.del => v.gen = Len(spec))
  BY DEF SpecInLog
<1>2. Len(spec) \in 1 .. MaxGen /\ spec \in SpecsWritten /\ Len(spec) <= Len(spec)
  BY DEF SpecInLog
<1> QED
  BY <1>1, <1>2, StoredSpec

LEMMA PatchSpec ==
    ASSUME RP!IInv, SpecInLog, UNCHANGED spec, R!PatchApplied \/ UNCHANGED log
    PROVE  SpecInLog'
<1>1. CASE UNCHANGED log
  BY <1>1, SameLogSpec
<1>2. CASE R!PatchApplied /\ ~UNCHANGED log
  <2> DEFINE st == MergeFrom(R!Api.st, old, obj.st)
             v == [R!Api EXCEPT !.st = st]
  <2>1. R!Api = Api
    BY DEF Api
  <2>2. Api \in RP!Version /\ Api.st \in Statuses /\ old \in Statuses /\ obj.st \in Statuses
    BY LogFacts, ReconcilerFacts DEF RP!Version
  <2>3. st \in Statuses
    BY <2>1, <2>2, MergeIsStatus
  <2>4. Api.ex /\ R!Room /\ R!Store(v)
    BY <1>2, <2>1 DEF R!PatchApplied
  <2> HIDE DEF st
  <2>5. v \in RP!Version /\ v.ex = Api.ex /\ v.uid = Api.uid /\ v.gen = Api.gen /\ v.del = Api.del
    BY <2>1, <2>2, <2>3 DEF RP!Version
  <2> HIDE DEF v
  <2> QED
    BY <2>4, <2>5, RestoredSpec
<1> QED
  BY <1>1, <1>2

LEMMA SpecInductive ==
    ASSUME RP!IInv, RP!IInv', CallOK, WrsType, SpecOK, [Next]_vars
    PROVE  SpecOK'
<1>p. SpecInLog /\ SpecHeld
  BY DEF SpecOK
<1> SUFFICES SpecInLog' /\ SpecHeld'
  BY DEF SpecOK
<1>l. /\ Len(log) \in Nat /\ Len(log) >= 1 /\ log \in Seq(RP!Version)
      /\ Api \in RP!Version /\ log[1] \in RP!Version
      /\ Api.uid \in Nat /\ Api.gen \in Nat /\ Api = log[Len(log)] /\ Api = RP!Api
  BY LogFacts
<1>a. R!Api = Api /\ R!Cached = log[1]
  BY DEF Api, R!Cached
<1>g. /\ Len(spec) \in 1 .. MaxGen /\ spec \in SpecsWritten /\ Len(spec) \in Nat
      /\ MaxGen \in Nat /\ Len(spec) <= Len(spec)
  BY <1>p, ReconcilerBounds DEF SpecInLog
<1>i. pc' \notin {"addFinalizer", "createOrUpdate"} => SpecHeld'
  BY DEF SpecHeld
<1>u. UNCHANGED <<log, spec, pc, obj, fresh>> => SpecInLog' /\ SpecHeld'
  BY <1>p, SameLogSpec DEF SpecHeld
<1>o. ASSUME UNCHANGED <<pc, obj>>, fresh' = FALSE, Len(spec') \in Nat, Len(spec) <= Len(spec')
      PROVE  SpecHeld'
  BY <1>o, <1>p, <1>g DEF SpecHeld
<1>1. CASE R!UserCreate /\ spec' \in Written(1)
  <2> PICK e \in BOOLEAN :
         R!StoreByOther([ex |-> TRUE, uid |-> R!Api.uid + 1, gen |-> 1, fin |-> FALSE,
                         ext |-> e, del |-> FALSE, st |-> EmptyStatus])
    BY <1>1 DEF R!UserCreate
  <2> DEFINE v == [ex |-> TRUE, uid |-> R!Api.uid + 1, gen |-> 1, fin |-> FALSE,
                   ext |-> e, del |-> FALSE, st |-> EmptyStatus]
  <2>1. R!Room /\ R!Store(v) /\ fresh' = FALSE /\ UNCHANGED <<pc, obj>> /\ ~Api.ex
    BY <1>1, <1>a DEF R!UserCreate, R!StoreByOther
  <2>2. Api.uid + 1 \in Nat /\ Api.uid + 1 # 0 /\ Api.uid + 1 > Api.uid
    BY <1>l
  <2>3. /\ v \in RP!Version /\ v.ex /\ v.uid # 0 /\ v.uid > Api.uid /\ v.gen = 1 /\ ~v.del
    BY <1>a, <2>2, MergeIsStatus DEF RP!Version
  <2>4. 1 \in 1 .. MaxGen
    BY ReconcilerBounds
  <2>5. Len(spec') = 1 /\ spec' \in SpecsWritten
    BY <1>1, <2>4, WrittenType
  <2> HIDE DEF v
  <2>6. SpecInLog'
    BY <1>p, <2>1, <2>3, <2>4, <2>5, StoredSpec
  <2>7. pc # "createOrUpdate"
    BY <1>l, <2>1 DEF RP!IInv, RP!Safe, RP!CreateOnGuardedObject
  <2> QED
    BY <2>1, <2>6, <2>7 DEF SpecHeld
<1>2. CASE /\ R!UserEditSpec /\ ~Api.del
           /\ \E next \in Written(Len(spec) + 1) :
                 SubSeq(next, 1, Len(spec)) = spec /\ spec' = next
  <2> DEFINE v == [R!Api EXCEPT !.gen = @ + 1]
  <2>1. R!Room /\ R!Store(v) /\ fresh' = FALSE /\ Api.ex /\ Api.gen < MaxGen
    BY <1>2, <1>a DEF R!UserEditSpec, R!StoreByOther
  <2>2. Api.gen = Len(spec) /\ Api.uid # 0
    BY <1>2, <1>p, <2>1 DEF SpecInLog
  <2>3. Len(spec) + 1 \in 1 .. MaxGen
    BY <1>g, <2>1, <2>2
  <2>4. Len(spec') = Len(spec) + 1 /\ spec' \in SpecsWritten /\ Len(spec) <= Len(spec')
    BY <1>2, <1>g, <2>3, WrittenType
  <2>5. v \in RP!Version /\ v.ex /\ v.uid # 0 /\ v.uid = Api.uid /\ v.gen = Len(spec) + 1
    <3>1. Api.gen + 1 \in Nat /\ Api.gen + 1 = Len(spec) + 1
      BY <1>l, <2>2
    <3>2. v = [Api EXCEPT !.gen = Api.gen + 1]
      BY <1>a, <1>l DEF RP!Version
    <3> HIDE DEF v
    <3> QED
      BY <1>l, <2>1, <2>2, <3>1, <3>2 DEF RP!Version
  <2> HIDE DEF v
  <2>6. SpecInLog'
    BY <1>p, <1>g, <2>1, <2>3, <2>4, <2>5, StoredSpec
  <2>7. UNCHANGED <<pc, obj>>
    BY <1>2 DEF R!UserEditSpec
  <2>8. Len(spec') \in Nat /\ Len(spec) <= Len(spec')
    BY <1>g, <2>4
  <2> QED
    BY <1>o, <2>1, <2>6, <2>7, <2>8
<1>3. CASE R!UserDelete /\ UNCHANGED spec
  <2> DEFINE v == [R!Api EXCEPT !.del = TRUE, !.gen = @ + 1]
  <2>1. R!Room /\ R!Store(v) /\ fresh' = FALSE /\ Api.ex
    BY <1>3, <1>a DEF R!UserDelete, R!StoreByOther
  <2>2. Api.gen + 1 \in Nat /\ Api.uid # 0
    BY <1>l, <1>p, <2>1 DEF SpecInLog
  <2>3. v \in RP!Version /\ v.ex /\ v.uid # 0 /\ v.uid = Api.uid /\ v.del
    BY <1>a, <1>l, <2>1, <2>2 DEF RP!Version
  <2> HIDE DEF v
  <2>4. SpecInLog'
    BY <1>3, <1>p, <1>g, <2>1, <2>3, StoredSpec
  <2> QED
    BY <1>3, <1>o, <1>g, <2>1, <2>4 DEF R!UserDelete
<1>4. CASE R!Deliver /\ UNCHANGED spec
  <2>1. log' = Tail(log) /\ Len(log) > 1 /\ UNCHANGED <<pc, obj, fresh>>
    BY <1>4 DEF R!Deliver
  <2>2. /\ Len(log') = Len(log) - 1
        /\ \A i \in 1 .. Len(log) - 1 : log'[i] = log[i + 1]
    BY <1>l, <2>1
  <2>3. Api' = Api
    <3>1. Len(log) - 1 \in 1 .. Len(log) - 1 /\ Len(log) - 1 + 1 = Len(log)
      BY <1>l, <2>1
    <3>2. log'[Len(log) - 1] = log[Len(log)]
      BY <2>2, <3>1
    <3> QED
      BY <2>2, <3>2 DEF Api, R!Api
  <2>4. \A i \in 1 .. Len(log') :
           log'[i].ex /\ ~log'[i].del /\ log'[i].uid = Api.uid => log'[i].gen \in 1 .. Len(spec)
    BY <1>l, <1>p, <2>2 DEF SpecInLog
  <2>5. SpecInLog'
    BY <1>4, <1>p, <2>3, <2>4 DEF SpecInLog, SpecsWritten
  <2>6. SpecHeld'
    BY <1>4, <1>p, <2>1, <2>3 DEF SpecHeld
  <2> QED
    BY <2>5, <2>6
<1>5. CASE R!TimerFires /\ UNCHANGED spec
  BY <1>5, <1>u DEF R!TimerFires, R!apiVars
<1>6. CASE R!Start /\ UNCHANGED spec
  <2>1. UNCHANGED <<log, spec>>
    BY <1>6 DEF R!Start, R!apiVars
  <2>2. SpecInLog' /\ Api' = Api
    BY <1>p, <2>1, SameLogSpec
  <2>3. CASE UNCHANGED <<pc, obj, fresh>>
    BY <1>p, <2>1, <2>2, <2>3 DEF SpecHeld
  <2>4. CASE log[1].ex /\ fresh' = (Len(log) = 1) /\ obj' = log[1] /\ pc' = "addFinalizer"
    BY <1>l, <2>2, <2>4 DEF SpecHeld
  <2>5. CASE log[1].ex /\ ~log[1].del /\ obj' = log[1] /\ pc' = "createOrUpdate"
    <3>1. log[1].uid = Api.uid
      BY <2>2, <2>5 DEF RP!IInv, RP!Safe, RP!CreateOnGuardedObject, Api, R!Api, RP!Api
    <3>2. log[1].gen \in 1 .. Len(spec)
      BY <1>l, <1>p, <2>5, <3>1 DEF SpecInLog
    <3> QED
      BY <2>1, <2>2, <2>5, <3>2 DEF SpecHeld
  <2>6. CASE pc' = "delete"
    BY <1>i, <2>2, <2>6
  <2> QED
    BY <1>6, <1>a, <2>3, <2>4, <2>5, <2>6 DEF R!Start, R!CallCreateOrUpdate
<1>7. CASE R!AddFinalizer /\ UNCHANGED spec
  <2> DEFINE v == [obj EXCEPT !.fin = TRUE]
  <2>1. /\ R!UpdateAccepted(v) /\ R!Store(v) /\ pc' = "createOrUpdate" /\ obj' = v
        /\ pc = "addFinalizer"
    BY <1>7 DEF R!AddFinalizer, R!CallCreateOrUpdate
  <2>2. obj = Api /\ obj.ex /\ ~obj.fin
    BY <1>p, <2>1 DEF SpecHeld, R!UpdateAccepted, RP!IInv, RP!HeldInStep
  <2>3. /\ v \in RP!Version /\ v.ex /\ v.uid = Api.uid /\ v.gen = Api.gen /\ v.del = Api.del
        /\ v.fin
    BY <1>l, <2>2 DEF RP!Version
  <2> HIDE DEF v
  <2>4. R!Room /\ ~v.del
    BY <1>a, <2>1, <2>2, <2>3 DEF R!UpdateAccepted
  <2>5. SpecInLog'
    BY <1>7, <1>p, <2>1, <2>2, <2>3, <2>4, RestoredSpec
  <2>6. obj'.gen = Len(spec)
    BY <1>p, <2>1, <2>2, <2>3, <2>4 DEF SpecInLog
  <2> QED
    BY <1>7, <1>g, <2>1, <2>5, <2>6 DEF SpecHeld
<1>8. CASE R!FinalizerUpdateFails /\ UNCHANGED spec
  BY <1>8, <1>i, <1>p, SameLogSpec DEF R!FinalizerUpdateFails, R!Finish, R!apiVars
<1>9. CASE (R!PatchStatus \/ R!PatchDeleteStatus) /\ UNCHANGED spec
  <2>1. pc' = "idle" /\ (R!PatchApplied \/ UNCHANGED log)
    BY <1>9 DEF R!PatchStatus, R!PatchDeleteStatus, R!Finish
  <2> QED
    BY <1>9, <1>i, <1>p, <2>1, PatchSpec
<1>10. CASE R!RemoveFinalizer /\ UNCHANGED spec
  <2> DEFINE v == [R!Api EXCEPT !.fin = FALSE]
  <2>1. fresh /\ R!Room /\ R!Store(v) /\ pc = "removeFinalizer" /\ pc' = "idle"
    BY <1>10 DEF R!RemoveFinalizer, R!UpdateAccepted, R!Finish
  <2>2. Api.ex
    BY <1>l, <2>1 DEF RP!IInv, RP!HeldIsStored
  <2>3. v \in RP!Version /\ v.ex /\ v.uid = Api.uid /\ v.gen = Api.gen /\ v.del = Api.del
    BY <1>a, <1>l, <2>2 DEF RP!Version
  <2> HIDE DEF v
  <2> QED
    BY <1>10, <1>i, <1>p, <2>1, <2>2, <2>3, RestoredSpec
<1>11. CASE Restart
  <2>1. log' = <<Api>> /\ pc' = "idle" /\ UNCHANGED spec
    BY <1>11, <1>a DEF Restart, R!Restart
  <2>2. Len(log') = 1 /\ log'[1] = Api /\ Api' = Api
    BY <2>1 DEF Api, R!Api
  <2>3. Api.ex /\ ~Api.del => Api.gen \in 1 .. Len(spec)
    BY <1>l, <1>p DEF SpecInLog
  <2>4. SpecInLog'
    BY <1>p, <2>1, <2>2, <2>3 DEF SpecInLog, SpecsWritten
  <2> QED
    BY <1>i, <2>1, <2>4
<1>12. CASE Manager
  <2>1. CallStep /\ UNCHANGED spec
    BY <1>12, ReconcilerFacts, CreateStepOK, DeleteStepOK DEF Manager
  <2>2. CASE UNCHANGED reconcilerVars
    BY <1>u, <2>1, <2>2 DEF reconcilerVars
  <2>3. CASE UNCHANGED log /\ pc' \notin {"addFinalizer", "createOrUpdate"}
    BY <1>i, <1>p, <2>1, <2>3, SameLogSpec
  <2> QED
    BY <2>1, <2>2, <2>3
       DEF CallStep, R!CreateOrUpdateReturns, R!DeleteReturns, R!Finish, R!apiVars
<1>13. CASE (Oci /\ UNCHANGED otherVars) \/ UNCHANGED vars
  BY <1>13, <1>u DEF otherVars, vars, reconcilerVars
<1>14. CASE Kubernetes
  BY <1>14, <1>1, <1>2, <1>3, <1>4, <1>5, <1>6, <1>7, <1>8, <1>9, <1>10
     DEF Kubernetes, Users, R!Controller
<1> QED
  BY <1>11, <1>12, <1>13, <1>14 DEF Next

-----------------------------------------------------------------------------
(* The service: resources and work requests. *)

LEMMA TroubleType ==
    (Trouble \/ NoTrouble) /\ troubles \in 0 .. MaxTroubles => troubles' \in 0 .. MaxTroubles
<1>1. MaxTroubles \in Nat
  BY WaaAssumption
<1> QED
  BY <1>1 DEF Trouble, NoTrouble

\* Nothing runs on a resource that is gone, and an incarnation has one
\* resource at a time.
GoneIdle == \A i \in OCIDs : ~Remaining(i) => res[i].op = ""

Owners == GoneIdle /\ NoDuplicate

\* A step that gives no resource another owner and brings none back.
LEMMA OwnersKept ==
    ASSUME Owners,
           \A i \in OCIDs : /\ res'[i].own = res[i].own
                            /\ Remaining(i)' => Remaining(i)
                            /\ ~Remaining(i)' => res'[i].op = ""
    PROVE  Owners'
<1>1. GoneIdle'
  BY DEF GoneIdle
<1>2. NoDuplicate'
  BY DEF Owners, NoDuplicate
<1> QED
  BY <1>1, <1>2 DEF Owners

LEMMA OciUnchanged ==
    ResType /\ WrsType /\ Owners /\ UNCHANGED ociVars => ResType' /\ WrsType' /\ Owners'
  BY DEF ociVars, ResType, WrsType, Owners, GoneIdle, NoDuplicate, Remaining

LEMMA OpenType ==
    ASSUME WrsType, NEW op \in Operations, NEW i \in OCIDs, NEW w, OpenWorkRequest(op, i, w)
    PROVE  WrsType'
<1> DEFINE opened == [op |-> op, res |-> i, status |-> "IN_PROGRESS"]
<1>1. opened \in [op : Operations \cup {""}, res : OCIDs \cup {0},
                  status : {"", "IN_PROGRESS", "SUCCEEDED", "FAILED", "GONE"}]
  OBVIOUS
<1>2. UNCHANGED wrs \/ wrs' = [wrs EXCEPT ![w] = opened]
  BY DEF OpenWorkRequest
<1> HIDE DEF opened
<1> QED
  BY <1>1, <1>2 DEF WrsType

\* Create with a retry token makes a resource only if the incarnation has none.
LEMMA CreateAcceptedKeeps ==
    ASSUME ResType, WrsType, Owners, NEW own \in Nat \ {0}, NEW gen \in Nat,
           spec[gen] \in Specs, NEW i \in OCIDs, NEW w, CreateAccepted(own, own, gen, i, w)
    PROVE  ResType' /\ WrsType' /\ Owners'
<1>1. CASE UNCHANGED ociVars
  BY <1>1, OciUnchanged
<1>2. ASSUME CreatedWith(own) = {}, NEW state \in {"ACCEPTED", "CREATING"},
             res' = [res EXCEPT ![i] = [own |-> own, gen |-> gen, op |-> "create",
                                        spec |-> spec[gen], want |-> spec[gen],
                                        state |-> state]],
             OpenWorkRequest("create", i, w)
      PROVE  ResType' /\ WrsType' /\ Owners'
  <2>1. "create" \in Operations /\ state \in LifecycleStates \cup {"NONE", "ACCEPTED"}
    BY DEF Operations, LifecycleStates
  <2>2. ResType'
    BY <1>2, <2>1 DEF ResType
  <2>3. WrsType'
    BY <1>2, <2>1, OpenType
  <2>4. /\ res'[i].own = own /\ res'[i].state \notin {"NONE", "DELETED"}
        /\ \A j \in OCIDs : j # i => res'[j] = res[j]
    BY <1>2 DEF ResType
  <2>5. \A j \in OCIDs : Remaining(j) => res[j].own # own
    BY <1>2 DEF CreatedWith
  <2>6. GoneIdle'
    BY <2>4 DEF Owners, GoneIdle, Remaining
  <2>7. NoDuplicate'
    BY <2>4, <2>5 DEF Owners, NoDuplicate, Remaining
  <2> QED
    BY <2>2, <2>3, <2>6, <2>7 DEF Owners
<1> QED
  BY <1>1, <1>2 DEF CreateAccepted

LEMMA WriteAcceptedKeeps ==
    ASSUME ResType, WrsType, Owners, NEW op \in Operations, NEW i \in OCIDs,
           NEW want \in Specs, NEW w, WriteAccepted(op, i, want, w)
    PROVE  ResType' /\ WrsType' /\ Owners'
<1> DEFINE r == [res[i] EXCEPT !.op = op, !.want = want]
<1>1. /\ res[i].state \in {"ACTIVE", "FAILED"} /\ OpenWorkRequest(op, i, w)
      /\ res' = [res EXCEPT ![i] = r]
  BY DEF WriteAccepted, ResType
<1>2. /\ r \in [own : Nat, gen : Nat, spec : Specs, want : Specs,
                op : Operations \cup {""}, state : LifecycleStates \cup {"NONE", "ACCEPTED"}]
      /\ r.own = res[i].own /\ r.state = res[i].state
  BY DEF ResType
<1> HIDE DEF r
<1>3. ResType'
  BY <1>1, <1>2 DEF ResType
<1>4. WrsType'
  BY <1>1, OpenType
<1>5. res'[i] = r /\ \A j \in OCIDs : j # i => res'[j] = res[j]
  BY <1>1 DEF ResType
<1>6. ASSUME NEW j \in OCIDs
      PROVE  /\ res'[j].own = res[j].own
             /\ Remaining(j)' => Remaining(j)
             /\ ~Remaining(j)' => res'[j].op = ""
  BY <1>1, <1>2, <1>5 DEF Remaining, Owners, GoneIdle
<1> QED
  BY <1>3, <1>4, <1>6, OwnersKept

\* What the service does.
LEMMA OciKeeps ==
    ASSUME ResType, WrsType, Owners, Oci
    PROVE  ResType' /\ WrsType' /\ Owners'
<1> DEFINE Record == [own : Nat, gen : Nat, spec : Specs, want : Specs,
                      op : Operations \cup {""},
                      state : LifecycleStates \cup {"NONE", "ACCEPTED"}]
<1>r. \A i \in OCIDs : res[i] \in Record
  BY DEF ResType
<1>e. ASSUME NEW i \in OCIDs, NEW status \in {"SUCCEEDED", "FAILED"}, WorkRequestEnds(i, status)
      PROVE  WrsType'
  BY <1>e DEF WorkRequestEnds, WrsType
\* One resource changes, and keeps its owner.
<1>k. ASSUME NEW i \in OCIDs, NEW r \in Record, res' = [res EXCEPT ![i] = r],
             r.own = res[i].own, Remaining(i),
             r.state \in {"NONE", "DELETED"} => r.op = ""
      PROVE  ResType' /\ Owners'
  <2>1. ResType'
    BY <1>k DEF ResType
  <2>2. res'[i] = r /\ \A j \in OCIDs : j # i => res'[j] = res[j]
    BY <1>k DEF ResType
  <2>3. ASSUME NEW j \in OCIDs
        PROVE  /\ res'[j].own = res[j].own
               /\ Remaining(j)' => Remaining(j)
               /\ ~Remaining(j)' => res'[j].op = ""
    BY <1>k, <2>2 DEF Remaining, Owners, GoneIdle
  <2> QED
    BY <2>1, <2>3, OwnersKept
<1>l. {"CREATING", "UPDATING", "DELETING", "ACTIVE", "FAILED", "DELETED", "NONE"}
        \subseteq LifecycleStates \cup {"NONE", "ACCEPTED"}
  BY DEF LifecycleStates
<1>g. \A i \in OCIDs : res[i].op # "" => Remaining(i)
  BY DEF Owners, GoneIdle
<1>1. CASE OperationShows
  <2>1. PICK i \in OCIDs :
          \/ res[i].state = "ACCEPTED" /\ res' = [res EXCEPT ![i].state = "CREATING"]
          \/ /\ res[i].op \in {"update", "move", "delete"}
             /\ res' = [res EXCEPT ![i].state = Busy(res[i].op)]
    BY <1>1 DEF OperationShows
  <2>2. PICK state \in {"CREATING", "UPDATING", "DELETING"} :
          res' = [res EXCEPT ![i] = [res[i] EXCEPT !.state = state]]
    BY <2>1 DEF Busy, ResType
  <2>3. Remaining(i)
    BY <1>g, <2>1 DEF Remaining
  <2> DEFINE r == [res[i] EXCEPT !.state = state]
  <2>4. r \in Record /\ r.own = res[i].own /\ r.state = state
    BY <1>r, <1>l
  <2> HIDE DEF r, Record
  <2>5. ResType' /\ Owners'
    BY <1>k, <2>2, <2>3, <2>4 DEF r
  <2>6. WrsType'
    BY <1>1 DEF OperationShows, WrsType
  <2> QED
    BY <2>5, <2>6
<1>2. CASE OperationSucceeds
  <2>1. PICK i \in OCIDs :
          /\ \/ /\ res[i].op = "delete" /\ res[i].state = "DELETING"
                /\ \E to \in {"DELETED", "NONE"} :
                      res' = [res EXCEPT ![i].state = to, ![i].op = ""]
             \/ /\ res[i].op # "delete" /\ res[i].state \in {"CREATING", "UPDATING"}
                /\ res' = [res EXCEPT ![i].state = "ACTIVE", ![i].op = "",
                                      ![i].spec = res[i].want]
          /\ WorkRequestEnds(i, "SUCCEEDED")
    BY <1>2 DEF OperationSucceeds
  <2>2. PICK to \in {"DELETED", "NONE", "ACTIVE"}, sp \in Specs :
          res' = [res EXCEPT ![i] = [res[i] EXCEPT !.state = to, !.op = "", !.spec = sp]]
    <3>1. CASE \E to \in {"DELETED", "NONE"} : res' = [res EXCEPT ![i].state = to, ![i].op = ""]
      <4>1. PICK to \in {"DELETED", "NONE"} : res' = [res EXCEPT ![i].state = to, ![i].op = ""]
        BY <3>1
      <4>2. res[i].spec \in Specs
        BY <1>r
      <4>3. [res[i] EXCEPT !.state = to, !.op = ""] =
            [res[i] EXCEPT !.state = to, !.op = "", !.spec = res[i].spec]
        BY <1>r
      <4>4. res' = [res EXCEPT ![i] = [res[i] EXCEPT !.state = to, !.op = ""]]
        BY <4>1 DEF ResType
      <4> QED
        BY <4>2, <4>3, <4>4
    <3>2. CASE res' = [res EXCEPT ![i].state = "ACTIVE", ![i].op = "", ![i].spec = res[i].want]
      <4>1. res[i].want \in Specs
        BY <1>r
      <4> QED
        BY <3>2, <4>1 DEF ResType
    <3> QED
      BY <2>1, <3>1, <3>2
  <2>3. Remaining(i)
    BY <2>1 DEF Remaining
  <2> DEFINE r == [res[i] EXCEPT !.state = to, !.op = "", !.spec = sp]
  <2>4. r \in Record /\ r.own = res[i].own /\ r.op = ""
    BY <1>r, <1>l
  <2> HIDE DEF r, Record
  <2>5. ResType' /\ Owners'
    BY <1>k, <2>2, <2>3, <2>4 DEF r
  <2> QED
    BY <1>e, <2>1, <2>5
<1>3. CASE OperationFails
  <2>1. PICK i \in OCIDs :
          /\ res[i].op # ""
          /\ res' = [res EXCEPT ![i].op = "", ![i].want = res[i].spec,
                       ![i].state = IF res[i].op = "create" THEN "FAILED" ELSE "ACTIVE"]
          /\ WorkRequestEnds(i, "FAILED")
    BY <1>3 DEF OperationFails
  <2>2. PICK to \in {"FAILED", "ACTIVE"} :
          res' = [res EXCEPT ![i] = [res[i] EXCEPT !.op = "", !.want = res[i].spec, !.state = to]]
    BY <2>1 DEF ResType
  <2>3. Remaining(i)
    BY <1>g, <2>1
  <2> DEFINE r == [res[i] EXCEPT !.op = "", !.want = res[i].spec, !.state = to]
  <2>4. r \in Record /\ r.own = res[i].own /\ r.op = ""
    BY <1>r, <1>l
  <2> HIDE DEF r, Record
  <2>5. ResType' /\ Owners'
    BY <1>k, <2>2, <2>3, <2>4 DEF r
  <2> QED
    BY <1>e, <2>1, <2>5
<1>4. CASE WorkRequestSucceedsEarly \/ WorkRequestVanishes
  <2>1. ResType' /\ Owners'
    BY <1>4 DEF WorkRequestSucceedsEarly, WorkRequestVanishes, ResType, Owners, GoneIdle,
                NoDuplicate, Remaining
  <2>2. WrsType'
    BY <1>4 DEF WorkRequestSucceedsEarly, WorkRequestVanishes, WrsType
  <2> QED
    BY <2>1, <2>2
<1> QED
  BY <1>1, <1>2, <1>3, <1>4 DEF Oci

\* What a call does to the service.
LEMMA CallKeeps ==
    ASSUME RP!IInv, CallOK, SpecOK, ResType, WrsType, Owners, CreateOrUpdate \/ DeleteStep
    PROVE  ResType' /\ WrsType' /\ Owners'
<1>u. UNCHANGED ociVars => ResType' /\ WrsType' /\ Owners'
  BY OciUnchanged
<1>c. /\ call.step \in CreateSteps => pc = "createOrUpdate"
      /\ call.step \in WriteSteps => call.id \in OCIDs
  BY CallFacts
<1>d. pc = "createOrUpdate" => Desired \in Specs
  BY DesiredType
<1>s. call.id \in OCIDs => res[call.id].spec \in Specs
  BY DEF ResType
<1>o. {"update", "move", "delete"} \subseteq Operations
  BY DEF Operations
<1>1. CASE Create
  <2>1. pc = "createOrUpdate"
    BY <1>1, <1>c DEF Create, At, CreateSteps
  <2>2. obj.uid \in Nat \ {0} /\ obj.gen \in Nat
    <3>1. obj.uid \in Nat /\ obj.gen \in Nat
      BY ReconcilerFacts
    <3>2. Api.ex /\ Api.uid = obj.uid
      BY <2>1, LogFacts DEF RP!IInv, RP!Safe, RP!CreateOnGuardedObject
    <3> QED
      BY <3>1, <3>2 DEF SpecOK, SpecInLog
  <2>3. spec[obj.gen] \in Specs
    BY <1>d, <2>1 DEF Desired
  <2>4. \/ UNCHANGED ociVars
        \/ \E i \in OCIDs, w \in WorkRequestIDs \cup {0} :
              CreateAccepted(obj.uid, obj.uid, obj.gen, i, w)
    BY <1>1 DEF Create, RetryToken
  <2> QED
    BY <1>u, <2>2, <2>3, <2>4, CreateAcceptedKeeps
<1>2. CASE MoveCompartment
  <2>1. pc = "createOrUpdate" /\ call.id \in OCIDs
    BY <1>2, <1>c DEF MoveCompartment, At, CreateSteps, WriteSteps
  <2>2. [res[call.id].spec EXCEPT !.comp = Desired.comp] \in Specs
    BY <1>d, <1>s, <2>1 DEF Specs
  <2> QED
    BY <1>2, <1>o, <1>u, <2>1, <2>2, WriteAcceptedKeeps DEF MoveCompartment, CallWrite
<1>3. CASE Update
  <2>1. pc = "createOrUpdate" /\ call.id \in OCIDs
    BY <1>3, <1>c DEF Update, At, CreateSteps, WriteSteps
  <2>2. [res[call.id].spec EXCEPT !.body = Desired.body] \in Specs
    BY <1>d, <1>s, <2>1 DEF Specs
  <2> QED
    BY <1>3, <1>o, <1>u, <2>1, <2>2, WriteAcceptedKeeps DEF Update, CallWrite
<1>4. CASE RequestDelete
  <2>1. call.id \in OCIDs
    BY <1>4, <1>c DEF RequestDelete, At, WriteSteps
  <2> QED
    BY <1>4, <1>o, <1>s, <1>u, <2>1, WriteAcceptedKeeps DEF RequestDelete
<1> QED
  BY <1>1, <1>2, <1>3, <1>4, <1>u
     DEF CreateOrUpdate, ReadCurrent, FindExisting, ReadAfterCreate, ReadAfterMove,
         ReadAfterUpdate, PollPendingWorkRequest, DeleteStep, Delete, GuardPoll,
         GuardLifecycle, GuardSucceeded, PreRead, ConfirmDeleted, PollDelete, ConfirmSucceeded

LEMMA CallTroubles ==
    ASSUME CreateOrUpdate \/ DeleteStep
    PROVE  Trouble \/ NoTrouble
  BY DEF CreateOrUpdate, ReadCurrent, FindExisting, Create, ReadAfterCreate, MoveCompartment,
         ReadAfterMove, Update, ReadAfterUpdate, CallWrite, PollPendingWorkRequest,
         DeleteStep, Delete, GuardPoll, GuardLifecycle, GuardSucceeded, PreRead, RequestDelete,
         ConfirmDeleted, PollDelete, ConfirmSucceeded, PollEndsDelete, PollFails,
         PollGives404, PollShows

-----------------------------------------------------------------------------
(* The inductive invariant. *)

StateOK == ResType /\ WrsType /\ Owners /\ troubles \in 0 .. MaxTroubles

AInv == RP!IInv /\ CallOK /\ SpecOK /\ StateOK

LEMMA StateInductive ==
    ASSUME RP!IInv, CallOK, SpecOK, StateOK, [Next]_vars
    PROVE  StateOK'
<1>t. ResType /\ WrsType /\ Owners /\ troubles \in 0 .. MaxTroubles
  BY DEF StateOK
<1>q. ResType' /\ WrsType' /\ Owners' /\ (Trouble \/ NoTrouble) => StateOK'
  BY <1>t, TroubleType DEF StateOK
<1>u. UNCHANGED ociVars => ResType' /\ WrsType' /\ Owners'
  BY <1>t, OciUnchanged
<1>1. CASE Kubernetes
  BY <1>1, <1>q, <1>u DEF Kubernetes, ociVars
<1>2. CASE Restart
  BY <1>2, <1>q, <1>u DEF Restart, ociVars
<1>3. CASE Manager
  BY <1>3, <1>q, <1>t, CallKeeps, CallTroubles DEF Manager
<1>4. CASE Oci /\ UNCHANGED otherVars
  <2>1. Trouble \/ NoTrouble
    BY <1>4 DEF Oci, OperationFails, WorkRequestVanishes
  <2> QED
    BY <1>4, <1>q, <1>t, <2>1, OciKeeps
<1>5. CASE UNCHANGED vars
  BY <1>5, <1>q, <1>u DEF vars, NoTrouble
<1> QED
  BY <1>1, <1>2, <1>3, <1>4, <1>5 DEF Next

LEMMA InitAInv == Init => AInv
<1> SUFFICES ASSUME Init PROVE AInv
  OBVIOUS
<1>1. RP!IInv
  BY SameInit, StatusFits, BoundsFit, RP!InitInv DEF Init
<1>2. CallOK
  BY NoCallOK DEF Init, CallOK, CreateSteps, DeleteSteps, PollSteps, WriteSteps
<1>3. 1 \in 1 .. MaxGen /\ spec \in Written(1)
  <2>1. 1 \in 1 .. MaxGen
    BY ReconcilerBounds
  <2>2. spec \in Written(1)
    BY Zenon DEF Init
  <2> QED
    BY <2>1, <2>2
<1>4. Len(spec) = 1 /\ spec[1] \in Specs /\ spec \in SpecsWritten
  <2>1. Len(spec) = 1 /\ (\A i \in 1 .. 1 : spec[i] \in Specs) /\ spec \in SpecsWritten
    BY <1>3, WrittenType
  <2> QED
    BY <2>1
<1>5. SpecOK
  <2>1. log = <<R!Gone(0)>> /\ pc = "idle"
    BY DEF Init, R!Init
  <2>2. Len(log) = 1 /\ log[1] = R!Gone(0) /\ Api = R!Gone(0) /\ ~R!Gone(0).ex
    BY <2>1 DEF Api, R!Api, R!Gone
  <2>3. SpecInLog
    BY <1>3, <1>4, <2>2 DEF SpecInLog
  <2>4. SpecHeld
    BY <2>1 DEF SpecHeld
  <2> QED
    BY <2>3, <2>4 DEF SpecOK
<1>6. StateOK
  <2>1. ResType
    BY <1>4 DEF Init, ResType
  <2>2. WrsType
    BY DEF Init, WrsType
  <2>3. Owners
    <3>1. \A i \in OCIDs : res[i].state = "NONE" /\ res[i].op = ""
      BY DEF Init
    <3> QED
      BY <3>1 DEF Owners, GoneIdle, NoDuplicate, Remaining
  <2>4. troubles \in 0 .. MaxTroubles
    <3>1. 0 \in 0 .. MaxTroubles
      BY WaaAssumption
    <3> QED
      BY <3>1 DEF Init
  <2> QED
    BY <2>1, <2>2, <2>3, <2>4 DEF StateOK
<1> QED
  BY <1>1, <1>2, <1>5, <1>6 DEF AInv

LEMMA AInvInductive == AInv /\ [Next]_vars => AInv'
<1> SUFFICES ASSUME AInv, [Next]_vars PROVE AInv'
  OBVIOUS
<1>1. RP!IInv /\ CallOK /\ SpecOK /\ StateOK /\ WrsType
  BY DEF AInv, StateOK
<1>2. RP!IInv'
  BY <1>1, ReconcilerInductive
<1>3. CallOK'
  BY <1>1, CallInductive
<1>4. SpecOK'
  BY <1>1, <1>2, SpecInductive
<1>5. StateOK'
  BY <1>1, StateInductive
<1> QED
  BY <1>2, <1>3, <1>4, <1>5 DEF AInv

LEMMA AInvInvariant == Spec => []AInv
  BY InitAInv, AInvInductive, PTL DEF Spec

-----------------------------------------------------------------------------
(* The theorems. *)

\* Every variable of the client, of the service and of the reconciler stays
\* within its type, however writes, polls and restarts interleave.
THEOREM AccelerationTypeCorrect == Spec => []TypeOK
<1>1. AInv => TypeOK
  <2> SUFFICES ASSUME AInv PROVE TypeOK
    OBVIOUS
  <2>1. R!TypeOK
    BY SameType DEF AInv, RP!IInv
  <2>2. spec \in SpecsWritten
    BY DEF AInv, SpecOK, SpecInLog
  <2>3. ResType /\ WrsType /\ troubles \in 0 .. MaxTroubles /\ call \in CallRecord
    BY DEF AInv, StateOK, CallOK
  <2> QED
    BY <2>1, <2>2, <2>3 DEF ResType, WrsType, CallRecord, TypeOK
<1> QED
  BY <1>1, AInvInvariant, PTL

\* No incarnation has two resources at a time, however many incarnations,
\* edits, lost answers and restarts there are: the retry token is the UID
\* (webAppAccelerationCreateRequest).
THEOREM NoDuplicateAcceleration == Spec => []NoDuplicate
<1>1. AInv => NoDuplicate
  BY DEF AInv, StateOK, Owners
<1> QED
  BY <1>1, AInvInvariant, PTL

\* The client is a service manager: each of its steps, one per OCI call, is one
\* that the reconciler allows every manager, or invisible to the reconciler.
THEOREM AccelerationRefinesReconciler == Spec => ImplementsReconciler
<1>1. Init => R!Init
  BY DEF Init
<1>2. AInv /\ [Next]_vars => [ReconcilerStep]_reconcilerVars
  BY StepRefines DEF AInv, StateOK
<1> QED
  BY <1>1, <1>2, AInvInvariant, PTL DEF Spec, ImplementsReconciler

\* What holds of the reconciler with every service manager holds with this
\* client: the finalizer stays, CreateOrUpdate runs on the guarded object
\* only, and no wake-up is lost.
THEOREM AccelerationKeepsReconcilerSafe ==
    Spec => [](R!FinalizerRetention /\ R!CreateOnGuardedObject /\ R!NoLostWakeup)
<1>1. R!Init => RP!Init
  BY SameInit
<1>2. [ReconcilerStep]_reconcilerVars => [RP!Next]_(RP!vars)
  BY NamedStep, SameReconcilerVars, SameNext, SameVars
<1>3. ImplementsReconciler => RP!Spec
  BY <1>1, <1>2, PTL DEF ImplementsReconciler, RP!Spec
<1>4. RP!Spec => [](RP!FinalizerRetention /\ RP!CreateOnGuardedObject /\ RP!NoLostWakeup)
  BY RP!FinalizerIsRetained, RP!CreateIsGuarded, RP!NoWakeupIsLost, StatusFits, BoundsFit, PTL
<1>5. RP!FinalizerRetention /\ RP!CreateOnGuardedObject /\ RP!NoLostWakeup
      => R!FinalizerRetention /\ R!CreateOnGuardedObject /\ R!NoLostWakeup
  BY Zenon DEF R!FinalizerRetention, R!CreateOnGuardedObject, R!NoLostWakeup,
               R!WakeupPending, R!ReconcilePredicate, R!Api,
               RP!FinalizerRetention, RP!CreateOnGuardedObject, RP!NoLostWakeup,
               RP!WakeupPending, RP!ReconcilePredicate, RP!Api
<1> QED
  BY <1>3, <1>4, <1>5, AccelerationRefinesReconciler, PTL
=============================================================================
