--------------------------- MODULE OperatorProofs ---------------------------
(***************************************************************************)
(* Proofs about Operator, for every kind of OCI service (with and without  *)
(* work requests, hiding, failing, vanishing) and every value of the       *)
(* bounds: its types, that it implements Reconciler, and that the retry    *)
(* token keeps it from creating a resource twice.  Then, for one           *)
(* incarnation of the name, that no resource is left behind by a service   *)
(* whose reads are current, and that Active means applied with a service   *)
(* that has no work requests.                                              *)
(***************************************************************************)
EXTENDS Operator, AsyncStatusProofs

RP == INSTANCE ReconcilerProofs WITH
        Status <- OSOKStatus, EmptyStatus <- NoStatus, MergePatch <- MergeFrom,
        ZeroDuration <- FALSE

\* The assumptions under which the theorems about Reconciler were proved.
LEMMA StatusFits == RP!StatusAssumption
  BY MergeFromIsStatus DEF RP!StatusAssumption

LEMMA BoundsFit == RP!BoundsAssumption
  BY ReconcilerBounds DEF RP!BoundsAssumption

\* The two instances of Reconciler, the one of Operator and the one
\* that comes with the theorems, are the same.
LEMMA SameInit == R!Init <=> RP!Init
  BY Zenon DEF R!Init, R!Gone, R!NoResponse, RP!Init, RP!Gone, RP!NoResponse

LEMMA SameVars == R!vars = RP!vars /\ R!vars' = RP!vars'
  BY Zenon DEF R!vars, R!apiVars, R!ctrlVars, R!histVars,
               RP!vars, RP!apiVars, RP!ctrlVars, RP!histVars

LEMMA SameNext == R!Next <=> RP!Next
  BY Zenon DEF
    R!Next, R!Environment, R!Controller, R!ServiceManager, R!UserCreate, R!UserEditSpec,
    R!UserDelete, R!OtherFinalizerRemoved, R!StoreByOther, R!Store, R!Gone, R!Api, R!Cached,
    R!Room, R!Deliver, R!ReconcilePredicate, R!TimerFires, R!Restart, R!NoResponse, R!Start,
    R!CallCreateOrUpdate, R!Finish, R!UpdateAccepted, R!AddFinalizer, R!FinalizerUpdateFails,
    R!CreateOrUpdateReturns, R!PatchApplied, R!RequeueOf, R!PatchStatus, R!DeleteReturns,
    R!DeleteResourceResult, R!DeleteOutcomes, R!PatchDeleteStatus, R!RemoveFinalizer,
    R!Responses, R!AnyResponses, R!apiVars, R!histVars,
    RP!Next, RP!Environment, RP!Controller, RP!ServiceManager, RP!UserCreate,
    RP!UserEditSpec, RP!UserDelete, RP!OtherFinalizerRemoved, RP!StoreByOther, RP!Store,
    RP!Gone, RP!Api, RP!Cached, RP!Room, RP!Deliver, RP!ReconcilePredicate, RP!TimerFires,
    RP!Restart, RP!NoResponse, RP!Start, RP!CallCreateOrUpdate, RP!Finish,
    RP!UpdateAccepted, RP!AddFinalizer, RP!FinalizerUpdateFails, RP!CreateOrUpdateReturns,
    RP!PatchApplied, RP!RequeueOf, RP!PatchStatus, RP!DeleteReturns,
    RP!DeleteResourceResult, RP!DeleteOutcomes, RP!PatchDeleteStatus, RP!RemoveFinalizer,
    RP!Responses, RP!AnyResponses, RP!apiVars, RP!histVars

LEMMA SameType == (R!TypeOK <=> RP!TypeOK) /\ (R!TypeOK' <=> RP!TypeOK')
  BY Zenon DEF R!TypeOK, R!Version, R!Steps, R!Responses,
               RP!TypeOK, RP!Version, RP!Steps, RP!Responses

-----------------------------------------------------------------------------
(* The calls of the generated runtime. *)

CallRecord == [step : CallSteps, uid : Nat, gen : Nat, phase : Phases \cup {""},
               st : OSOKStatus, id : OCIDs \cup {0}, out : DeleteResults \cup {""}]

Polling == {"pollWrite", "readWrite", "pollDelete"}

\* A call that polls has a work request to poll, and one that returns from
\* Delete has a result.
CallOK ==
    /\ call \in CallRecord
    /\ call.step \in Polling => ResolveTrackedWorkRequest(call.st) \in WorkRequestIDs
    /\ call.step = "deleted" => call.out \in DeleteResults

\* A work request that was opened has a status for ever.
StatusKept == \A w \in WorkRequestIDs : wrs[w].phase # "" => wrs[w].status # ""

OInv == R!TypeOK /\ OciTypeOK /\ faults \in 0 .. MaxFaults /\ CallOK /\ StatusKept

LEMMA NoCallOK == NoCall \in CallRecord /\ NoCall.step = "none"
  BY MergeFromIsStatus DEF NoCall, CallRecord, CallSteps

LEMMA GoToOK ==
    ASSUME CallOK, NEW s \in CallSteps \ {"deleted"}, NEW st \in OSOKStatus,
           NEW id \in OCIDs \cup {0}, GoTo(s, st, id),
           s \in Polling => ResolveTrackedWorkRequest(st) \in WorkRequestIDs
    PROVE  CallOK'
<1>1. call \in CallRecord
  BY DEF CallOK
<1>2. call' \in CallRecord /\ call'.step = s /\ call'.st = st
  BY <1>1 DEF GoTo, CallRecord
<1> QED
  BY <1>2 DEF CallOK

LEMMA WrittenOK ==
    ASSUME CallOK, NEW st \in OSOKStatus, Written(st)
    PROVE  CallOK'
  BY GoToOK DEF Written, CallSteps, Polling

LEMMA FailOK == CallOK /\ Fail => CallOK'
<1> SUFFICES ASSUME CallOK, Fail PROVE CallOK'
  OBVIOUS
<1>1. call.st \in OSOKStatus
  BY DEF CallOK, CallRecord
<1> QED
  BY <1>1, MarkType, WrittenOK DEF Fail

LEMMA DeletedOK ==
    ASSUME CallOK, NEW st \in OSOKStatus, NEW out \in DeleteResults, Deleted(st, out)
    PROVE  CallOK'
<1>1. call \in CallRecord
  BY DEF CallOK
<1>2. call' \in CallRecord /\ call'.step = "deleted" /\ call'.out = out
  BY <1>1 DEF Deleted, CallRecord, CallSteps
<1> QED
  BY <1>2 DEF CallOK, Polling

\* Reads find resources, not nothing in particular.
LEMMA MatchesType ==
    /\ \A phase : ListMatches(phase) \subseteq OCIDs
    /\ \A phase : \A id \in OCIDs \cup {0} : Matches(phase, id) \subseteq OCIDs
    /\ \A id \in OCIDs \cup {0} : Readable(id) => id \in OCIDs
<1>1. \A phase : ListMatches(phase) \subseteq OCIDs
  BY DEF ListMatches
<1>2. \A id \in OCIDs \cup {0} : Readable(id) => id \in OCIDs
  BY DEF Readable
<1> QED
  BY <1>1, <1>2 DEF Matches

LEMMA OpenType ==
    ASSUME OciTypeOK, StatusKept, NEW phase \in Phases, NEW i \in OCIDs \cup {0}, NEW w,
           OpenWorkRequest(phase, i, w)
    PROVE  /\ wrs' \in [WorkRequestIDs ->
                        [phase : Phases \cup {""}, res : OCIDs \cup {0},
                         status : {"", "IN_PROGRESS", "SUCCEEDED", "FAILED", "UNKNOWN"}]]
           /\ StatusKept'
           /\ phase \in WorkRequests => w \in WorkRequestIDs
<1>1. CASE phase \in WorkRequests
  <2>1. /\ w \in WorkRequestIDs
        /\ wrs' = [wrs EXCEPT ![w] = [phase |-> phase, res |-> i, status |-> "IN_PROGRESS"]]
    BY <1>1 DEF OpenWorkRequest, NextFree
  <2> QED
    BY <2>1 DEF OciTypeOK, StatusKept
<1>2. CASE phase \notin WorkRequests
  BY <1>2 DEF OpenWorkRequest, OciTypeOK, StatusKept
<1> QED
  BY <1>1, <1>2

LEMMA FaultType ==
    (Fault \/ NoFault) /\ faults \in 0 .. MaxFaults => faults' \in 0 .. MaxFaults
  BY FaultsAssumption DEF Fault, NoFault

LEMMA OciUnchanged == OciTypeOK /\ StatusKept /\ NoEffect => OciTypeOK' /\ StatusKept'
  BY DEF NoEffect, ociVars, OciTypeOK, StatusKept

\* What OCI does when it accepts a call keeps its types.
LEMMA CreateAcceptedType ==
    ASSUME OciTypeOK, StatusKept, NEW own \in Nat, NEW tok \in Nat, NEW gen \in Nat,
           NEW i \in OCIDs, NEW w \in WorkRequestIDs \cup {0},
           CreateAccepted(own, tok, gen, i, w)
    PROVE  OciTypeOK' /\ StatusKept' /\ ("create" \in WorkRequests => w \in WorkRequestIDs)
<1>1. CASE UNCHANGED ociVars /\ ("create" \in WorkRequests => w # 0)
  BY <1>1, OciUnchanged DEF NoEffect
<1>2. CASE /\ res' = [res EXCEPT ![i] = [own |-> own, tok |-> tok, gen |-> gen, state |->
                                        IF HidesNew THEN "ACCEPTED" ELSE "CREATING"]]
           /\ OpenWorkRequest("create", i, w)
  <2>1. "create" \in Phases
    BY DEF Phases
  <2>2. res' \in [OCIDs -> [own : Nat, tok : Nat, gen : Nat,
                            state : LifecycleStates \cup {"NONE", "REMOVED"}]]
    BY <1>2 DEF OciTypeOK, LifecycleStates
  <2> QED
    BY <1>2, <2>1, <2>2, OpenType DEF OciTypeOK
<1> QED
  BY <1>1, <1>2 DEF CreateAccepted

LEMMA ChangeAcceptedType ==
    ASSUME OciTypeOK, StatusKept, NEW i \in OCIDs \cup {0}, NEW gen \in Nat, NEW w,
           UpdateAccepted(i, gen, w) \/ DeleteAccepted(i, w)
    PROVE  /\ OciTypeOK' /\ StatusKept'
           /\ UpdateAccepted(i, gen, w) => ("update" \in WorkRequests => w \in WorkRequestIDs)
           /\ DeleteAccepted(i, w) => ("delete" \in WorkRequests => w \in WorkRequestIDs)
<1>0. "update" \in Phases /\ "delete" \in Phases
  BY DEF Phases
<1>1. res \in [OCIDs -> [own : Nat, tok : Nat, gen : Nat,
                         state : LifecycleStates \cup {"NONE", "REMOVED"}]]
  BY DEF OciTypeOK
<1>2. ASSUME UpdateAccepted(i, gen, w) PROVE OciTypeOK' /\ StatusKept'
  <2>1. res' \in [OCIDs -> [own : Nat, tok : Nat, gen : Nat,
                            state : LifecycleStates \cup {"NONE", "REMOVED"}]]
    BY <1>1, <1>2 DEF UpdateAccepted, LifecycleStates
  <2> QED
    BY <1>0, <1>2, <2>1, OpenType DEF UpdateAccepted, OciTypeOK
<1>3. ASSUME DeleteAccepted(i, w) PROVE OciTypeOK' /\ StatusKept'
  <2>1. res' \in [OCIDs -> [own : Nat, tok : Nat, gen : Nat,
                            state : LifecycleStates \cup {"NONE", "REMOVED"}]]
    BY <1>1, <1>3 DEF DeleteAccepted, LifecycleStates
  <2> QED
    BY <1>0, <1>3, <2>1, OpenType DEF DeleteAccepted, OciTypeOK
<1>4. UpdateAccepted(i, gen, w) => ("update" \in WorkRequests => w \in WorkRequestIDs)
  BY <1>0, OpenType DEF UpdateAccepted
<1>5. DeleteAccepted(i, w) => ("delete" \in WorkRequests => w \in WorkRequestIDs)
  BY <1>0, OpenType DEF DeleteAccepted
<1> QED
  BY <1>2, <1>3, <1>4, <1>5

LEMMA OciStepType ==
    ASSUME OciTypeOK, StatusKept, Oci \/ DeletedOutOfBand
    PROVE  OciTypeOK' /\ StatusKept'
<1>1. /\ res \in [OCIDs -> [own : Nat, tok : Nat, gen : Nat,
                            state : LifecycleStates \cup {"NONE", "REMOVED"}]]
      /\ wrs \in [WorkRequestIDs ->
                  [phase : Phases \cup {""}, res : OCIDs \cup {0},
                   status : {"", "IN_PROGRESS", "SUCCEEDED", "FAILED", "UNKNOWN"}]]
  BY DEF OciTypeOK
<1>2. CASE ResourceProgresses
  BY <1>1, <1>2 DEF ResourceProgresses, OciTypeOK, StatusKept, LifecycleStates
<1>3. CASE DeletedOutOfBand
  <2>1. ASSUME NEW r \in [own : Nat, tok : Nat, gen : Nat,
                          state : LifecycleStates \cup {"NONE", "REMOVED"}],
               NEW tok \in Nat
        PROVE  [r EXCEPT !.state = "REMOVED", !.tok = tok]
                  \in [own : Nat, tok : Nat, gen : Nat,
                       state : LifecycleStates \cup {"NONE", "REMOVED"}]
    OBVIOUS
  <2> PICK i \in OCIDs : \E tok \in {res[i].tok, 0} :
          res' = [res EXCEPT ![i] = [@ EXCEPT !.state = "REMOVED", !.tok = tok]]
    BY <1>3 DEF DeletedOutOfBand
  <2>2. res[i].tok \in Nat /\ 0 \in Nat
    BY <1>1
  <2>3. PICK tok \in Nat :
          res' = [res EXCEPT ![i] = [@ EXCEPT !.state = "REMOVED", !.tok = tok]]
    BY <2>2
  <2>4. res' \in [OCIDs -> [own : Nat, tok : Nat, gen : Nat,
                            state : LifecycleStates \cup {"NONE", "REMOVED"}]]
    BY <1>1, <2>1, <2>3
  <2> QED
    BY <1>1, <1>3, <2>4 DEF DeletedOutOfBand, OciTypeOK, StatusKept
<1>4. CASE WorkRequestEnds
  <2>0. PICK w \in WorkRequestIDs : wrs' = [wrs EXCEPT ![w].status =
             IF res[wrs[w].res].state = "FAILED" THEN "FAILED" ELSE "SUCCEEDED"]
    BY <1>4 DEF WorkRequestEnds
  <2> PICK s \in {"FAILED", "SUCCEEDED"} : wrs' = [wrs EXCEPT ![w].status = s]
    BY <2>0
  <2>1. UNCHANGED res
    BY <1>4 DEF WorkRequestEnds
  <2>2. /\ wrs' \in [WorkRequestIDs ->
                  [phase : Phases \cup {""}, res : OCIDs \cup {0},
                   status : {"", "IN_PROGRESS", "SUCCEEDED", "FAILED", "UNKNOWN"}]]
        /\ \A v \in WorkRequestIDs : wrs'[v].phase = wrs[v].phase
        /\ \A v \in WorkRequestIDs : wrs'[v].status = wrs[v].status \/ wrs'[v].status # ""
    BY <1>1
  <2> QED
    BY <2>1, <2>2 DEF OciTypeOK, StatusKept
<1>5. CASE WorkRequestVanishes
  <2> PICK w \in WorkRequestIDs : wrs' = [wrs EXCEPT ![w].status = "UNKNOWN"]
    BY <1>5 DEF WorkRequestVanishes
  <2>1. UNCHANGED res
    BY <1>5 DEF WorkRequestVanishes
  <2>2. /\ wrs' \in [WorkRequestIDs ->
                  [phase : Phases \cup {""}, res : OCIDs \cup {0},
                   status : {"", "IN_PROGRESS", "SUCCEEDED", "FAILED", "UNKNOWN"}]]
        /\ \A v \in WorkRequestIDs : wrs'[v].phase = wrs[v].phase
        /\ \A v \in WorkRequestIDs : wrs'[v].status = wrs[v].status \/ wrs'[v].status # ""
    BY <1>1
  <2> QED
    BY <2>1, <2>2 DEF OciTypeOK, StatusKept
<1> QED
  BY <1>2, <1>3, <1>4, <1>5 DEF Oci

\* The parts that several steps of the runtime share.
LEMMA AfterWriteOK ==
    ASSUME CallOK, NEW phase \in Phases, NEW id \in OCIDs \cup {0}, NEW w,
           phase \in WorkRequests => w \in WorkRequestIDs, AfterWrite(phase, id, w)
    PROVE  CallOK'
<1>1. call \in CallRecord /\ call.st \in OSOKStatus
  BY DEF CallOK, CallRecord
<1>2. CASE phase \in WorkRequests
  <2> DEFINE tracked == [call.st EXCEPT !.ocid = IF id # 0 THEN id ELSE @]
             st == SeedOpeningWorkRequestID(tracked, phase, w)
  <2>1. tracked \in OSOKStatus
    BY <1>1 DEF OSOKStatus
  <2>2. w \in WorkRequestIDs /\ w # 0 /\ "pending" \in Classes
    BY <1>2, IdentifierAssumption DEF Classes
  <2>3. GoTo("pollWrite", st, 0)
    BY <1>2 DEF AfterWrite
  <2> HIDE DEF tracked
  <2>4. st \in OSOKStatus /\ ResolveTrackedWorkRequest(st) = w
    BY <2>1, <2>2, WorkRequestStatus
  <2> HIDE DEF st
  <2> QED
    BY <2>2, <2>3, <2>4, GoToOK DEF CallSteps
<1>3. CASE phase \notin WorkRequests
  <2>1. call' = [call EXCEPT !.step = "followUp", !.phase = phase, !.id = id]
    BY <1>3 DEF AfterWrite
  <2>2. call' \in CallRecord /\ call'.step = "followUp"
    BY <1>1, <2>1 DEF CallRecord, CallSteps
  <2> QED
    BY <2>2 DEF CallOK, Polling
<1> QED
  BY <1>2, <1>3

LEMMA RequiredDeleteOutcomeOK ==
    ASSUME CallOK, NEW state, RequiredDeleteOutcome(state)
    PROVE  CallOK'
<1>1. call.st \in OSOKStatus
  BY DEF CallOK, CallRecord
<1>2. {"deleted", "pending", "error"} \subseteq DeleteResults
  BY DEF DeleteResults
<1> QED
  BY <1>1, <1>2, MarkType, DeletedOK DEF RequiredDeleteOutcome

LEMMA ReconcileExistingOK ==
    ASSUME CallOK, NEW i \in OCIDs, ReconcileExistingResource(i)
    PROVE  CallOK'
<1>1. call.st \in OSOKStatus /\ i \in OCIDs \cup {0} /\ "" \in Phases \cup {""}
  BY DEF CallOK, CallRecord
<1>2. [call.st EXCEPT !.ocid = i] \in OSOKStatus
  BY <1>1 DEF OSOKStatus
<1>3. ApplySuccess(call.st, i, res[i].state, "") \in OSOKStatus
  BY <1>1, ApplySuccessType
<1> QED
  BY <1>1, <1>2, <1>3, GoToOK, WrittenOK DEF ReconcileExistingResource, CallSteps, Polling

\* A work request that is followed and is not lost has a class.
LEMMA NormalizeType ==
    \A status \in {"IN_PROGRESS", "SUCCEEDED", "FAILED"} :
        Normalize(status) \in {"pending", "succeeded", "failed"}
  BY DEF Normalize

LEMMA PolledStatus ==
    ASSUME OciTypeOK, StatusKept, NEW st \in OSOKStatus,
           ResolveTrackedWorkRequest(st) \in WorkRequestIDs
    PROVE  /\ st.async.phase \in Phases
           /\ wrs[ResolveTrackedWorkRequest(st)].res \in OCIDs \cup {0}
           /\ ~PhaseConflicts(st) /\ wrs[ResolveTrackedWorkRequest(st)].status # "UNKNOWN" =>
                 Normalize(wrs[ResolveTrackedWorkRequest(st)].status)
                    \in {"pending", "succeeded", "failed"}
<1> DEFINE wr == ResolveTrackedWorkRequest(st)
<1>1. wr # 0
  BY IdentifierAssumption
<1>2. st.async.phase # "" /\ st.async.phase \in Phases
  BY <1>1 DEF ResolveTrackedWorkRequest, OSOKStatus, AsyncOperation
<1>3. wrs[wr] \in [phase : Phases \cup {""}, res : OCIDs \cup {0},
                  status : {"", "IN_PROGRESS", "SUCCEEDED", "FAILED", "UNKNOWN"}]
  BY DEF OciTypeOK
<1> HIDE DEF wr
<1>4. wrs[wr].phase = st.async.phase => wrs[wr].status # ""
  BY <1>2 DEF StatusKept, wr
<1>5. ~PhaseConflicts(st) => wrs[wr].phase = st.async.phase
  BY DEF PhaseConflicts, wr
<1>6. ~PhaseConflicts(st) /\ wrs[wr].status # "UNKNOWN" =>
         wrs[wr].status \in {"IN_PROGRESS", "SUCCEEDED", "FAILED"}
  BY <1>3, <1>4, <1>5
<1>7. wrs[wr].res \in OCIDs \cup {0}
  BY <1>3
<1> QED
  BY <1>2, <1>6, <1>7, NormalizeType DEF wr

\* Each step of a call keeps the types.
LEMMA RuntimeStepOK ==
    ASSUME OInv, RuntimeStep
    PROVE  OciTypeOK' /\ StatusKept' /\ CallOK' /\ faults' \in 0 .. MaxFaults
<1>i. OciTypeOK /\ StatusKept /\ CallOK /\ faults \in 0 .. MaxFaults
  BY DEF OInv
<1>c. /\ call \in CallRecord /\ call.st \in OSOKStatus /\ call.id \in OCIDs \cup {0}
      /\ call.phase \in Phases \cup {""} /\ call.uid \in Nat /\ call.gen \in Nat
  BY <1>i DEF CallOK, CallRecord
<1>o. call.st.ocid \in OCIDs \cup {0} /\ call.st.async \in AsyncOperation
  BY <1>c DEF OSOKStatus
<1>z. 0 \in OCIDs \cup {0} /\ [call.st EXCEPT !.ocid = 0] \in OSOKStatus
  BY <1>c DEF OSOKStatus
<1>d. {"deleted", "pending", "404 NotFound", "error"} \subseteq DeleteResults
  BY DEF DeleteResults
<1>k. {"pending", "failed"} \subseteq Classes
  BY DEF Classes
<1>m. MarkDeleted(call.st) \in OSOKStatus
  BY <1>c, MarkType
<1>p. {"create", "update", "delete"} = Phases
  BY DEF Phases
<1>1. CASE ResolveExistingBeforeCreate
  <2>1. NoEffect
    BY <1>1 DEF ResolveExistingBeforeCreate
  <2>2. faults' \in 0 .. MaxFaults
    <3>1. Fault \/ NoFault
      BY <1>1 DEF ResolveExistingBeforeCreate, ReadFails, ReconcileExistingResource, FindsNone,
                  Finds
    <3> QED
      BY <1>i, <3>1, FaultType
  <2>3. \/ Fail \/ GoTo("create", [call.st EXCEPT !.ocid = 0], 0)
        \/ Readable(call.st.ocid) /\ ReconcileExistingResource(call.st.ocid)
        \/ \E i \in ListMatches("create") : GoTo("liveGet", [call.st EXCEPT !.ocid = 0], i)
    BY <1>1 DEF ResolveExistingBeforeCreate
  <2>4. CallOK'
    BY <1>i, <1>o, <1>z, <2>3, FailOK, GoToOK, ReconcileExistingOK, MatchesType
       DEF CallSteps, Polling
  <2> QED
    BY <1>i, <2>1, <2>2, <2>4, OciUnchanged
<1>2. CASE LoadLiveMutationResponse
  <2>1. NoEffect
    BY <1>2 DEF LoadLiveMutationResponse
  <2>2. faults' \in 0 .. MaxFaults
    BY <1>2, <1>i, FaultType DEF LoadLiveMutationResponse, ReconcileExistingResource
  <2>3. CallOK'
    BY <1>2, <1>i, <1>c, <1>z, FailOK, GoToOK, ReconcileExistingOK, MatchesType
       DEF LoadLiveMutationResponse, CallSteps, Polling
  <2> QED
    BY <1>i, <2>1, <2>2, <2>3, OciUnchanged
<1>3. CASE CreateOrReadResource
  <2>1. faults' \in 0 .. MaxFaults
    BY <1>3, <1>i, FaultType DEF CreateOrReadResource
  <2>2. CASE NoEffect /\ Fail
    BY <1>i, <2>1, <2>2, FailOK, OciUnchanged
  <2>3. ASSUME NEW i \in OCIDs, NEW w \in WorkRequestIDs \cup {0},
               CreateAccepted(call.uid, ResourceRetryToken(call.uid), call.gen, i, w),
               AfterWrite("create", IF IdInResponse THEN i ELSE 0, w) \/ Fail
        PROVE  OciTypeOK' /\ StatusKept' /\ CallOK'
    <3>1. OciTypeOK' /\ StatusKept' /\ ("create" \in WorkRequests => w \in WorkRequestIDs)
      BY <1>i, <1>c, <2>3, CreateAcceptedType DEF ResourceRetryToken
    <3>2. (IF IdInResponse THEN i ELSE 0) \in OCIDs \cup {0} /\ "create" \in Phases
      BY <1>p
    <3>3. CallOK'
      BY <1>i, <2>3, <3>1, <3>2, AfterWriteOK, FailOK
    <3> QED
      BY <3>1, <3>3
  <2> QED
    BY <1>3, <2>1, <2>2, <2>3 DEF CreateOrReadResource
<1>4. CASE UpdateExistingResource
  <2>1. faults' \in 0 .. MaxFaults
    BY <1>4, <1>i, FaultType DEF UpdateExistingResource
  <2>2. CASE NoEffect /\ Fail
    BY <1>i, <2>1, <2>2, FailOK, OciUnchanged
  <2>3. ASSUME NEW w \in WorkRequestIDs \cup {0}, UpdateAccepted(call.id, call.gen, w),
               AfterWrite("update", call.id, w) \/ Fail
        PROVE  OciTypeOK' /\ StatusKept' /\ CallOK'
    <3>1. OciTypeOK' /\ StatusKept' /\ ("update" \in WorkRequests => w \in WorkRequestIDs)
      BY <1>i, <1>c, <2>3, ChangeAcceptedType
    <3>2. CallOK'
      BY <1>i, <1>c, <1>p, <2>3, <3>1, AfterWriteOK, FailOK
    <3> QED
      BY <3>1, <3>2
  <2> QED
    BY <1>4, <2>1, <2>2, <2>3 DEF UpdateExistingResource
<1>5. CASE FollowUpAfterWrite
  <2>1. NoEffect
    BY <1>5 DEF FollowUpAfterWrite
  <2>2. faults' \in 0 .. MaxFaults
    BY <1>5, <1>i, FaultType DEF FollowUpAfterWrite, ReadFails, Finds, FindsNone
  <2>3. \/ Fail
        \/ Written(ApplySuccess(call.st, call.id, "CREATING", "create"))
        \/ \E i \in OCIDs : Written(ApplySuccess(call.st, i, res[i].state, call.phase))
    BY <1>5, <1>c, <1>p, MatchesType DEF FollowUpAfterWrite
  <2>4. CallOK'
    BY <1>i, <1>c, <1>p, <2>3, FailOK, WrittenOK, ApplySuccessType
  <2> QED
    BY <1>i, <2>1, <2>2, <2>4, OciUnchanged
<1>6. CASE ResumeWorkRequestCreateOrUpdate
  <2> DEFINE st == call.st
             wr == ResolveTrackedWorkRequest(st)
             status == wrs[wr].status
  <2>1. NoEffect
    BY <1>6 DEF ResumeWorkRequestCreateOrUpdate
  <2>2. faults' \in 0 .. MaxFaults
    BY <1>6, <1>i, FaultType DEF ResumeWorkRequestCreateOrUpdate
  <2>3. wr \in WorkRequestIDs
    BY <1>6, <1>i DEF ResumeWorkRequestCreateOrUpdate, At, CallOK, Polling
  <2>4. /\ st.async.phase \in Phases /\ wrs[wr].res \in OCIDs \cup {0}
        /\ ~PhaseConflicts(st) /\ status # "UNKNOWN" =>
              Normalize(status) \in {"pending", "succeeded", "failed"}
    BY <1>i, <1>c, <2>3, PolledStatus
  <2>5. \/ Fail
        \/ \E class \in {"pending", "failed"} :
              Written(SetWorkRequestOperation(st, st.async.phase, wr, class))
        \/ GoTo("readWrite", st, IF st.ocid # 0 THEN st.ocid ELSE wrs[wr].res)
    BY <1>6, <2>4 DEF ResumeWorkRequestCreateOrUpdate
  <2>6. (IF st.ocid # 0 THEN st.ocid ELSE wrs[wr].res) \in OCIDs \cup {0}
    BY <1>o, <2>4
  <2>7. \A class \in {"pending", "failed"} :
           SetWorkRequestOperation(st, st.async.phase, wr, class) \in OSOKStatus
    BY <1>c, <1>k, <2>3, <2>4, WorkRequestStatus
  <2>8. CallOK'
    BY <1>i, <1>c, <2>3, <2>5, <2>6, <2>7, FailOK, WrittenOK, GoToOK DEF CallSteps
  <2> QED
    BY <1>i, <2>1, <2>2, <2>8, OciUnchanged
<1>7. CASE CompleteWorkRequestWrite
  <2> DEFINE st == call.st
             mark(class) == SetWorkRequestOperation(st, st.async.phase, st.async.wr, class)
  <2>1. NoEffect
    BY <1>7 DEF CompleteWorkRequestWrite
  <2>2. faults' \in 0 .. MaxFaults
    BY <1>7, <1>i, FaultType DEF CompleteWorkRequestWrite, ReadFails, Finds, FindsNone
  <2>3. st.async.phase \in Phases
    <3>1. ResolveTrackedWorkRequest(st) \in WorkRequestIDs
      BY <1>7, <1>i DEF CompleteWorkRequestWrite, At, CallOK, Polling
    <3> QED
      BY <1>i, <1>c, <3>1, PolledStatus
  <2>4. st.async.wr \in WorkRequestIDs \cup {0}
    BY <1>o DEF AsyncOperation
  <2>5. mark("failed") \in OSOKStatus /\ mark("pending") \in OSOKStatus
    BY <1>c, <1>k, <2>3, <2>4, WorkRequestStatus
  <2>6. \/ Written(mark("failed")) \/ Written(mark("pending"))
        \/ \E i \in OCIDs : Written(ApplySuccess(st, i, res[i].state, st.async.phase))
    BY <1>7, <1>c, MatchesType DEF CompleteWorkRequestWrite
  <2>7. CallOK'
    <3> HIDE DEF mark
    <3> QED
      BY <1>i, <1>c, <2>3, <2>5, <2>6, WrittenOK, ApplySuccessType
  <2> QED
    BY <1>i, <2>1, <2>2, <2>7, OciUnchanged
<1>8. CASE ResolveDeleteID
  <2>1. NoEffect
    BY <1>8 DEF ResolveDeleteID
  <2>2. faults' \in 0 .. MaxFaults
    BY <1>8, <1>i, FaultType DEF ResolveDeleteID, ReadFails, Finds, FindsNone
  <2>3. \/ Deleted(call.st, "error") \/ Deleted(MarkDeleted(call.st), "deleted")
        \/ \E i \in OCIDs : GoTo("confirmPending", [call.st EXCEPT !.ocid = i], i)
    BY <1>8, MatchesType DEF ResolveDeleteID
  <2>4. \A i \in OCIDs : [call.st EXCEPT !.ocid = i] \in OSOKStatus /\ i \in OCIDs \cup {0}
    BY <1>c DEF OSOKStatus
  <2>5. CallOK'
    BY <1>i, <1>c, <1>d, <1>m, <2>3, <2>4, DeletedOK, GoToOK DEF CallSteps, Polling
  <2> QED
    BY <1>i, <2>1, <2>2, <2>5, OciUnchanged
<1>9. CASE ConfirmDeleteIfAlreadyPending
  <2>1. NoEffect
    BY <1>9 DEF ConfirmDeleteIfAlreadyPending
  <2>2. faults' \in 0 .. MaxFaults
    BY <1>9, <1>i, FaultType DEF ConfirmDeleteIfAlreadyPending, ReadFails, Finds, FindsNone
  <2>3. \/ Deleted(MarkDeleted(call.st), "deleted") \/ GoTo("invokeDelete", call.st, call.id)
        \/ \E state : RequiredDeleteOutcome(state)
    BY <1>9 DEF ConfirmDeleteIfAlreadyPending
  <2>4. CallOK'
    BY <1>i, <1>c, <1>d, <1>m, <2>3, DeletedOK, GoToOK, RequiredDeleteOutcomeOK
       DEF CallSteps, Polling
  <2> QED
    BY <1>i, <2>1, <2>2, <2>4, OciUnchanged
<1>10. CASE InvokeDeleteOperation
  <2>1. faults' \in 0 .. MaxFaults
    BY <1>10, <1>i, FaultType DEF InvokeDeleteOperation
  <2>2. CASE NoEffect /\ \/ Deleted(call.st, "error") \/ Deleted(MarkDeleted(call.st), "deleted")
                         \/ GoTo("confirmDelete", call.st, call.id)
    <3>1. CallOK'
      BY <1>i, <1>c, <1>d, <1>m, <2>2, DeletedOK, GoToOK DEF CallSteps, Polling
    <3> QED
      BY <1>i, <2>1, <2>2, <3>1, OciUnchanged
  <2>3. ASSUME NEW w \in WorkRequestIDs \cup {0}, DeleteAccepted(call.id, w),
               \/ Deleted(call.st, "error")
               \/ /\ "delete" \in WorkRequests
                  /\ GoTo("pollDelete", SeedOpeningWorkRequestID(call.st, "delete", w), call.id)
               \/ GoTo("confirmDelete", call.st, call.id)
        PROVE  OciTypeOK' /\ StatusKept' /\ CallOK'
    <3>1. OciTypeOK' /\ StatusKept' /\ ("delete" \in WorkRequests => w \in WorkRequestIDs)
      BY <1>i, <1>c, <2>3, ChangeAcceptedType
    <3>2. "delete" \in Phases /\ "pending" \in Classes /\ 0 \notin WorkRequestIDs
      BY <1>p, <1>k, IdentifierAssumption
    <3>3. CASE /\ "delete" \in WorkRequests
               /\ GoTo("pollDelete", SeedOpeningWorkRequestID(call.st, "delete", w), call.id)
      <4> DEFINE seeded == SeedOpeningWorkRequestID(call.st, "delete", w)
      <4>1. w \in WorkRequestIDs /\ w # 0
        BY <3>1, <3>2, <3>3
      <4>2. seeded \in OSOKStatus /\ ResolveTrackedWorkRequest(seeded) = w
        BY <1>c, <3>2, <4>1, WorkRequestStatus
      <4>3. GoTo("pollDelete", seeded, call.id)
        BY <3>3
      <4> HIDE DEF seeded
      <4> QED
        BY <1>i, <1>c, <3>1, <4>1, <4>2, <4>3, GoToOK DEF CallSteps
    <3>4. CASE Deleted(call.st, "error") \/ GoTo("confirmDelete", call.st, call.id)
      BY <1>i, <1>c, <1>d, <3>1, <3>4, DeletedOK, GoToOK DEF CallSteps, Polling
    <3> QED
      BY <2>3, <3>3, <3>4
  <2> QED
    BY <1>10, <2>1, <2>2, <2>3 DEF InvokeDeleteOperation
<1>11. CASE ConfirmDeleteWithSemantics
  <2>1. NoEffect
    BY <1>11 DEF ConfirmDeleteWithSemantics
  <2>2. faults' \in 0 .. MaxFaults
    BY <1>11, <1>i, FaultType DEF ConfirmDeleteWithSemantics, ReadFails, Finds, FindsNone
  <2>3. CallOK'
    BY <1>11, <1>i, <1>c, <1>d, <1>m, DeletedOK, RequiredDeleteOutcomeOK
       DEF ConfirmDeleteWithSemantics
  <2> QED
    BY <1>i, <2>1, <2>2, <2>3, OciUnchanged
<1>12. CASE ResumeWorkRequestDelete
  <2> DEFINE st == call.st
             wr == ResolveTrackedWorkRequest(st)
             mark(class) == SetWorkRequestOperation(st, "delete", wr, class)
  <2>1. NoEffect
    BY <1>12 DEF ResumeWorkRequestDelete
  <2>2. faults' \in 0 .. MaxFaults
    BY <1>12, <1>i, FaultType DEF ResumeWorkRequestDelete
  <2>3. wr \in WorkRequestIDs
    BY <1>12, <1>i DEF ResumeWorkRequestDelete, At, CallOK, Polling
  <2>4. (IF st.ocid # 0 THEN st.ocid ELSE wrs[wr].res) \in OCIDs \cup {0}
    BY <1>i, <1>c, <1>o, <2>3, PolledStatus
  <2>5. mark("pending") \in OSOKStatus /\ mark("failed") \in OSOKStatus
    BY <1>c, <1>k, <1>p, <2>3, WorkRequestStatus
  <2>6. \/ Deleted(st, "error") \/ Deleted(st, "404 NotFound")
        \/ Deleted(mark("pending"), "pending") \/ Deleted(mark("failed"), "error")
        \/ GoTo("readDelete", st, IF st.ocid # 0 THEN st.ocid ELSE wrs[wr].res)
    BY <1>12 DEF ResumeWorkRequestDelete
  <2>7. CallOK'
    <3> HIDE DEF mark
    <3> QED
      BY <1>i, <1>c, <1>d, <2>4, <2>5, <2>6, DeletedOK, GoToOK DEF CallSteps, Polling
  <2> QED
    BY <1>i, <2>1, <2>2, <2>7, OciUnchanged
<1>13. CASE CompleteWorkRequestDelete
  <2> DEFINE marked == SetWorkRequestOperation(call.st, "delete", call.st.async.wr, "failed")
  <2>1. NoEffect
    BY <1>13 DEF CompleteWorkRequestDelete
  <2>2. faults' \in 0 .. MaxFaults
    BY <1>13, <1>i, FaultType DEF CompleteWorkRequestDelete, ReadFails, Finds, FindsNone
  <2>3. call.st.async.wr \in WorkRequestIDs \cup {0}
    BY <1>o DEF AsyncOperation
  <2>4. marked \in OSOKStatus
    BY <1>c, <1>k, <1>p, <2>3, WorkRequestStatus
  <2>5. \/ Deleted(marked, "error") \/ Deleted(MarkDeleted(call.st), "deleted")
        \/ \E state : RequiredDeleteOutcome(state)
    BY <1>13 DEF CompleteWorkRequestDelete
  <2>6. CallOK'
    <3> HIDE DEF marked
    <3> QED
      BY <1>i, <1>c, <1>d, <1>m, <2>4, <2>5, DeletedOK, RequiredDeleteOutcomeOK
  <2> QED
    BY <1>i, <2>1, <2>2, <2>6, OciUnchanged
<1> QED
  BY <1>1, <1>2, <1>3, <1>4, <1>5, <1>6, <1>7, <1>8, <1>9, <1>10, <1>11, <1>12, <1>13
     DEF RuntimeStep

-----------------------------------------------------------------------------
(* Refinement. *)

LEMMA SameReconcilerVars == UNCHANGED reconcilerVars <=> UNCHANGED R!vars
  BY DEF reconcilerVars, R!vars, R!apiVars, R!ctrlVars, R!histVars

\* What the runtime returns is a response, or a result of Delete, that the
\* reconciler knows.
LEMMA ReturnsAreAllowed ==
    ASSUME CallOK
    PROVE  /\ call.st \in OSOKStatus
           /\ ResponseFor(call.st) \in R!AnyResponses
           /\ call.step = "deleted" => call.out \in R!DeleteOutcomes
<1>1. call.st \in OSOKStatus
  BY DEF CallOK, CallRecord
<1>2. ResponseFor(call.st) \in R!AnyResponses
  BY ResponseType DEF R!AnyResponses, R!Responses
<1>3. call.step = "deleted" => call.out \in R!DeleteOutcomes
  BY DEF CallOK, DeleteResults, R!DeleteOutcomes
<1> QED
  BY <1>1, <1>2, <1>3

LEMMA StepRefines == CallOK /\ [Next]_vars => ReconcilerStep \/ UNCHANGED reconcilerVars
<1> SUFFICES ASSUME CallOK, [Next]_vars PROVE ReconcilerStep \/ UNCHANGED reconcilerVars
  OBVIOUS
<1>1. CASE Kubernetes
  BY <1>1 DEF Kubernetes, Users, ReconcilerStep, R!Environment
<1>2. CASE Restart
  BY <1>2 DEF Restart, ReconcilerStep
<1>3. CASE CallCreateOrUpdate \/ CallDelete \/ Step
  BY <1>3 DEF CallCreateOrUpdate, CallDelete, Step
<1>4. CASE CreateOrUpdateReturns
  BY <1>4, ReturnsAreAllowed DEF CreateOrUpdateReturns, ReconcilerStep
<1>5. CASE DeleteReturns
  BY <1>5, ReturnsAreAllowed DEF DeleteReturns, At, ReconcilerStep
<1>6. CASE \/ Oci /\ UNCHANGED <<reconcilerVars, call, faults>>
           \/ DeletedOutOfBand /\ Fault /\ UNCHANGED <<reconcilerVars, call>>
           \/ UNCHANGED vars
  BY <1>6 DEF vars
<1> QED
  BY <1>1, <1>2, <1>3, <1>4, <1>5, <1>6 DEF Next, Manager

\* A step of the reconciler with the manager's status named is one with some
\* status.
LEMMA NamedStep == ReconcilerStep => R!Next
  BY DEF ReconcilerStep, R!Next, R!ServiceManager

-----------------------------------------------------------------------------
(* Type correctness. *)

LEMMA ReconcilerTypeInductive ==
    ASSUME R!TypeOK, CallOK, [Next]_vars
    PROVE  R!TypeOK'
<1>1. [R!Next]_(R!vars)
  BY StepRefines, NamedStep, SameReconcilerVars
<1>2. [RP!Next]_(RP!vars)
  BY <1>1, SameNext, SameVars
<1> QED
  BY <1>2, SameType, StatusFits, BoundsFit, RP!TypeInductive

\* A call starts with what the reconciler's copy of the object holds.
LEMMA CallStartsOK ==
    ASSUME R!TypeOK, CallCreateOrUpdate \/ CallDelete
    PROVE  CallOK'
<1>1. obj.uid \in Nat /\ obj.gen \in Nat /\ obj.st \in OSOKStatus
  BY DEF R!TypeOK, R!Version
<1>2. obj.st.ocid \in OCIDs \cup {0} /\ MarkFailure(obj.st) \in OSOKStatus
  BY <1>1, MarkType DEF OSOKStatus
<1>3. ResolveTrackedWorkRequest(obj.st) \in WorkRequestIDs \cup {0}
  BY <1>1 DEF ResolveTrackedWorkRequest, OSOKStatus, AsyncOperation
<1>4. ASSUME NEW s \in CallSteps, NEW st \in OSOKStatus, NEW id \in OCIDs \cup {0},
             call' = [step |-> s, uid |-> obj.uid, gen |-> obj.gen, phase |-> "", st |-> st,
                      id |-> id, out |-> ""],
             s # "deleted", s \in Polling => ResolveTrackedWorkRequest(st) \in WorkRequestIDs
      PROVE  CallOK'
  BY <1>1, <1>4 DEF CallOK, CallRecord
<1>5. CASE CallCreateOrUpdate
  <2> DEFINE started(s, st) == [step |-> s, uid |-> obj.uid, gen |-> obj.gen, phase |-> "",
                                st |-> st, id |-> 0, out |-> ""]
             wr == ResolveTrackedWorkRequest(obj.st)
  <2>1. \/ call' = started("resolve", obj.st)
        \/ wr # 0 /\ call' = started("pollWrite", obj.st)
        \/ call' = started("written", MarkFailure(obj.st))
    BY <1>5 DEF CallCreateOrUpdate, CreateOrUpdate, NoCall
  <2> QED
    BY <1>1, <1>2, <1>3, <1>4, <2>1 DEF CallSteps, Polling
<1>6. CASE CallDelete
  <2> DEFINE started(s) == [step |-> s, uid |-> obj.uid, gen |-> obj.gen, phase |-> "",
                            st |-> obj.st, id |-> obj.st.ocid, out |-> ""]
             wr == ResolveTrackedWorkRequest(obj.st)
  <2>1. \/ wr # 0 /\ call' = started("pollDelete")
        \/ call' = started("confirmPending") \/ call' = started("resolveDelete")
    BY <1>6 DEF CallDelete, DeleteWithResult, NoCall
  <2> QED
    BY <1>1, <1>2, <1>3, <1>4, <2>1 DEF CallSteps, Polling
<1> QED
  BY <1>5, <1>6

LEMMA OInvInductive == OInv /\ [Next]_vars => OInv'
<1> SUFFICES ASSUME OInv, [Next]_vars PROVE OInv'
  OBVIOUS
<1>i. R!TypeOK /\ OciTypeOK /\ StatusKept /\ CallOK /\ faults \in 0 .. MaxFaults
  BY DEF OInv
<1>r. R!TypeOK'
  BY <1>i, ReconcilerTypeInductive
<1>n. call' = NoCall => CallOK'
  BY NoCallOK DEF CallOK, Polling
<1>k. UNCHANGED call => CallOK'
  BY <1>i DEF CallOK
<1>o. UNCHANGED ociVars => OciTypeOK' /\ StatusKept'
  BY <1>i, OciUnchanged DEF NoEffect
<1>1. CASE Kubernetes \/ UNCHANGED vars
  BY <1>1, <1>i, <1>r, <1>k, <1>o DEF Kubernetes, vars, runtimeVars, OInv
<1>2. CASE Restart \/ CreateOrUpdateReturns \/ DeleteReturns
  BY <1>2, <1>i, <1>r, <1>n, <1>o DEF Restart, CreateOrUpdateReturns, DeleteReturns, OInv
<1>3. CASE CallCreateOrUpdate \/ CallDelete
  <2>1. UNCHANGED ociVars /\ UNCHANGED faults
    BY <1>3 DEF CallCreateOrUpdate, CallDelete, CreateOrUpdate, DeleteWithResult, NoEffect,
                NoFault
  <2> QED
    BY <1>3, <1>i, <1>r, <1>o, <2>1, CallStartsOK DEF OInv
<1>4. CASE Step
  BY <1>4, <1>r, RuntimeStepOK DEF Step, OInv
<1>5. CASE \/ Oci /\ UNCHANGED <<reconcilerVars, call, faults>>
           \/ DeletedOutOfBand /\ Fault /\ UNCHANGED <<reconcilerVars, call>>
  <2>1. faults' \in 0 .. MaxFaults
    BY <1>5, <1>i, FaultType
  <2> QED
    BY <1>5, <1>i, <1>r, <1>k, <2>1, OciStepType DEF OInv
<1> QED
  BY <1>1, <1>2, <1>3, <1>4, <1>5 DEF Next, Manager

LEMMA InitOInv == Init => OInv
<1> SUFFICES ASSUME Init PROVE OInv
  OBVIOUS
<1>1. R!TypeOK
  BY SameInit, SameType, StatusFits, BoundsFit, RP!InitType DEF Init
<1>2. OciTypeOK /\ StatusKept
  BY DEF Init, OciInit, OciTypeOK, StatusKept
<1>3. CallOK /\ faults \in 0 .. MaxFaults
  BY NoCallOK, FaultsAssumption DEF Init, CallOK, Polling
<1> QED
  BY <1>1, <1>2, <1>3 DEF OInv

LEMMA OInvInvariant == Spec => []OInv
  BY InitOInv, OInvInductive, PTL DEF Spec

-----------------------------------------------------------------------------
(* Retry tokens. *)

\* A resource keeps the token of the incarnation it was created for as long as
\* only the operator and the service act on it.
TokenNamesOwner ==
    \A i \in OCIDs : res[i].own # 0 /\ res[i].state # "REMOVED" => res[i].tok = res[i].own

\* A token creates one resource.
TokenCreatesOne ==
    \A i, j \in OCIDs : res[i].tok # 0 /\ res[i].tok = res[j].tok => i = j

Tokens == TokenNamesOwner /\ TokenCreatesOne

\* A step that changes only the spec and the state of resources.
LEMMA TokensKept ==
    ASSUME Tokens,
           \A i \in OCIDs : /\ res'[i].own = res[i].own
                            /\ res'[i].tok = res[i].tok
                            /\ res[i].state = "REMOVED" => res'[i].state = "REMOVED"
    PROVE  Tokens'
  BY DEF Tokens, TokenNamesOwner, TokenCreatesOne

LEMMA TokensInductive == OciTypeOK /\ Tokens /\ [Next]_vars => Tokens'
<1> SUFFICES ASSUME OciTypeOK, Tokens, [Next]_vars PROVE Tokens'
  OBVIOUS
<1>t. res \in [OCIDs -> [own : Nat, tok : Nat, gen : Nat,
                         state : LifecycleStates \cup {"NONE", "REMOVED"}]]
  BY DEF OciTypeOK
<1>u. UNCHANGED res => Tokens'
  BY TokensKept
<1>1. CASE ResourceProgresses
  <2> PICK i \in OCIDs, to \in {"CREATING", "ACTIVE", "FAILED", "DELETED", "NONE"} :
          res[i].state # "REMOVED" /\ res' = [res EXCEPT ![i].state = to]
    BY <1>1 DEF ResourceProgresses
  <2>1. \A j \in OCIDs : /\ res'[j].own = res[j].own /\ res'[j].tok = res[j].tok
                         /\ res[j].state = "REMOVED" => res'[j].state = "REMOVED"
    BY <1>t
  <2> QED
    BY <2>1, TokensKept
<1>2. CASE DeletedOutOfBand
  <2> PICK i \in OCIDs : \E tok \in {res[i].tok, 0} :
          res' = [res EXCEPT ![i] = [@ EXCEPT !.state = "REMOVED", !.tok = tok]]
    BY <1>2 DEF DeletedOutOfBand
  <2>1. /\ res'[i].state = "REMOVED" /\ res'[i].tok \in {res[i].tok, 0}
        /\ \A j \in OCIDs : j # i => res'[j] = res[j]
    BY <1>t
  <2> QED
    BY <2>1 DEF Tokens, TokenNamesOwner, TokenCreatesOne
<1>3. CASE CreateOrReadResource
  <2>1. CASE UNCHANGED ociVars
    BY <1>u, <2>1 DEF ociVars
  <2>2. ASSUME NEW i \in OCIDs, NEW state, ~TokenUsed(call.uid), state # "REMOVED",
               res' = [res EXCEPT ![i] = [own |-> call.uid, tok |-> call.uid,
                                          gen |-> call.gen, state |-> state]]
        PROVE  Tokens'
    <3>1. /\ res'[i].own = call.uid /\ res'[i].tok = call.uid
          /\ \A j \in OCIDs : j # i => res'[j] = res[j]
      BY <1>t, <2>2
    <3>2. \A j \in OCIDs : call.uid # 0 => res[j].tok # call.uid
      BY <2>2 DEF TokenUsed
    <3> QED
      BY <3>1, <3>2 DEF Tokens, TokenNamesOwner, TokenCreatesOne
  <2> QED
    BY <1>3, <2>1, <2>2 DEF CreateOrReadResource, CreateAccepted, ResourceRetryToken, NoEffect
<1>4. CASE UpdateExistingResource
  <2>1. CASE UNCHANGED ociVars
    BY <1>u, <2>1 DEF ociVars
  <2>2. CASE /\ res[call.id].state = "ACTIVE"
             /\ res' = [res EXCEPT ![call.id].gen = call.gen, ![call.id].state = "UPDATING"]
    <3>1. \A j \in OCIDs : /\ res'[j].own = res[j].own /\ res'[j].tok = res[j].tok
                           /\ res[j].state = "REMOVED" => res'[j].state = "REMOVED"
      BY <1>t, <2>2
    <3> QED
      BY <3>1, TokensKept
  <2> QED
    BY <1>4, <2>1, <2>2 DEF UpdateExistingResource, UpdateAccepted, NoEffect
<1>5. CASE InvokeDeleteOperation
  <2>1. CASE UNCHANGED ociVars
    BY <1>u, <2>1 DEF ociVars
  <2>2. CASE /\ res[call.id].state \in {"ACTIVE", "FAILED"}
             /\ res' = [res EXCEPT ![call.id].state = "DELETING"]
    <3>1. \A j \in OCIDs : /\ res'[j].own = res[j].own /\ res'[j].tok = res[j].tok
                           /\ res[j].state = "REMOVED" => res'[j].state = "REMOVED"
      BY <1>t, <2>2
    <3> QED
      BY <3>1, TokensKept
  <2> QED
    BY <1>5, <2>1, <2>2 DEF InvokeDeleteOperation, DeleteAccepted, NoEffect
<1>6. CASE UNCHANGED ociVars
  BY <1>u, <1>6 DEF ociVars
<1>7. Step => CreateOrReadResource \/ UpdateExistingResource \/ InvokeDeleteOperation
              \/ UNCHANGED ociVars
  BY DEF Step, RuntimeStep, ResolveExistingBeforeCreate, LoadLiveMutationResponse,
         FollowUpAfterWrite, ResumeWorkRequestCreateOrUpdate, CompleteWorkRequestWrite,
         ResolveDeleteID, ConfirmDeleteIfAlreadyPending, ConfirmDeleteWithSemantics,
         ResumeWorkRequestDelete, CompleteWorkRequestDelete, NoEffect
<1>8. CASE WorkRequestEnds \/ WorkRequestVanishes
  BY <1>u, <1>8 DEF WorkRequestEnds, WorkRequestVanishes
<1>9. Kubernetes \/ Restart \/ CallCreateOrUpdate \/ CallDelete \/ CreateOrUpdateReturns
      \/ DeleteReturns \/ UNCHANGED vars => UNCHANGED ociVars
  BY DEF Kubernetes, Restart, CallCreateOrUpdate, CallDelete, CreateOrUpdate, DeleteWithResult,
         CreateOrUpdateReturns, DeleteReturns, NoEffect, vars, runtimeVars
<1> QED
  BY <1>1, <1>2, <1>3, <1>4, <1>5, <1>6, <1>7, <1>8, <1>9 DEF Next, Manager, Oci

LEMMA InitTokens == Init => Tokens
<1> SUFFICES ASSUME OciInit PROVE Tokens
  BY DEF Init
<1>1. ASSUME NEW i \in OCIDs PROVE res[i].own = 0 /\ res[i].tok = 0
  BY DEF OciInit
<1> QED
  BY <1>1 DEF Tokens, TokenNamesOwner, TokenCreatesOne

-----------------------------------------------------------------------------
(* The theorems. *)

\* The status, the calls of the generated runtime and the OCI service stay
\* within their types, whatever is stale, lost or restarted.
THEOREM OperatorTypeCorrect == Spec => []TypeOK
<1>1. OInv => TypeOK
  BY DEF OInv, TypeOK, RuntimeTypeOK, CallOK, CallRecord
<1> QED
  BY <1>1, OInvInvariant, PTL

\* The generated runtime is a service manager: each of its steps is one the
\* reconciler allows every manager, or invisible to the reconciler.
THEOREM OperatorRefinesReconciler == Spec => ImplementsReconciler
<1>1. Init => R!Init
  BY DEF Init
<1>2. OInv /\ [Next]_vars => [ReconcilerStep]_reconcilerVars
  BY StepRefines DEF OInv
<1> QED
  BY <1>1, <1>2, OInvInvariant, PTL DEF Spec, ImplementsReconciler

\* What holds of the reconciler with every service manager holds with the
\* generated runtime: the finalizer stays, CreateOrUpdate runs on the guarded
\* object only, and no wake-up is lost.
THEOREM OperatorKeepsReconcilerSafe ==
    Spec => [](R!FinalizerRetention /\ R!CreateOnGuardedObject /\ R!NoLostWakeup)
<1>1. R!Init => RP!Init
  BY SameInit
<1>2. [ReconcilerStep]_reconcilerVars => [RP!Next]_(RP!vars)
  BY NamedStep, SameReconcilerVars, SameNext, SameVars
<1>3. ImplementsReconciler => RP!Spec
  BY <1>1, <1>2, PTL DEF ImplementsReconciler, RP!Spec
<1>4. RP!Spec => [](RP!FinalizerRetention /\ RP!CreateOnGuardedObject /\ RP!NoLostWakeup)
  BY RP!FinalizerIsRetained, RP!CreateIsGuarded, RP!NoWakeupIsLost, StatusFits, BoundsFit, PTL
<1>5. RP!FinalizerRetention /\ RP!CreateOnGuardedObject /\ RP!NoLostWakeup
      => R!FinalizerRetention /\ R!CreateOnGuardedObject /\ R!NoLostWakeup
  BY Zenon DEF R!FinalizerRetention, R!CreateOnGuardedObject, R!NoLostWakeup,
               R!WakeupPending, R!ReconcilePredicate, R!Api,
               RP!FinalizerRetention, RP!CreateOnGuardedObject, RP!NoLostWakeup,
               RP!WakeupPending, RP!ReconcilePredicate, RP!Api
<1> QED
  BY <1>3, <1>4, <1>5, OperatorRefinesReconciler, PTL

\* The retry token: creates that are repeated after lost responses, stale
\* reads and restarts never make a second resource for an incarnation, unless
\* somebody else deletes the first one.
THEOREM NoDuplicateCreated == Spec => []NoDuplicate
<1>1. OInv /\ Tokens /\ [Next]_vars => Tokens'
  BY TokensInductive DEF OInv
<1>2. Spec => []Tokens
  BY <1>1, InitTokens, OInvInvariant, PTL DEF Spec
<1>3. Tokens => NoDuplicate
  BY DEF Tokens, TokenNamesOwner, TokenCreatesOne, NoDuplicate
<1> QED
  BY <1>2, <1>3, PTL

-----------------------------------------------------------------------------
(* What the reconciler carries from call to call. *)

\* The reconciler's own invariants hold with the generated runtime.
LEMMA ReconcilerInductive ==
    ASSUME CallOK, RP!IInv, RP!UidBounded, [Next]_vars
    PROVE  RP!IInv' /\ RP!UidBounded'
<1>1. [R!Next]_(R!vars)
  BY StepRefines, NamedStep, SameReconcilerVars
<1>2. [RP!Next]_(RP!vars)
  BY <1>1, SameNext, SameVars
<1> QED
  BY <1>2, StatusFits, BoundsFit, RP!IInvInductive, RP!BoundedInductive

\* The versions of the object, and the one the reconciler holds, have a status
\* in S, and an object that exists has a uid.
LogIn(S) == \A k \in 1 .. Len(log) : log[k].st \in S /\ (log[k].ex => log[k].uid # 0)

CarriedIn(S) == LogIn(S) /\ obj.st \in S

\* S is a set of statuses that patches do not leave.
ClosedUnderPatch(S) ==
    /\ S \subseteq OSOKStatus /\ NoStatus \in S
    /\ \A a \in S, b \in OSOKStatus, c \in S : MergeFrom(a, b, c) \in S

LEMMA StoredIn ==
    ASSUME NEW S, ClosedUnderPatch(S), RP!IInv, LogIn(S), R!Room,
           NEW v \in RP!Version, R!Store(v), v.st \in S, v.ex => v.uid # 0
    PROVE  \A k \in 1 .. Len(log') : log'[k].st \in S /\ (log'[k].ex => log'[k].uid # 0)
<1>1. RP!TypeOK /\ RP!Room /\ RP!Store(v)
  BY DEF RP!IInv, R!Room, RP!Room, R!Store, RP!Store, R!Gone, RP!Gone
<1>2. /\ Len(log') = Len(log) + 1 /\ \A i \in 1 .. Len(log) : log'[i] = log[i]
      /\ RP!Api' = RP!Stored(v)
  BY <1>1, StatusFits, BoundsFit, RP!StoreEffect
<1>3. log'[Len(log')] = RP!Stored(v) /\ Len(log) \in Nat
  BY <1>1, <1>2, RP!VersionsInLog, StatusFits, BoundsFit DEF RP!Api
<1>4. RP!Stored(v).st \in S /\ (RP!Stored(v).ex => RP!Stored(v).uid # 0)
  BY DEF RP!Stored, RP!Gone, ClosedUnderPatch
<1>5. \A k \in 1 .. Len(log') : k \in 1 .. Len(log) \/ k = Len(log')
  BY <1>2, <1>3
<1> QED
  BY <1>2, <1>3, <1>4, <1>5 DEF LogIn

LEMMA KubernetesCarries ==
    ASSUME NEW S, ClosedUnderPatch(S), RP!IInv, CarriedIn(S),
           Kubernetes \/ Restart
    PROVE  /\ \A k \in 1 .. Len(log') : log'[k].st \in S /\ (log'[k].ex => log'[k].uid # 0)
           /\ obj'.st \in S
<1> DEFINE LogGoal == \A k \in 1 .. Len(log') :
                         log'[k].st \in S /\ (log'[k].ex => log'[k].uid # 0)
           Goal == LogGoal /\ obj'.st \in S
<1> SUFFICES Goal
  OBVIOUS
<1>t. /\ RP!TypeOK /\ R!Api = RP!Api /\ R!Cached = RP!Cached
      /\ RP!Api \in RP!Version /\ RP!Cached \in RP!Version /\ obj \in RP!Version
      /\ old \in OSOKStatus /\ Len(log) \in Nat /\ Len(log) >= 1 /\ log \in Seq(RP!Version)
  BY RP!VersionsInLog, StatusFits, BoundsFit
     DEF RP!IInv, RP!TypeOK, R!Api, RP!Api, R!Cached, RP!Cached
<1>a. R!Api.st \in S /\ (R!Api.ex => R!Api.uid # 0) /\ obj.st \in S
  BY <1>t DEF CarriedIn, LogIn, RP!Api
<1>c. R!Cached.st \in S
  BY <1>t DEF CarriedIn, LogIn, RP!Cached
<1>n. NoStatus \in S
  BY DEF ClosedUnderPatch
<1>s. ASSUME NEW v \in RP!Version, R!Room, R!Store(v), v.st \in S, v.ex => v.uid # 0
      PROVE  LogGoal
  BY <1>s, StoredIn DEF CarriedIn
<1>u. UNCHANGED log => LogGoal
  BY DEF CarriedIn, LogIn
<1>f. \A b : R!Finish(b) => obj'.st \in S
  BY <1>n DEF R!Finish, R!Gone
<1>e. [R!Api EXCEPT !.fin = FALSE] \in RP!Version
  BY <1>t DEF RP!Version
<1> HIDE DEF LogGoal
<1>1. CASE R!UserCreate
  <2> PICK e \in BOOLEAN :
         R!StoreByOther([ex |-> TRUE, uid |-> R!Api.uid + 1, gen |-> 1, fin |-> FALSE,
                         ext |-> e, del |-> FALSE, st |-> NoStatus])
    BY <1>1 DEF R!UserCreate
  <2> DEFINE v == [ex |-> TRUE, uid |-> R!Api.uid + 1, gen |-> 1, fin |-> FALSE,
                   ext |-> e, del |-> FALSE, st |-> NoStatus]
  <2>1. R!Room /\ R!Store(v) /\ UNCHANGED obj
    BY <1>1 DEF R!UserCreate, R!StoreByOther
  <2>0. R!Api.uid \in Nat
    BY <1>t DEF RP!Version
  <2>2. v \in RP!Version /\ v.uid = R!Api.uid + 1 /\ v.st = NoStatus
    BY <2>0, MergeFromIsStatus DEF RP!Version
  <2> HIDE DEF v
  <2>3. v.uid # 0
    BY <2>0, <2>2
  <2> QED
    BY <1>a, <1>n, <1>s, <2>1, <2>2, <2>3
<1>2. CASE R!UserEditSpec \/ R!UserDelete
  <2>1. PICK del \in BOOLEAN : R!StoreByOther([R!Api EXCEPT !.del = del, !.gen = @ + 1])
    <3>1. CASE R!UserEditSpec
      <4>1. [R!Api EXCEPT !.gen = @ + 1] = [R!Api EXCEPT !.del = R!Api.del, !.gen = @ + 1]
        BY <1>t DEF RP!Version
      <4>2. R!Api.del \in BOOLEAN
        BY <1>t DEF RP!Version
      <4> QED
        BY <3>1, <4>1, <4>2 DEF R!UserEditSpec
    <3>2. CASE R!UserDelete
      BY <3>2 DEF R!UserDelete
    <3> QED
      BY <1>2, <3>1, <3>2
  <2> DEFINE v == [R!Api EXCEPT !.del = del, !.gen = @ + 1]
  <2>g. R!Api.gen + 1 \in Nat
    BY <1>t DEF RP!Version
  <2>2. v \in RP!Version /\ v.uid = R!Api.uid /\ v.st = R!Api.st /\ v.ex = R!Api.ex
    BY <1>t, <2>g DEF RP!Version
  <2>3. R!Room /\ R!Store(v) /\ UNCHANGED obj
    BY <1>2, <2>1 DEF R!StoreByOther, R!UserEditSpec, R!UserDelete
  <2> HIDE DEF v
  <2> QED
    BY <1>a, <1>s, <2>2, <2>3
<1>3. CASE R!Deliver
  <2>1. log' = Tail(log) /\ Len(log) > 1 /\ UNCHANGED obj
    BY <1>3 DEF R!Deliver
  <2>2. /\ Len(log') = Len(log) - 1
        /\ \A k \in 1 .. Len(log) - 1 : log'[k] = log[k + 1]
    BY <1>t, <2>1
  <2>3. \A k \in 1 .. Len(log') : k + 1 \in 1 .. Len(log) /\ log'[k] = log[k + 1]
    BY <1>t, <2>2
  <2> QED
    BY <1>a, <2>1, <2>3 DEF LogGoal, CarriedIn, LogIn
<1>4. CASE R!AddFinalizer
  <2> DEFINE v == [obj EXCEPT !.fin = TRUE]
  <2>1. R!UpdateAccepted(v) /\ R!Store(v) /\ R!CallCreateOrUpdate(v) /\ pc = "addFinalizer"
    BY <1>4 DEF R!AddFinalizer
  <2>2. R!Room /\ RP!Api.ex /\ RP!Api.uid = obj.uid
    BY <2>1 DEF R!UpdateAccepted, RP!IInv, RP!HeldIsStored
  <2>3. v \in RP!Version /\ v.uid = obj.uid /\ v.st = obj.st
    BY <1>t DEF RP!Version
  <2>4. obj' = v
    BY <2>1 DEF R!CallCreateOrUpdate
  <2> HIDE DEF v
  <2> QED
    BY <1>a, <1>t, <1>s, <2>1, <2>2, <2>3, <2>4
<1>5. CASE R!PatchStatus \/ R!PatchDeleteStatus
  <2>1. obj'.st \in S
    BY <1>5, <1>f DEF R!PatchStatus, R!PatchDeleteStatus
  <2>2. CASE UNCHANGED log
    BY <1>u, <2>1, <2>2
  <2>3. CASE R!PatchApplied /\ ~UNCHANGED log
    <3> DEFINE st == MergeFrom(R!Api.st, old, obj.st)
               v == [R!Api EXCEPT !.st = st]
    <3>1. st \in S /\ st \in OSOKStatus
      BY <1>a, <1>t DEF ClosedUnderPatch
    <3>2. R!Room /\ R!Store(v)
      BY <2>3 DEF R!PatchApplied
    <3> HIDE DEF st
    <3>3. v \in RP!Version /\ v.uid = R!Api.uid /\ v.st = st /\ v.ex = R!Api.ex
      BY <1>t, <3>1 DEF RP!Version
    <3> HIDE DEF v
    <3> QED
      BY <1>a, <1>s, <2>1, <3>1, <3>2, <3>3
  <2> QED
    BY <1>5, <2>2, <2>3 DEF R!PatchStatus, R!PatchDeleteStatus
<1>6. CASE R!RemoveFinalizer
  <2> DEFINE v == [R!Api EXCEPT !.fin = FALSE]
  <2>1. R!Room /\ R!Store(v) /\ obj'.st \in S
    BY <1>6, <1>f DEF R!RemoveFinalizer, R!UpdateAccepted
  <2>2. v \in RP!Version /\ v.uid = R!Api.uid /\ v.st = R!Api.st /\ v.ex = R!Api.ex
    BY <1>t, <1>e DEF RP!Version
  <2> HIDE DEF v
  <2> QED
    BY <1>a, <1>s, <2>1, <2>2
<1>7. CASE Restart
  <2>1. log' = <<R!Api>> /\ obj' = R!Gone(0)
    BY <1>7 DEF Restart, R!Restart
  <2>2. Len(log') = 1 /\ log'[1] = R!Api
    BY <2>1
  <2> QED
    BY <1>a, <1>n, <2>1, <2>2 DEF LogGoal, R!Gone
<1>8. CASE R!TimerFires \/ R!FinalizerUpdateFails
  BY <1>8, <1>a, <1>u, <1>f DEF R!TimerFires, R!FinalizerUpdateFails, R!apiVars
<1>9. CASE R!Start
  <2>1. UNCHANGED log /\ (UNCHANGED obj \/ obj' = R!Cached)
    BY <1>9 DEF R!Start, R!apiVars, R!CallCreateOrUpdate
  <2> QED
    BY <1>a, <1>c, <1>u, <2>1
<1> QED
  BY <1>1, <1>2, <1>3, <1>4, <1>5, <1>6, <1>7, <1>8, <1>9
     DEF Kubernetes, Users, R!Controller

-----------------------------------------------------------------------------
(* The leaves of a status. *)

\* A status that tracks no work request.
Untracked == {st \in OSOKStatus : st.async.wr = 0}

LEMMA ApplyLeaves ==
    ASSUME NEW st \in OSOKStatus, NEW cur \in AsyncOperation
    PROVE  /\ ApplyAsyncOperation(st, cur).ocid = st.ocid
           /\ ApplyAsyncOperation(st, cur).reason =
                 ProjectAsyncCondition(cur.class, cur.phase).condition
           /\ cur.wr = 0 /\ st \in Untracked => ApplyAsyncOperation(st, cur) \in Untracked
<1> DEFINE wr == IF cur.wr # 0 THEN cur.wr ELSE PreservedInFlightWorkRequestID(st.async, cur)
           op == [cur EXCEPT !.wr = wr]
           reason == ProjectAsyncCondition(cur.class, cur.phase).condition
<1>1. op.wr = wr
  BY DEF AsyncOperation
<1>2. ApplyAsyncOperation(st, cur) = [st EXCEPT !.reason = reason, !.async = op]
  BY DEF ApplyAsyncOperation
<1>3. cur.wr = 0 /\ st.async.wr = 0 => wr = 0
  BY DEF PreservedInFlightWorkRequestID
<1> HIDE DEF op, reason, wr
<1>4. ApplyAsyncOperation(st, cur).async = op /\ ApplyAsyncOperation(st, cur).reason = reason
  BY <1>2 DEF OSOKStatus
<1> QED
  BY <1>1, <1>3, <1>4, ApplyType DEF Untracked, reason

LEMMA MarkLeaves ==
    ASSUME NEW st \in OSOKStatus
    PROVE  /\ MarkFailure(st).ocid = st.ocid /\ MarkFailure(st).reason = "Failed"
           /\ MarkDeleted(st).ocid = st.ocid /\ MarkTerminating(st).ocid = st.ocid
           /\ st \in Untracked =>
                 {MarkFailure(st), MarkDeleted(st), MarkTerminating(st)} \subseteq Untracked
<1>0. st.async \in AsyncOperation
  BY DEF OSOKStatus
<1>1. /\ MarkFailure(st).ocid = st.ocid /\ MarkFailure(st).reason = "Failed"
      /\ st \in Untracked => MarkFailure(st) \in Untracked
  <2> DEFINE cur == [st.async EXCEPT !.class = "failed"]
  <2>1. cur \in AsyncOperation /\ cur.class = "failed" /\ cur.wr = st.async.wr
    BY <1>0 DEF AsyncOperation, Classes
  <2>2. MarkFailure(st) = IF st.async = NoAsync THEN [st EXCEPT !.reason = "Failed"]
                          ELSE ApplyAsyncOperation(st, cur)
    BY DEF MarkFailure
  <2> HIDE DEF cur
  <2>3. ProjectAsyncCondition(cur.class, cur.phase).condition = "Failed"
    BY <2>1 DEF ProjectAsyncCondition
  <2>4. /\ [st EXCEPT !.reason = "Failed"].ocid = st.ocid
        /\ [st EXCEPT !.reason = "Failed"].reason = "Failed"
        /\ st \in Untracked => [st EXCEPT !.reason = "Failed"] \in Untracked
    BY DEF OSOKStatus, Untracked, Conditions
  <2> QED
    BY <2>1, <2>2, <2>3, <2>4, ApplyLeaves DEF Untracked
<1>2. MarkDeleted(st).ocid = st.ocid /\ MarkDeleted(st) \in Untracked
  <2>1. MarkDeleted(st).ocid = st.ocid /\ MarkDeleted(st).async = NoAsync
    BY DEF MarkDeleted, ClearAsyncOperation, OSOKStatus
  <2>2. NoAsync.wr = 0 /\ MarkDeleted(st) \in OSOKStatus
    BY MarkType DEF NoAsync
  <2> QED
    BY <2>1, <2>2 DEF Untracked
<1>3. /\ MarkTerminating(st).ocid = st.ocid
      /\ st \in Untracked => MarkTerminating(st) \in Untracked
  <2>1. [source |-> "lifecycle", phase |-> "delete", wr |-> 0, class |-> "pending"]
           \in AsyncOperation
    BY DEF AsyncOperation, Phases, Classes
  <2> QED
    BY <2>1, ApplyLeaves DEF MarkTerminating
<1> QED
  BY <1>1, <1>2, <1>3

LEMMA WorkRequestLeaves ==
    ASSUME NEW st \in OSOKStatus, NEW phase \in Phases, NEW wr \in WorkRequestIDs \cup {0},
           NEW class \in Classes
    PROVE  /\ SetWorkRequestOperation(st, phase, wr, class).ocid = st.ocid
           /\ SeedOpeningWorkRequestID(st, phase, wr).ocid = st.ocid
<1> DEFINE op(c) == [source |-> "workrequest", phase |-> phase, wr |-> wr, class |-> c]
<1>1. op(class) \in AsyncOperation /\ op("pending") \in AsyncOperation
  BY DEF AsyncOperation, Classes
<1>2. /\ SetWorkRequestOperation(st, phase, wr, class) = ApplyAsyncOperation(st, op(class))
      /\ SeedOpeningWorkRequestID(st, phase, wr) = ApplyAsyncOperation(st, op("pending"))
  BY DEF SetWorkRequestOperation, SeedOpeningWorkRequestID
<1> HIDE DEF op
<1> QED
  BY <1>1, <1>2, ApplyLeaves

\* Observing a resource leaves Active only when it is ACTIVE, and no work request.
LEMMA ObservedLeaves ==
    ASSUME NEW st \in OSOKStatus, NEW id \in OCIDs \cup {0},
           NEW state \in LifecycleStates \ {"ACCEPTED"}, NEW fallbackPhase \in Phases \cup {""}
    PROVE  /\ ApplySuccess(st, id, state, fallbackPhase).reason = "Active" => state = "ACTIVE"
           /\ st \in Untracked => ApplySuccess(st, id, state, fallbackPhase) \in Untracked
<1> DEFINE tracked == [st EXCEPT !.ocid = id]
           op == ClassifyLifecycle(tracked, state, fallbackPhase)
           phase == IF fallbackPhase # "" THEN fallbackPhase ELSE tracked.async.phase
           cleared == [ClearAsyncOperation(tracked) EXCEPT
                         !.reason = IF state = "FAILED" THEN "Failed" ELSE "Active"]
<1>1. tracked \in OSOKStatus /\ tracked.async = st.async
  BY DEF OSOKStatus
<1>2. NoAsync \in AsyncOperation /\ NoAsync.wr = 0
  BY DEF NoAsync, AsyncOperation
<1>3. phase \in Phases \cup {""}
  BY <1>1 DEF OSOKStatus, AsyncOperation
<1>4. ApplySuccess(st, id, state, fallbackPhase) =
        IF op # NoAsync THEN ApplyAsyncOperation(tracked, op) ELSE cleared
  BY DEF ApplySuccess
<1>5. \/ op = NoAsync /\ state \in {"ACTIVE", "FAILED"}
      \/ /\ op \in AsyncOperation /\ op.wr = 0
         /\ op.class \in {"pending", "unknown"} \/ (op.class = "succeeded" /\ op.phase = "delete")
  <2>1. {"create", "update", "delete"} = Phases
        /\ {"pending", "succeeded", "failed", "unknown"} = Classes
    BY DEF Phases, Classes
  <2> QED
    BY <1>3, <2>1 DEF ClassifyLifecycle, LifecycleStates, AsyncOperation
<1> HIDE DEF op, tracked
<1>6. /\ cleared \in OSOKStatus /\ cleared.async = NoAsync
      /\ cleared.reason = (IF state = "FAILED" THEN "Failed" ELSE "Active")
  BY <1>1, <1>2 DEF ClearAsyncOperation, OSOKStatus, Conditions
<1>7. CASE op = NoAsync
  <2>1. ApplySuccess(st, id, state, fallbackPhase) = cleared
    BY <1>4, <1>7
  <2>2. state \in {"ACTIVE", "FAILED"} \/ NoAsync.class \in {"pending", "unknown", "succeeded"}
    BY <1>5, <1>7
  <2> HIDE DEF cleared
  <2> QED
    BY <1>2, <1>6, <2>1, <2>2 DEF Untracked, NoAsync
<1>8. CASE op # NoAsync
  <2>1. ApplySuccess(st, id, state, fallbackPhase) = ApplyAsyncOperation(tracked, op)
    BY <1>4, <1>8
  <2>2. op \in AsyncOperation /\ op.wr = 0
    BY <1>5, <1>8
  <2>3. ProjectAsyncCondition(op.class, op.phase).condition # "Active"
    BY <1>5, <1>8 DEF ProjectAsyncCondition, ConditionForAsyncPhase
  <2>4. st \in Untracked => tracked \in Untracked
    BY <1>1 DEF Untracked
  <2> QED
    BY <1>1, <2>1, <2>2, <2>3, <2>4, ApplyLeaves
<1> QED
  BY <1>7, <1>8

-----------------------------------------------------------------------------
(* What a step does to the resources and the work requests. *)

\* No resource is created: none comes back, and one keeps its owner.  Only an
\* accepted Update changes the spec of one.
ResKept ==
    \A i \in OCIDs :
        /\ res'[i].own = res[i].own
        /\ Remaining(i)' => Remaining(i)
        /\ res[i].state \in {"NONE", "REMOVED"} => res'[i].state = res[i].state
        /\ res'[i].state = "ACCEPTED" => res[i].state = "ACCEPTED"
        /\ \/ res'[i].gen = res[i].gen
           \/ At("update") /\ i = call.id /\ res'[i].gen = call.gen

ResCreated(i) ==
    /\ At("create") /\ res[i].own = 0
    /\ res'[i].own = call.uid /\ res'[i].gen = call.gen
    /\ res'[i].state = IF HidesNew THEN "ACCEPTED" ELSE "CREATING"
    /\ \A j \in OCIDs : j # i => res'[j] = res[j]

WrsKept ==
    \A w \in WorkRequestIDs :
        /\ wrs'[w].res # wrs[w].res => wrs'[w].res \in OCIDs /\ res'[wrs'[w].res].own # 0
        /\ wrs'[w].status = "UNKNOWN" => wrs[w].status = "UNKNOWN" \/ WorkRequestsVanish

LEMMA SameService == UNCHANGED ociVars => ResKept /\ WrsKept
  BY DEF ociVars, ResKept, WrsKept, Remaining

\* A resource that exists belongs to an incarnation CreateOrUpdate was called on.
Owners ==
    \A i \in OCIDs :
        /\ res[i].state # "NONE" => res[i].own # 0
        /\ res[i].own # 0 => res[i].own \in touched

LEMMA OpenedFor ==
    ASSUME OciTypeOK, NEW phase, NEW i \in OCIDs, NEW w, OpenWorkRequest(phase, i, w),
           res'[i].own # 0
    PROVE  WrsKept
<1>1. CASE phase \in WorkRequests
  <2>1. /\ w \in WorkRequestIDs
        /\ wrs' = [wrs EXCEPT ![w] = [phase |-> phase, res |-> i, status |-> "IN_PROGRESS"]]
    BY <1>1 DEF OpenWorkRequest, NextFree
  <2>2. \A v \in WorkRequestIDs : \/ wrs'[v] = wrs[v]
                                  \/ wrs'[v].res = i /\ wrs'[v].status = "IN_PROGRESS"
    BY <2>1 DEF OciTypeOK
  <2> QED
    BY <2>2 DEF WrsKept
<1>2. CASE phase \notin WorkRequests
  BY <1>2 DEF OpenWorkRequest, WrsKept
<1> QED
  BY <1>1, <1>2

LEMMA OciKept ==
    ASSUME OciTypeOK, Oci \/ DeletedOutOfBand
    PROVE  ResKept /\ WrsKept
<1>t. res \in [OCIDs -> [own : Nat, tok : Nat, gen : Nat,
                         state : LifecycleStates \cup {"NONE", "REMOVED"}]]
  BY DEF OciTypeOK
<1>1. CASE ResourceProgresses
  <2> PICK i \in OCIDs, to \in {"CREATING", "ACTIVE", "FAILED", "DELETED", "NONE"} :
          /\ res[i].state \in {"ACCEPTED", "CREATING", "UPDATING", "DELETING"}
             \/ (res[i].state = "DELETED" /\ to = "NONE")
          /\ res' = [res EXCEPT ![i].state = to]
    BY <1>1 DEF ResourceProgresses
  <2>1. /\ res'[i].own = res[i].own /\ res'[i].gen = res[i].gen /\ res'[i].state = to
        /\ \A j \in OCIDs : j # i => res'[j] = res[j]
    BY <1>t
  <2>2. UNCHANGED wrs
    BY <1>1 DEF ResourceProgresses
  <2> QED
    BY <2>1, <2>2 DEF ResKept, WrsKept, Remaining
<1>2. CASE DeletedOutOfBand
  <2> PICK i \in OCIDs : \E tok \in {res[i].tok, 0} :
          /\ res[i].state \in {"ACTIVE", "FAILED"}
          /\ res' = [res EXCEPT ![i] = [@ EXCEPT !.state = "REMOVED", !.tok = tok]]
    BY <1>2 DEF DeletedOutOfBand
  <2>1. /\ res'[i].own = res[i].own /\ res'[i].gen = res[i].gen /\ res'[i].state = "REMOVED"
        /\ res[i].state \in {"ACTIVE", "FAILED"}
        /\ \A j \in OCIDs : j # i => res'[j] = res[j]
    BY <1>t
  <2>2. UNCHANGED wrs
    BY <1>2 DEF DeletedOutOfBand
  <2> QED
    BY <2>1, <2>2 DEF ResKept, WrsKept, Remaining
<1>3. CASE WorkRequestEnds \/ WorkRequestVanishes
  <2>1. PICK w \in WorkRequestIDs, s \in {"FAILED", "SUCCEEDED", "UNKNOWN"} :
          /\ wrs' = [wrs EXCEPT ![w].status = s]
          /\ s = "UNKNOWN" => WorkRequestsVanish
    BY <1>3 DEF WorkRequestEnds, WorkRequestVanishes
  <2>2. \A v \in WorkRequestIDs :
          /\ wrs'[v].res = wrs[v].res
          /\ wrs'[v].status = "UNKNOWN" => wrs[v].status = "UNKNOWN" \/ WorkRequestsVanish
    BY <2>1 DEF OciTypeOK
  <2>3. UNCHANGED res
    BY <1>3 DEF WorkRequestEnds, WorkRequestVanishes
  <2> QED
    BY <2>2, <2>3 DEF ResKept, WrsKept, Remaining
<1> QED
  BY <1>1, <1>2, <1>3 DEF Oci

LEMMA WriteKept ==
    ASSUME OciTypeOK, Owners, call.id \in OCIDs, NEW w,
           \/ At("update") /\ UpdateAccepted(call.id, call.gen, w)
           \/ DeleteAccepted(call.id, w)
    PROVE  ResKept /\ WrsKept
<1>t. res \in [OCIDs -> [own : Nat, tok : Nat, gen : Nat,
                         state : LifecycleStates \cup {"NONE", "REMOVED"}]]
  BY DEF OciTypeOK
<1>1. CASE At("update") /\ UpdateAccepted(call.id, call.gen, w)
  <2>1. /\ res'[call.id].own = res[call.id].own /\ res'[call.id].gen = call.gen
        /\ res'[call.id].state = "UPDATING" /\ res[call.id].state = "ACTIVE"
        /\ \A j \in OCIDs : j # call.id => res'[j] = res[j]
    BY <1>t, <1>1 DEF UpdateAccepted
  <2>2. ResKept
    BY <1>1, <2>1 DEF ResKept, Remaining
  <2>3. res'[call.id].own # 0 /\ OpenWorkRequest("update", call.id, w)
    BY <1>1, <2>1 DEF Owners, UpdateAccepted
  <2> QED
    BY <2>2, <2>3, OpenedFor
<1>2. CASE DeleteAccepted(call.id, w)
  <2>1. /\ res'[call.id].own = res[call.id].own /\ res'[call.id].gen = res[call.id].gen
        /\ res'[call.id].state = "DELETING" /\ res[call.id].state \in {"ACTIVE", "FAILED"}
        /\ \A j \in OCIDs : j # call.id => res'[j] = res[j]
    BY <1>t, <1>2 DEF DeleteAccepted
  <2>2. ResKept
    BY <2>1 DEF ResKept, Remaining
  <2>3. res'[call.id].own # 0 /\ OpenWorkRequest("delete", call.id, w)
    BY <1>2, <2>1 DEF Owners, DeleteAccepted
  <2> QED
    BY <2>2, <2>3, OpenedFor
<1> QED
  BY <1>1, <1>2

\* The steps of a call, and the ones that are about one resource.
WritingSteps == {"resolve", "liveGet", "create", "update", "followUp", "pollWrite",
                 "readWrite", "written"}
DeletingSteps == {"resolveDelete", "confirmPending", "invokeDelete", "confirmDelete",
                  "pollDelete", "readDelete", "deleted"}
AimedSteps == {"liveGet", "update", "confirmPending", "invokeDelete", "confirmDelete"}

\* A call is made by the reconcile, on the object that this holds.
CallInStep ==
    /\ call.step \in WritingSteps =>
          pc = "createOrUpdate" /\ call.uid = obj.uid /\ call.gen = obj.gen
    /\ call.step \in DeletingSteps => pc = "delete" /\ call.uid = obj.uid
    /\ call.step \in AimedSteps => call.id # 0

LEMMA CreateService ==
    ASSUME OciTypeOK, NEW i \in OCIDs, NEW w, At("create"), call.uid # 0,
           CreateAccepted(call.uid, ResourceRetryToken(call.uid), call.gen, i, w)
    PROVE  /\ WrsKept
           /\ \/ ResKept /\ UNCHANGED res /\ TokenUsed(call.uid)
                 /\ res[i].tok = call.uid /\ res[i].gen = call.gen /\ Remaining(i)
              \/ ResCreated(i)
<1>t. res \in [OCIDs -> [own : Nat, tok : Nat, gen : Nat,
                         state : LifecycleStates \cup {"NONE", "REMOVED"}]]
  BY DEF OciTypeOK
<1>1. CASE /\ TokenUsed(call.uid) /\ UNCHANGED ociVars
           /\ res[i].tok = call.uid /\ res[i].gen = call.gen /\ Remaining(i)
  BY <1>1, SameService DEF ociVars
<1>2. CASE /\ i \in NextFree(OCIDs, LAMBDA x : res[x].own # 0)
           /\ res' = [res EXCEPT ![i] = [own |-> call.uid, tok |-> call.uid,
                                         gen |-> call.gen, state |->
                                         IF HidesNew THEN "ACCEPTED" ELSE "CREATING"]]
           /\ OpenWorkRequest("create", i, w)
  <2>1. res[i].own = 0
    BY <1>2 DEF NextFree
  <2>2. res'[i] = [own |-> call.uid, tok |-> call.uid, gen |-> call.gen, state |->
                   IF HidesNew THEN "ACCEPTED" ELSE "CREATING"]
        /\ \A j \in OCIDs : j # i => res'[j] = res[j]
    BY <1>t, <1>2
  <2>3. ResCreated(i)
    BY <2>1, <2>2 DEF ResCreated
  <2>4. WrsKept
    BY <1>2, <2>2, OpenedFor
  <2> QED
    BY <2>3, <2>4
<1> QED
  BY <1>1, <1>2 DEF CreateAccepted, ResourceRetryToken

-----------------------------------------------------------------------------
(* Where OCIDs come from. *)

\* The resources that were created, or none, and the statuses that name them.
Known == {i \in OCIDs : res[i].own # 0} \cup {0}

Named == {st \in OSOKStatus : st.ocid \in Known}

\* Every OCID in a status, in a call or in a work request is one that OCI gave
\* to a resource.
KnownOCIDs ==
    /\ CarriedIn(Named)
    /\ call.st \in Named /\ call.id \in Known
    /\ \A w \in WorkRequestIDs : wrs[w].res \in Known

ServiceStep == WrsKept /\ (ResKept \/ \E i \in OCIDs : ResCreated(i))

LEMMA KnownGrows ==
    ASSUME ServiceStep, At("create") => call.uid # 0
    PROVE  Known \subseteq Known' /\ Named \subseteq Named'
<1>1. ASSUME NEW i \in OCIDs, res[i].own # 0 PROVE res'[i].own # 0
  <2>1. CASE ResKept
    BY <1>1, <2>1 DEF ResKept
  <2>2. ASSUME NEW j \in OCIDs, ResCreated(j) PROVE res'[i].own # 0
    BY <1>1, <2>2 DEF ResCreated
  <2> QED
    BY <2>1, <2>2 DEF ServiceStep
<1>2. Known \subseteq Known'
  BY <1>1 DEF Known
<1> QED
  BY <1>2 DEF Named

LEMMA NamedClosed == ClosedUnderPatch(Named)
<1>1. NoStatus \in Named
  BY MergeFromIsStatus DEF Named, Known, NoStatus
<1>2. ASSUME NEW a \in Named, NEW b \in OSOKStatus, NEW c \in Named
      PROVE  MergeFrom(a, b, c) \in Named
  <2>1. MergeFrom(a, b, c) \in OSOKStatus
    BY MergeFromIsStatus DEF Named
  <2>2. MergeFrom(a, b, c).ocid \in {a.ocid, c.ocid}
    BY DEF MergeFrom
  <2> QED
    BY <2>1, <2>2 DEF Named
<1> QED
  BY <1>1, <1>2 DEF ClosedUnderPatch, Named

LEMMA ReadableKnown ==
    ASSUME Owners, NEW id \in OCIDs \cup {0}
    PROVE  /\ Readable(id) => id \in Known /\ id # 0
           /\ \A phase : \A i \in ListMatches(phase) : i \in Known /\ i # 0
           /\ \A phase : \A i \in Matches(phase, id) : i \in Known /\ i # 0
<1>1. \A i \in OCIDs \cup {0} : Readable(i) => i \in Known /\ i # 0
  BY DEF Readable, Owners, Known
<1>2. \A phase : \A i \in ListMatches(phase) : i \in OCIDs /\ Readable(i)
  BY DEF ListMatches
<1> QED
  BY <1>1, <1>2 DEF Matches

\* The call goes on with step s, status st and resource id.
Keeps(s, st, id) ==
    /\ call'.step = s /\ call'.st = st /\ call'.id = id
    /\ call'.uid = call.uid /\ call'.gen = call.gen

LEMMA CallChanges ==
    ASSUME CallOK
    PROVE  /\ \A s, st, id : GoTo(s, st, id) => Keeps(s, st, id)
           /\ \A st : Written(st) => Keeps("written", st, 0)
           /\ Fail => Keeps("written", MarkFailure(call.st), 0)
           /\ \A st, out : Deleted(st, out) => Keeps("deleted", st, 0) /\ call'.out = out
           /\ \A phase, id, w : AfterWrite(phase, id, w) =>
                 \/ /\ phase \in WorkRequests
                    /\ Keeps("pollWrite", SeedOpeningWorkRequestID(
                          [call.st EXCEPT !.ocid = IF id # 0 THEN id ELSE @], phase, w), 0)
                 \/ /\ phase \notin WorkRequests
                    /\ Keeps("followUp", call.st, id) /\ call'.phase = phase
<1>1. call \in CallRecord
  BY DEF CallOK
<1>2. \A s, st, id : GoTo(s, st, id) => Keeps(s, st, id)
  BY <1>1 DEF GoTo, Keeps, CallRecord
<1>3. \A st : Written(st) => Keeps("written", st, 0)
  BY <1>2 DEF Written
<1>4. \A st, out : Deleted(st, out) => Keeps("deleted", st, 0) /\ call'.out = out
  BY <1>1 DEF Deleted, Keeps, CallRecord
<1>5. ASSUME NEW phase, NEW id, NEW w, AfterWrite(phase, id, w), phase \notin WorkRequests
      PROVE  Keeps("followUp", call.st, id) /\ call'.phase = phase
  BY <1>1, <1>5 DEF AfterWrite, Keeps, CallRecord
<1>6. ASSUME NEW phase, NEW id, NEW w, AfterWrite(phase, id, w), phase \in WorkRequests
      PROVE  Keeps("pollWrite", SeedOpeningWorkRequestID(
                     [call.st EXCEPT !.ocid = IF id # 0 THEN id ELSE @], phase, w), 0)
  BY <1>2, <1>6 DEF AfterWrite
<1> QED
  BY <1>2, <1>3, <1>4, <1>5, <1>6 DEF Fail

LEMMA RuntimeService ==
    ASSUME OInv, Owners, CallInStep, At("create") => call.uid # 0, RuntimeStep
    PROVE  ServiceStep
<1>i. OciTypeOK /\ CallOK /\ call.id \in OCIDs \cup {0}
  BY DEF OInv, CallOK, CallRecord
<1>u. UNCHANGED ociVars => ServiceStep
  BY SameService DEF ServiceStep
<1>1. CASE CreateOrReadResource
  BY <1>1, <1>i, <1>u, CreateService DEF CreateOrReadResource, NoEffect, ServiceStep
<1>2. CASE UpdateExistingResource
  <2>1. At("update") /\ call.id \in OCIDs
    BY <1>2, <1>i DEF UpdateExistingResource, At, CallInStep, AimedSteps
  <2> QED
    BY <1>2, <1>i, <1>u, <2>1, WriteKept DEF UpdateExistingResource, NoEffect, ServiceStep
<1>3. CASE InvokeDeleteOperation
  <2>1. call.id \in OCIDs
    BY <1>3, <1>i DEF InvokeDeleteOperation, At, CallInStep, AimedSteps
  <2>2. UNCHANGED ociVars \/ \E w \in WorkRequestIDs \cup {0} : DeleteAccepted(call.id, w)
    BY <1>3 DEF InvokeDeleteOperation, NoEffect
  <2> QED
    BY <1>i, <1>u, <2>1, <2>2, WriteKept DEF ServiceStep
<1>4. RuntimeStep => CreateOrReadResource \/ UpdateExistingResource \/ InvokeDeleteOperation
                     \/ UNCHANGED ociVars
  BY DEF RuntimeStep, ResolveExistingBeforeCreate, LoadLiveMutationResponse,
         FollowUpAfterWrite, ResumeWorkRequestCreateOrUpdate, CompleteWorkRequestWrite,
         ResolveDeleteID, ConfirmDeleteIfAlreadyPending, ConfirmDeleteWithSemantics,
         ResumeWorkRequestDelete, CompleteWorkRequestDelete, NoEffect
<1> QED
  BY <1>u, <1>1, <1>2, <1>3, <1>4

\* Each step of a call stays in the call and works on known resources.
LEMMA RuntimeKnown ==
    ASSUME OInv, Owners, CallInStep, KnownOCIDs, At("create") => call.uid # 0,
           Step
    PROVE  CallInStep' /\ call'.st \in Named' /\ call'.id \in Known'
<1> DEFINE Goal == CallInStep' /\ call'.st \in Named' /\ call'.id \in Known'
<1> SUFFICES Goal
  OBVIOUS
<1>i. /\ OciTypeOK /\ CallOK /\ StatusKept /\ RuntimeStep /\ UNCHANGED <<pc, obj>>
      /\ call.id \in OCIDs \cup {0} /\ call.st \in OSOKStatus
      /\ call.st.ocid \in OCIDs \cup {0} /\ call.phase \in Phases \cup {""}
  BY DEF OInv, CallOK, CallRecord, Step, reconcilerVars, OSOKStatus
<1>t. call'.st \in OSOKStatus
  BY <1>i, RuntimeStepOK DEF CallOK, CallRecord
<1>g. Known \subseteq Known' /\ ServiceStep
  BY <1>i, RuntimeService, KnownGrows
<1>k. 0 \in Known' /\ call.id \in Known' /\ call.st.ocid \in Known'
      /\ \A w \in WorkRequestIDs : wrs[w].res \in Known'
  BY <1>g DEF KnownOCIDs, Named, Known
<1>m. /\ MarkFailure(call.st).ocid = call.st.ocid /\ MarkDeleted(call.st).ocid = call.st.ocid
      /\ MarkTerminating(call.st).ocid = call.st.ocid
  BY <1>i, MarkLeaves
<1>e. \A i : [call.st EXCEPT !.ocid = i].ocid = i
  BY <1>i DEF OSOKStatus
<1>w. ASSUME NEW s \in WritingSteps, NEW st, NEW id \in Known', Keeps(s, st, id),
             st.ocid \in Known', call.step \in WritingSteps, s \in AimedSteps => id # 0
      PROVE  Goal
  <2>1. call'.st \in Named'
    BY <1>t, <1>w DEF Keeps, Named
  <2> QED
    BY <1>i, <1>w, <2>1 DEF Keeps, CallInStep, WritingSteps, DeletingSteps
<1>d. ASSUME NEW s \in DeletingSteps, NEW st, NEW id \in Known', Keeps(s, st, id),
             st.ocid \in Known', call.step \in DeletingSteps, s \in AimedSteps => id # 0
      PROVE  Goal
  <2>1. call'.st \in Named'
    BY <1>t, <1>d DEF Keeps, Named
  <2> QED
    BY <1>i, <1>d, <2>1 DEF Keeps, CallInStep, WritingSteps, DeletingSteps
<1>gw. ASSUME NEW s \in WritingSteps, NEW st, NEW id \in Known', GoTo(s, st, id),
              st.ocid \in Known', call.step \in WritingSteps, s \in AimedSteps => id # 0
       PROVE  Goal
  BY <1>i, <1>w, <1>gw, CallChanges
<1>gd. ASSUME NEW s \in DeletingSteps, NEW st, NEW id \in Known', GoTo(s, st, id),
              st.ocid \in Known', call.step \in DeletingSteps, s \in AimedSteps => id # 0
       PROVE  Goal
  BY <1>i, <1>d, <1>gd, CallChanges
<1>st. /\ {"update", "create", "liveGet", "readWrite"} \subseteq WritingSteps
       /\ {"confirmPending", "readDelete"} \subseteq DeletingSteps
       /\ AimedSteps \cap {"create", "readWrite", "readDelete"} = {}
  BY DEF WritingSteps, DeletingSteps, AimedSteps
<1>f. Fail /\ call.step \in WritingSteps => Goal
  BY <1>i, <1>k, <1>m, <1>w, CallChanges DEF WritingSteps, AimedSteps
<1>wr. ASSUME NEW st, Written(st), st.ocid \in Known', call.step \in WritingSteps
       PROVE  Goal
  BY <1>i, <1>k, <1>w, <1>wr, CallChanges DEF WritingSteps, AimedSteps
<1>de. ASSUME NEW st, NEW out, Deleted(st, out), st.ocid \in Known', call.step \in DeletingSteps
       PROVE  Goal
  BY <1>i, <1>k, <1>d, <1>de, CallChanges DEF DeletingSteps, AimedSteps
<1>ro. ASSUME NEW state, RequiredDeleteOutcome(state), call.step \in DeletingSteps PROVE Goal
  BY <1>k, <1>m, <1>de, <1>ro DEF RequiredDeleteOutcome
<1>rd. /\ Readable(call.id) => call.id # 0
       /\ Readable(call.st.ocid) => call.st.ocid # 0
       /\ \A phase : \A i \in ListMatches(phase) : i \in Known' /\ i # 0 /\ i \in OCIDs
       /\ \A phase : \A i \in Matches(phase, call.id) : i \in Known' /\ i # 0 /\ i \in OCIDs
  BY <1>g, <1>i, ReadableKnown, MatchesType
<1>as. /\ \A i, j \in OCIDs \cup {0}, phase \in Phases \cup {""} :
             ApplySuccess(call.st, i, res[j].state, phase).ocid = i
       /\ ApplySuccess(call.st, call.id, "CREATING", "create").ocid = call.id
  <2> DEFINE st == call.st
  <2>1. st \in OSOKStatus
    BY <1>i
  <2>2. ASSUME NEW i \in OCIDs \cup {0}, NEW state, NEW phase \in Phases \cup {""}
        PROVE  ApplySuccess(st, i, state, phase).ocid = i
    <3> HIDE DEF st
    <3> QED
      BY <2>1, ApplySuccessType
  <2>3. "create" \in Phases \cup {""} /\ call.id \in OCIDs \cup {0}
    BY <1>i DEF Phases
  <2> QED
    BY <2>2, <2>3
<1>re. ASSUME NEW i \in OCIDs, i \in Known', ReconcileExistingResource(i),
              call.step \in WritingSteps
       PROVE  Goal
  <2>0. i # 0
    BY IdentifierAssumption
  <2>1. CASE GoTo("update", [call.st EXCEPT !.ocid = i], i)
    <3> DEFINE st == [call.st EXCEPT !.ocid = i]
    <3>1. st.ocid = i /\ GoTo("update", st, i)
      BY <1>e, <2>1
    <3> HIDE DEF st
    <3> QED
      BY <1>gw, <1>re, <1>st, <2>0, <3>1
  <2>2. CASE Written(ApplySuccess(call.st, i, res[i].state, ""))
    <3>1. ApplySuccess(call.st, i, res[i].state, "").ocid = i
      BY <1>as
    <3> QED
      BY <1>wr, <1>re, <2>2, <3>1
  <2> QED
    BY <1>re, <2>1, <2>2 DEF ReconcileExistingResource
<1>p. {"create", "update", "delete"} = Phases /\ {"pending", "failed"} \subseteq Classes
  BY DEF Phases, Classes
<1>aw. ASSUME NEW phase \in Phases, NEW id \in Known', NEW w, id \in OCIDs \cup {0},
              phase \in WorkRequests => w \in WorkRequestIDs,
              AfterWrite(phase, id, w), call.step \in WritingSteps
       PROVE  Goal
  <2>1. CASE phase \in WorkRequests
    <3> DEFINE tracked == [call.st EXCEPT !.ocid = IF id # 0 THEN id ELSE @]
               st == SeedOpeningWorkRequestID(tracked, phase, w)
    <3>1. tracked \in OSOKStatus /\ tracked.ocid \in Known'
      BY <1>i, <1>k, <1>aw DEF OSOKStatus
    <3>2. Keeps("pollWrite", st, 0)
      BY <1>i, <1>aw, <2>1, CallChanges
    <3> HIDE DEF tracked
    <3>3. st.ocid = tracked.ocid
      BY <1>aw, <1>p, <2>1, <3>1, WorkRequestLeaves
    <3> HIDE DEF st
    <3> QED
      BY <1>k, <1>w, <1>aw, <3>1, <3>2, <3>3 DEF WritingSteps, AimedSteps
  <2>2. CASE phase \notin WorkRequests
    BY <1>i, <1>k, <1>w, <1>aw, <2>2, CallChanges DEF WritingSteps, AimedSteps
  <2> QED
    BY <2>1, <2>2
<1> HIDE DEF Goal
<1>1. CASE ResolveExistingBeforeCreate
  <2>0. call.step \in WritingSteps
    BY <1>1 DEF ResolveExistingBeforeCreate, At, WritingSteps
  <2>1. \/ Fail \/ GoTo("create", [call.st EXCEPT !.ocid = 0], 0)
        \/ Readable(call.st.ocid) /\ ReconcileExistingResource(call.st.ocid)
        \/ \E i \in ListMatches("create") : GoTo("liveGet", [call.st EXCEPT !.ocid = 0], i)
    BY <1>1 DEF ResolveExistingBeforeCreate
  <2>2. CASE GoTo("create", [call.st EXCEPT !.ocid = 0], 0)
    <3> DEFINE st == [call.st EXCEPT !.ocid = 0]
    <3>1. st.ocid = 0 /\ GoTo("create", st, 0)
      BY <1>e, <2>2
    <3> HIDE DEF st
    <3> QED
      BY <1>gw, <1>k, <1>st, <2>0, <3>1
  <2>3. ASSUME NEW i \in ListMatches("create"), GoTo("liveGet", [call.st EXCEPT !.ocid = 0], i)
        PROVE  Goal
    <3> DEFINE st == [call.st EXCEPT !.ocid = 0]
    <3>1. st.ocid = 0 /\ GoTo("liveGet", st, i)
      BY <1>e, <2>3
    <3> HIDE DEF st
    <3> QED
      BY <1>gw, <1>k, <1>rd, <1>st, <2>0, <3>1
  <2>4. CASE Readable(call.st.ocid) /\ ReconcileExistingResource(call.st.ocid)
    BY <1>i, <1>k, <1>rd, <1>re, <2>0, <2>4
  <2> QED
    BY <1>f, <2>0, <2>1, <2>2, <2>3, <2>4
<1>2. CASE LoadLiveMutationResponse
  <2>0. call.step \in WritingSteps
    BY <1>2 DEF LoadLiveMutationResponse, At, WritingSteps
  <2>1. CASE Readable(call.id) /\ ReconcileExistingResource(call.id)
    BY <1>i, <1>k, <1>rd, <1>re, <2>0, <2>1
  <2>2. CASE GoTo("create", call.st, 0)
    BY <1>i, <1>k, <1>w, <2>0, <2>2, CallChanges DEF WritingSteps, AimedSteps
  <2> QED
    BY <1>2, <1>f, <2>0, <2>1, <2>2 DEF LoadLiveMutationResponse
<1>3. CASE CreateOrReadResource
  <2>0. call.step \in WritingSteps /\ At("create")
    BY <1>3 DEF CreateOrReadResource, At, WritingSteps
  <2>1. ASSUME NEW i \in OCIDs, NEW w \in WorkRequestIDs \cup {0},
               CreateAccepted(call.uid, ResourceRetryToken(call.uid), call.gen, i, w),
               AfterWrite("create", IF IdInResponse THEN i ELSE 0, w)
        PROVE  Goal
    <3>1. "create" \in WorkRequests => w \in WorkRequestIDs
      <4>1. call.uid \in Nat /\ call.gen \in Nat
        BY <1>i DEF CallOK, CallRecord
      <4> QED
        BY <1>i, <2>1, <4>1, CreateAcceptedType DEF ResourceRetryToken
    <3>2. i \in Known'
      <4>1. CASE ResKept /\ UNCHANGED res /\ Remaining(i)
        <5>1. res[i].own # 0
          BY <4>1 DEF Remaining, Owners
        <5> QED
          BY <4>1, <5>1 DEF Known
      <4>2. CASE ResCreated(i)
        BY <2>0, <4>2 DEF ResCreated, Known
      <4> QED
        BY <1>i, <2>0, <2>1, <4>1, <4>2, CreateService
    <3> DEFINE id == IF IdInResponse THEN i ELSE 0
    <3>3. id \in Known' /\ id \in OCIDs \cup {0} /\ AfterWrite("create", id, w)
      BY <1>k, <2>1, <3>2
    <3> HIDE DEF id
    <3> QED
      BY <1>aw, <1>p, <2>0, <3>1, <3>3
  <2> QED
    BY <1>3, <1>f, <2>0, <2>1 DEF CreateOrReadResource
<1>4. CASE UpdateExistingResource
  <2>0. call.step \in WritingSteps
    BY <1>4 DEF UpdateExistingResource, At, WritingSteps
  <2>1. ASSUME NEW w \in WorkRequestIDs \cup {0}, UpdateAccepted(call.id, call.gen, w),
               AfterWrite("update", call.id, w)
        PROVE  Goal
    <3>1. "update" \in WorkRequests => w \in WorkRequestIDs
      <4>1. call.gen \in Nat
        BY <1>i DEF CallOK, CallRecord
      <4> QED
        BY <1>i, <2>1, <4>1, ChangeAcceptedType
    <3> QED
      BY <1>aw, <1>i, <1>k, <1>p, <2>0, <2>1, <3>1
  <2> QED
    BY <1>4, <1>f, <2>0, <2>1 DEF UpdateExistingResource
<1>5. CASE FollowUpAfterWrite
  <2>0. call.step \in WritingSteps
    BY <1>5 DEF FollowUpAfterWrite, At, WritingSteps
  <2>1. \/ Fail
        \/ Written(ApplySuccess(call.st, call.id, "CREATING", "create"))
        \/ \E i \in Matches(call.phase, call.id) :
              Written(ApplySuccess(call.st, i, res[i].state, call.phase))
    BY <1>5 DEF FollowUpAfterWrite
  <2>2. CASE Written(ApplySuccess(call.st, call.id, "CREATING", "create"))
    <3>1. ApplySuccess(call.st, call.id, "CREATING", "create").ocid = call.id
      BY <1>as
    <3> QED
      BY <1>k, <1>wr, <2>0, <2>2, <3>1
  <2>3. ASSUME NEW i \in Matches(call.phase, call.id),
               Written(ApplySuccess(call.st, i, res[i].state, call.phase))
        PROVE  Goal
    <3>1. i \in Known' /\ i \in OCIDs \cup {0} /\ call.phase \in Phases \cup {""}
      BY <1>i, <1>rd
    <3>2. ApplySuccess(call.st, i, res[i].state, call.phase).ocid = i
      BY <1>as, <3>1
    <3> QED
      BY <1>wr, <2>0, <2>3, <3>1, <3>2
  <2> QED
    BY <1>f, <2>0, <2>1, <2>2, <2>3
<1>6. CASE ResumeWorkRequestCreateOrUpdate
  <2> DEFINE st == call.st
             wr == ResolveTrackedWorkRequest(st)
             status == wrs[wr].status
  <2>0. call.step \in WritingSteps
    BY <1>6 DEF ResumeWorkRequestCreateOrUpdate, At, WritingSteps
  <2>3. wr \in WorkRequestIDs
    BY <1>6, <1>i DEF ResumeWorkRequestCreateOrUpdate, At, CallOK, Polling
  <2>4. /\ st.async.phase \in Phases
        /\ ~PhaseConflicts(st) /\ status # "UNKNOWN" =>
              Normalize(status) \in {"pending", "succeeded", "failed"}
    BY <1>i, <2>3, PolledStatus
  <2>5. \/ Fail
        \/ \E class \in {"pending", "failed"} :
              Written(SetWorkRequestOperation(st, st.async.phase, wr, class))
        \/ GoTo("readWrite", st, IF st.ocid # 0 THEN st.ocid ELSE wrs[wr].res)
    BY <1>6, <2>4 DEF ResumeWorkRequestCreateOrUpdate
  <2>6. \A class \in {"pending", "failed"} :
           SetWorkRequestOperation(st, st.async.phase, wr, class).ocid = st.ocid
    <3>1. st \in OSOKStatus /\ st.async.phase \in Phases /\ wr \in WorkRequestIDs \cup {0}
      BY <1>i, <2>3, <2>4
    <3> HIDE DEF wr, st
    <3> QED
      BY <1>p, <3>1, WorkRequestLeaves
  <2>7. CASE GoTo("readWrite", st, IF st.ocid # 0 THEN st.ocid ELSE wrs[wr].res)
    <3>1. (IF st.ocid # 0 THEN st.ocid ELSE wrs[wr].res) \in Known'
      BY <1>k, <2>3
    <3> QED
      BY <1>gw, <1>k, <1>st, <2>0, <2>7, <3>1
  <2> QED
    BY <1>f, <1>k, <1>wr, <2>0, <2>5, <2>6, <2>7
<1>7. CASE CompleteWorkRequestWrite
  <2> DEFINE st == call.st
             mark(class) == SetWorkRequestOperation(st, st.async.phase, st.async.wr, class)
  <2>0. call.step \in WritingSteps
    BY <1>7 DEF CompleteWorkRequestWrite, At, WritingSteps
  <2>1. st.async.phase \in Phases
    <3>1. ResolveTrackedWorkRequest(st) \in WorkRequestIDs
      BY <1>7, <1>i DEF CompleteWorkRequestWrite, At, CallOK, Polling
    <3> QED
      BY <1>i, <3>1, PolledStatus
  <2>2. st.async.wr \in WorkRequestIDs \cup {0}
    BY <1>i DEF OSOKStatus, AsyncOperation
  <2>3. mark("failed").ocid = st.ocid /\ mark("pending").ocid = st.ocid
    BY <1>i, <1>p, <2>1, <2>2, WorkRequestLeaves
  <2>4. \/ Written(mark("failed")) \/ Written(mark("pending"))
        \/ \E i \in Matches(st.async.phase, call.id) :
              Written(ApplySuccess(st, i, res[i].state, st.async.phase))
    BY <1>7 DEF CompleteWorkRequestWrite
  <2> HIDE DEF mark
  <2>5. CASE Written(mark("failed")) \/ Written(mark("pending"))
    BY <1>k, <1>wr, <2>0, <2>3, <2>5
  <2>6. ASSUME NEW i \in Matches(st.async.phase, call.id),
               Written(ApplySuccess(st, i, res[i].state, st.async.phase))
        PROVE  Goal
    <3>1. i \in Known' /\ i \in OCIDs \cup {0} /\ st.async.phase \in Phases \cup {""}
      BY <1>rd, <2>1
    <3>2. ApplySuccess(st, i, res[i].state, st.async.phase).ocid = i
      BY <1>as, <3>1
    <3> QED
      BY <1>wr, <2>0, <2>6, <3>1, <3>2
  <2> QED
    BY <2>4, <2>5, <2>6
<1>8. CASE ResolveDeleteID
  <2>0. call.step \in DeletingSteps
    BY <1>8 DEF ResolveDeleteID, At, DeletingSteps
  <2>1. \/ Deleted(call.st, "error") \/ Deleted(MarkDeleted(call.st), "deleted")
        \/ \E i \in ListMatches("delete") : GoTo("confirmPending", [call.st EXCEPT !.ocid = i], i)
    BY <1>8 DEF ResolveDeleteID
  <2>2. ASSUME NEW i \in ListMatches("delete"),
               GoTo("confirmPending", [call.st EXCEPT !.ocid = i], i)
        PROVE  Goal
    <3> DEFINE st == [call.st EXCEPT !.ocid = i]
    <3>1. st.ocid = i /\ GoTo("confirmPending", st, i)
      BY <1>e, <2>2
    <3> HIDE DEF st
    <3> QED
      BY <1>gd, <1>rd, <1>st, <2>0, <3>1
  <2> QED
    BY <1>de, <1>k, <1>m, <2>0, <2>1, <2>2
<1>9. CASE ConfirmDeleteIfAlreadyPending
  <2>0. call.step \in DeletingSteps /\ call.id # 0
    BY <1>9 DEF ConfirmDeleteIfAlreadyPending, At, DeletingSteps, CallInStep, AimedSteps
  <2>1. \/ Deleted(MarkDeleted(call.st), "deleted") \/ GoTo("invokeDelete", call.st, call.id)
        \/ \E state : RequiredDeleteOutcome(state)
    BY <1>9 DEF ConfirmDeleteIfAlreadyPending
  <2>2. CASE GoTo("invokeDelete", call.st, call.id)
    BY <1>i, <1>k, <1>d, <2>0, <2>2, CallChanges DEF DeletingSteps
  <2> QED
    BY <1>de, <1>k, <1>m, <1>ro, <2>0, <2>1, <2>2
<1>10. CASE InvokeDeleteOperation
  <2>0. call.step \in DeletingSteps /\ call.id # 0
    BY <1>10 DEF InvokeDeleteOperation, At, DeletingSteps, CallInStep, AimedSteps
  <2>1. \/ Deleted(call.st, "error") \/ Deleted(MarkDeleted(call.st), "deleted")
        \/ GoTo("confirmDelete", call.st, call.id)
        \/ \E w \in WorkRequestIDs \cup {0} :
             GoTo("pollDelete", SeedOpeningWorkRequestID(call.st, "delete", w), call.id)
    BY <1>10 DEF InvokeDeleteOperation
  <2>2. CASE GoTo("confirmDelete", call.st, call.id)
    BY <1>i, <1>k, <1>d, <2>0, <2>2, CallChanges DEF DeletingSteps
  <2>3. ASSUME NEW w \in WorkRequestIDs \cup {0},
               GoTo("pollDelete", SeedOpeningWorkRequestID(call.st, "delete", w), call.id)
        PROVE  Goal
    <3>1. SeedOpeningWorkRequestID(call.st, "delete", w).ocid = call.st.ocid
      BY <1>i, <1>p, WorkRequestLeaves
    <3> QED
      BY <1>i, <1>k, <1>d, <2>0, <2>3, <3>1, CallChanges DEF DeletingSteps, AimedSteps
  <2> QED
    BY <1>de, <1>k, <1>m, <2>0, <2>1, <2>2, <2>3
<1>11. CASE ConfirmDeleteWithSemantics
  <2>0. call.step \in DeletingSteps
    BY <1>11 DEF ConfirmDeleteWithSemantics, At, DeletingSteps
  <2> QED
    BY <1>11, <1>de, <1>k, <1>m, <1>ro, <2>0 DEF ConfirmDeleteWithSemantics
<1>12. CASE ResumeWorkRequestDelete
  <2> DEFINE st == call.st
             wr == ResolveTrackedWorkRequest(st)
             mark(class) == SetWorkRequestOperation(st, "delete", wr, class)
  <2>0. call.step \in DeletingSteps
    BY <1>12 DEF ResumeWorkRequestDelete, At, DeletingSteps
  <2>1. wr \in WorkRequestIDs
    BY <1>12, <1>i DEF ResumeWorkRequestDelete, At, CallOK, Polling
  <2>2. mark("pending").ocid = st.ocid /\ mark("failed").ocid = st.ocid
    BY <1>i, <1>p, <2>1, WorkRequestLeaves
  <2>3. \/ Deleted(st, "error") \/ Deleted(st, "404 NotFound")
        \/ Deleted(mark("pending"), "pending") \/ Deleted(mark("failed"), "error")
        \/ GoTo("readDelete", st, IF st.ocid # 0 THEN st.ocid ELSE wrs[wr].res)
    BY <1>12 DEF ResumeWorkRequestDelete
  <2>4. CASE GoTo("readDelete", st, IF st.ocid # 0 THEN st.ocid ELSE wrs[wr].res)
    <3>1. (IF st.ocid # 0 THEN st.ocid ELSE wrs[wr].res) \in Known'
      BY <1>k, <2>1
    <3> QED
      BY <1>gd, <1>k, <1>st, <2>0, <2>4, <3>1
  <2> HIDE DEF mark
  <2> QED
    BY <1>de, <1>k, <2>0, <2>2, <2>3, <2>4
<1>13. CASE CompleteWorkRequestDelete
  <2> DEFINE marked == SetWorkRequestOperation(call.st, "delete", call.st.async.wr, "failed")
  <2>0. call.step \in DeletingSteps
    BY <1>13 DEF CompleteWorkRequestDelete, At, DeletingSteps
  <2>1. call.st.async.wr \in WorkRequestIDs \cup {0}
    BY <1>i DEF OSOKStatus, AsyncOperation
  <2>2. marked.ocid = call.st.ocid
    BY <1>i, <1>p, <2>1, WorkRequestLeaves
  <2>3. \/ Deleted(marked, "error") \/ Deleted(MarkDeleted(call.st), "deleted")
        \/ \E state : RequiredDeleteOutcome(state)
    BY <1>13 DEF CompleteWorkRequestDelete
  <2> HIDE DEF marked
  <2> QED
    BY <1>de, <1>k, <1>m, <1>ro, <2>0, <2>2, <2>3
<1> QED
  BY <1>i, <1>1, <1>2, <1>3, <1>4, <1>5, <1>6, <1>7, <1>8, <1>9, <1>10, <1>11, <1>12, <1>13
     DEF RuntimeStep

-----------------------------------------------------------------------------
(* The invariant that both theorems below rest on. *)

BInv ==
    /\ OInv /\ Tokens /\ RP!IInv /\ RP!UidBounded
    /\ CallInStep /\ Owners /\ KnownOCIDs

\* CreateOrUpdate runs for an incarnation that exists and is not confirmed.
LEMMA WriterExists ==
    ASSUME RP!IInv, CallInStep, KnownOCIDs, call.step \in WritingSteps
    PROVE  call.uid # 0 /\ call.uid \in touched /\ call.uid \notin confirmed
<1>1. /\ RP!Api.ex /\ RP!Api.fin /\ RP!Api.uid = call.uid /\ call.uid \notin confirmed
  BY DEF CallInStep, RP!IInv, RP!Safe, RP!CreateOnGuardedObject
<1>2. Len(log) \in 1 .. Len(log)
  BY StatusFits, BoundsFit, RP!VersionsInLog DEF RP!IInv
<1>3. RP!Api.uid # 0
  BY <1>1, <1>2 DEF KnownOCIDs, CarriedIn, LogIn, RP!Api
<1>4. RP!Api.uid \in touched
  BY <1>1, <1>2 DEF RP!IInv, RP!FinalizerMeansTouched, RP!Indices, RP!Api
<1> QED
  BY <1>1, <1>3, <1>4

LEMMA CreatorExists ==
    ASSUME RP!IInv, CallInStep, KnownOCIDs, At("create")
    PROVE  call.uid # 0 /\ call.uid \in touched /\ call.uid \notin confirmed
  BY WriterExists DEF At, WritingSteps

LEMMA ServiceInductive ==
    ASSUME BInv, [Next]_vars
    PROVE  ServiceStep
<1>u. UNCHANGED ociVars => ServiceStep
  BY SameService DEF ServiceStep
<1>1. CASE Step
  <2>1. At("create") => call.uid # 0
    BY CreatorExists DEF BInv
  <2> QED
    BY <1>1, <2>1, RuntimeService DEF BInv, Step
<1>2. CASE Oci \/ DeletedOutOfBand
  BY <1>2, OciKept DEF BInv, OInv, ServiceStep
<1>3. Kubernetes \/ Restart \/ CallCreateOrUpdate \/ CallDelete \/ CreateOrUpdateReturns
      \/ DeleteReturns \/ UNCHANGED vars => UNCHANGED ociVars
  BY DEF Kubernetes, Restart, CallCreateOrUpdate, CallDelete, CreateOrUpdate, DeleteWithResult,
         CreateOrUpdateReturns, DeleteReturns, NoEffect, vars, runtimeVars
<1> QED
  BY <1>u, <1>1, <1>2, <1>3 DEF Next, Manager

LEMMA TouchedGrows ==
    ASSUME [Next]_vars
    PROVE  touched \subseteq touched'
<1>1. CASE R!UserCreate \/ R!UserEditSpec \/ R!UserDelete \/ R!Deliver \/ R!TimerFires
  BY <1>1 DEF R!UserCreate, R!UserEditSpec, R!UserDelete, R!Deliver, R!TimerFires, R!histVars
<1>2. CASE R!Controller
  BY <1>2 DEF R!Controller, R!Start, R!AddFinalizer, R!CallCreateOrUpdate,
              R!FinalizerUpdateFails, R!PatchStatus, R!PatchDeleteStatus, R!RemoveFinalizer,
              R!histVars
<1>3. CASE Restart \/ CreateOrUpdateReturns \/ DeleteReturns
  BY <1>3 DEF Restart, R!Restart, CreateOrUpdateReturns, R!CreateOrUpdateReturns,
              DeleteReturns, R!DeleteReturns, R!histVars
<1>4. CASE UNCHANGED reconcilerVars
  BY <1>4 DEF reconcilerVars
<1> QED
  BY <1>1, <1>2, <1>3, <1>4
     DEF Next, Kubernetes, Users, Manager, CallCreateOrUpdate, CallDelete, Step, vars

LEMMA OwnersInductive ==
    ASSUME BInv, [Next]_vars
    PROVE  Owners'
<1>1. touched \subseteq touched'
  BY TouchedGrows
<1>2. CASE ResKept
  BY <1>1, <1>2 DEF ResKept, Owners, BInv
<1>3. ASSUME NEW i \in OCIDs, ResCreated(i) PROVE Owners'
  <2>1. call.uid # 0 /\ call.uid \in touched
    BY <1>3, CreatorExists DEF ResCreated, BInv
  <2> QED
    BY <1>1, <1>3, <2>1 DEF ResCreated, Owners, BInv
<1> QED
  BY <1>2, <1>3, ServiceInductive DEF ServiceStep

\* A running call keeps the reconcile where it is.
LEMMA KubernetesWaits ==
    ASSUME Kubernetes, pc \in {"createOrUpdate", "delete"}
    PROVE  UNCHANGED <<pc, obj>>
<1>1. CASE R!UserCreate \/ R!UserEditSpec \/ R!UserDelete \/ R!Deliver \/ R!TimerFires
  BY <1>1 DEF R!UserCreate, R!UserEditSpec, R!UserDelete, R!Deliver, R!TimerFires
<1>2. ~R!Controller
  BY DEF R!Controller, R!Start, R!AddFinalizer, R!FinalizerUpdateFails, R!PatchStatus,
         R!PatchDeleteStatus, R!RemoveFinalizer
<1> QED
  BY <1>1, <1>2 DEF Kubernetes, Users

\* What a call starts with.
LEMMA CallStarts ==
    ASSUME R!TypeOK, CallCreateOrUpdate \/ CallDelete
    PROVE  /\ call'.uid = obj.uid /\ call'.gen = obj.gen
           /\ \/ /\ CallCreateOrUpdate /\ call'.step \in {"resolve", "pollWrite", "written"}
                 /\ call'.step = "pollWrite" => ResolveTrackedWorkRequest(obj.st) # 0
                 /\ call'.id = 0
                 /\ \/ call'.step # "written" /\ call'.st = obj.st
                    \/ call'.st = MarkFailure(obj.st)
              \/ /\ CallDelete
                 /\ call'.step \in {"pollDelete", "confirmPending", "resolveDelete"}
                 /\ call'.step = "pollDelete" => ResolveTrackedWorkRequest(obj.st) # 0
                 /\ call'.id = obj.st.ocid /\ call'.st = obj.st
                 /\ call'.step = "confirmPending" => obj.st.ocid # 0
<1>1. CASE CallCreateOrUpdate
  BY <1>1 DEF CallCreateOrUpdate, CreateOrUpdate, NoCall
<1>2. CASE CallDelete
  BY <1>2 DEF CallDelete, DeleteWithResult, NoCall
<1> QED
  BY <1>1, <1>2

LEMMA KnownInductive ==
    ASSUME BInv, [Next]_vars
    PROVE  KnownOCIDs' /\ CallInStep'
<1>i. /\ R!TypeOK /\ CallOK /\ OciTypeOK /\ RP!IInv /\ CallInStep /\ KnownOCIDs /\ Owners /\ OInv
      /\ call.st \in OSOKStatus /\ obj.st \in OSOKStatus
  BY DEF BInv, OInv, R!TypeOK, R!Version, CallOK, CallRecord
<1>c. At("create") => call.uid # 0
  BY <1>i, CreatorExists
<1>g. Known \subseteq Known' /\ Named \subseteq Named'
  BY <1>c, ServiceInductive, KnownGrows
<1>w. \A w \in WorkRequestIDs : wrs'[w].res \in Known'
  <2>1. WrsKept
    BY ServiceInductive DEF ServiceStep
  <2> SUFFICES ASSUME NEW w \in WorkRequestIDs PROVE wrs'[w].res \in Known'
    OBVIOUS
  <2>2. CASE wrs'[w].res = wrs[w].res
    BY <1>g, <1>i, <2>2 DEF KnownOCIDs
  <2>3. CASE wrs'[w].res # wrs[w].res
    BY <2>1, <2>3 DEF WrsKept, Known
  <2> QED
    BY <2>2, <2>3
<1>z. 0 \in Known /\ NoStatus \in Named
  BY NamedClosed DEF Known, ClosedUnderPatch
<1>n. call' = NoCall => CallInStep' /\ call'.st \in Named' /\ call'.id \in Known'
  <2>1. NoCall.step = "none" /\ NoCall.st = NoStatus /\ NoCall.id = 0
    BY DEF NoCall
  <2>2. "none" \notin WritingSteps /\ "none" \notin DeletingSteps /\ "none" \notin AimedSteps
    BY DEF WritingSteps, DeletingSteps, AimedSteps
  <2> QED
    BY <1>g, <1>z, <2>1, <2>2 DEF CallInStep
<1>k. UNCHANGED call => call'.st \in Named' /\ call'.id \in Known'
  BY <1>g, <1>i DEF KnownOCIDs
<1>r. UNCHANGED <<log, obj>> => CarriedIn(Named)'
  BY <1>g, <1>i DEF KnownOCIDs, CarriedIn, LogIn
<1>1. CASE Kubernetes \/ Restart
  <2>1. /\ \A k \in 1 .. Len(log') : log'[k].st \in Named /\ (log'[k].ex => log'[k].uid # 0)
        /\ obj'.st \in Named
    BY <1>1, <1>i, NamedClosed, KubernetesCarries DEF KnownOCIDs
  <2>2. CarriedIn(Named)'
    BY <1>g, <2>1 DEF CarriedIn, LogIn
  <2>3. CASE Kubernetes
    <3>1. UNCHANGED call
      BY <2>3 DEF Kubernetes, runtimeVars
    <3>2. CallInStep'
      BY <1>i, <2>3, <3>1, KubernetesWaits DEF CallInStep
    <3> QED
      BY <1>k, <1>w, <2>2, <3>1, <3>2 DEF KnownOCIDs
  <2>4. CASE Restart
    BY <1>n, <1>w, <2>2, <2>4 DEF Restart, KnownOCIDs
  <2> QED
    BY <1>1, <2>3, <2>4
<1>2. CASE CallCreateOrUpdate \/ CallDelete
  <2>1. UNCHANGED <<log, obj, pc>>
    BY <1>2 DEF CallCreateOrUpdate, CallDelete, reconcilerVars
  <2>2. obj.st \in Named /\ obj.st.ocid \in Known
    BY <1>i DEF KnownOCIDs, CarriedIn, Named
  <2>3. MarkFailure(obj.st) \in Named
    BY <1>i, <2>2, MarkType, MarkLeaves DEF Named
  <2>4. call'.st \in Named' /\ call'.id \in Known'
    BY <1>2, <1>g, <1>i, <1>z, <2>2, <2>3, CallStarts
  <2>5. CallInStep'
    <3>1. CASE CallCreateOrUpdate
      <4>1. pc = "createOrUpdate" /\ ~CallDelete
        BY <3>1 DEF CallCreateOrUpdate, CallDelete
      <4> QED
        BY <1>i, <2>1, <3>1, <4>1, CallStarts
           DEF CallInStep, WritingSteps, DeletingSteps, AimedSteps
    <3>2. CASE CallDelete
      <4>1. pc = "delete" /\ ~CallCreateOrUpdate
        BY <3>2 DEF CallCreateOrUpdate, CallDelete
      <4> QED
        BY <1>i, <2>1, <3>2, <4>1, CallStarts
           DEF CallInStep, WritingSteps, DeletingSteps, AimedSteps
    <3> QED
      BY <1>2, <3>1, <3>2
  <2> QED
    BY <1>r, <1>w, <2>1, <2>4, <2>5 DEF KnownOCIDs
<1>3. CASE Step
  BY <1>3, <1>c, <1>i, <1>r, <1>w, RuntimeKnown DEF Step, reconcilerVars, KnownOCIDs
<1>4. CASE CreateOrUpdateReturns \/ DeleteReturns
  <2>1. call' = NoCall /\ UNCHANGED log
        /\ obj'.st \in {call.st, NoStatus}
    <3>1. obj \in R!Version
      BY <1>i DEF R!TypeOK
    <3> QED
      BY <1>4, <3>1 DEF CreateOrUpdateReturns, R!CreateOrUpdateReturns, DeleteReturns,
                  R!DeleteReturns, R!apiVars, R!Finish, R!Gone, R!Version
  <2>2. obj'.st \in Named
    BY <1>i, <1>z, <2>1 DEF KnownOCIDs
  <2>3. CarriedIn(Named)'
    BY <1>g, <1>i, <2>1, <2>2 DEF KnownOCIDs, CarriedIn, LogIn
  <2> QED
    BY <1>n, <1>w, <2>1, <2>3 DEF KnownOCIDs
<1>5. CASE UNCHANGED <<log, obj, pc, call>>
  BY <1>5, <1>i, <1>k, <1>r, <1>w DEF KnownOCIDs, CallInStep
<1>6. CASE \/ Oci /\ UNCHANGED <<reconcilerVars, call, faults>>
           \/ DeletedOutOfBand /\ Fault /\ UNCHANGED <<reconcilerVars, call>>
           \/ UNCHANGED vars
  BY <1>5, <1>6 DEF vars, reconcilerVars, runtimeVars
<1> QED
  BY <1>1, <1>2, <1>3, <1>4, <1>6 DEF Next, Manager

LEMMA BInvInductive == BInv /\ [Next]_vars => BInv'
<1> SUFFICES ASSUME BInv, [Next]_vars PROVE BInv'
  OBVIOUS
<1>1. OInv' /\ Tokens'
  BY OInvInductive, TokensInductive DEF BInv, OInv
<1>2. RP!IInv' /\ RP!UidBounded'
  BY ReconcilerInductive DEF BInv, OInv
<1> QED
  BY <1>1, <1>2, OwnersInductive, KnownInductive DEF BInv

LEMMA InitBInv == Init => BInv
<1> SUFFICES ASSUME Init PROVE BInv
  OBVIOUS
<1>1. OInv /\ Tokens
  BY InitOInv, InitTokens
<1>2. RP!IInv /\ RP!UidBounded
  BY SameInit, StatusFits, BoundsFit, RP!InitInv, RP!InitBounded DEF Init
<1>3. CallInStep /\ call.st = NoStatus /\ call.id = 0
  BY DEF Init, NoCall, CallInStep, WritingSteps, DeletingSteps, AimedSteps
<1>4. Owners /\ \A w \in WorkRequestIDs : wrs[w].res = 0
  BY DEF Init, OciInit, Owners
<1>5. NoStatus \in Named /\ 0 \in Known
  BY NamedClosed DEF ClosedUnderPatch, Known
<1>6. CarriedIn(Named)
  <2>1. log = <<R!Gone(0)>> /\ obj = R!Gone(0)
    BY DEF Init, R!Init
  <2>2. Len(log) = 1 /\ log[1] = R!Gone(0)
    BY <2>1
  <2> QED
    BY <1>5, <2>1, <2>2 DEF CarriedIn, LogIn, R!Gone
<1> QED
  BY <1>1, <1>2, <1>3, <1>4, <1>5, <1>6 DEF BInv, KnownOCIDs

LEMMA BInvInvariant == Spec => []BInv
  BY InitBInv, BInvInductive, PTL DEF Spec

-----------------------------------------------------------------------------
(* Orphans.  With one incarnation of the name, resources that can be read as *)
(* soon as they are created, and work requests that do not vanish.           *)

Visible == \A i \in OCIDs : res[i].state # "ACCEPTED"

Answered == \A w \in WorkRequestIDs : wrs[w].status # "UNKNOWN"

\* What the reconciler takes for a deletion that is done.
Done == {"deleted", "404 NotFound"}

\* The deletion of incarnation u was reported done, or is about to be.
Reported(u) ==
    \/ u \in confirmed
    \/ call.step = "deleted" /\ call.out \in Done /\ call.uid = u

\* Nothing of an incarnation that is reported deleted remains.
Clean == \A i \in OCIDs : Remaining(i) /\ Reported(res[i].own) => Replacement(i)

NothingLeft == \A i \in OCIDs : Remaining(i) => Replacement(i)

\* There is one incarnation, and so one resource that nobody else has deleted.
OneOwner ==
    /\ \A i \in OCIDs : res[i].own \in {0, 1}
    /\ \A i, j \in OCIDs :
          /\ res[i].own # 0 /\ res[i].state # "REMOVED"
          /\ res[j].own # 0 /\ res[j].state # "REMOVED"
          => i = j

LEMMA OneResource == BInv /\ MaxUid = 1 => OneOwner
<1> SUFFICES ASSUME BInv, MaxUid = 1 PROVE OneOwner
  OBVIOUS
<1>1. ASSUME NEW i \in OCIDs, res[i].own # 0 PROVE res[i].own = 1
  <2>1. res[i].own \in touched /\ res[i].own \in Nat
    BY <1>1 DEF BInv, Owners, OInv, OciTypeOK
  <2>2. \/ res[i].own \in confirmed
        \/ RP!Api.uid = res[i].own
    BY <2>1 DEF BInv, RP!IInv, RP!Safe, RP!FinalizerRetention
  <2>3. RP!Api.uid \in Nat /\ RP!Api.uid <= 1
    BY StatusFits, BoundsFit, RP!VersionsInLog DEF BInv, RP!IInv, RP!Version, RP!UidBounded
  <2>4. res[i].own <= RP!Api.uid
    BY <2>1, <2>2, <2>3 DEF BInv, RP!IInv, RP!ConfirmedIsDeleting
  <2> QED
    BY <1>1, <2>1, <2>3, <2>4
<1>2. ASSUME NEW i \in OCIDs, NEW j \in OCIDs, res[i].own # 0, res[i].state # "REMOVED",
             res[j].own # 0, res[j].state # "REMOVED"
      PROVE  i = j
  <2>1. res[i].tok = 1 /\ res[j].tok = 1
    BY <1>1, <1>2 DEF BInv, Tokens, TokenNamesOwner
  <2> QED
    BY <2>1 DEF BInv, Tokens, TokenCreatesOne
<1> QED
  BY <1>1, <1>2 DEF OneOwner

LEMMA OneResourceNext == BInv' /\ MaxUid = 1 => OneOwner'
<1> SUFFICES ASSUME MaxUid = 1 PROVE BInv' => OneOwner'
  OBVIOUS
<1>1. BInv => OneOwner
  BY OneResource
<1> QED
  BY <1>1, PTL

\* A list that Delete finds empty is empty: its priorities hide nothing.
LEMMA NoneListed ==
    ASSUME BInv, MaxUid = 1, Visible, ListMatches("delete") = {}
    PROVE  NothingLeft
<1> SUFFICES ASSUME NEW i \in OCIDs, Remaining(i) PROVE FALSE
  BY DEF NothingLeft
<1>1. Readable(i)
  BY IdentifierAssumption DEF Readable, Remaining, Visible
<1>2. \A j \in OCIDs : Readable(j) => res[j].own # 0 /\ res[j].state # "REMOVED"
  BY DEF Readable, BInv, Owners
<1>3. \A j \in OCIDs : Readable(j) => j = i
  BY <1>1, <1>2, OneResource DEF OneOwner
<1>4. DeleteListItemPriority(i) \in Nat
  BY DEF DeleteListItemPriority
<1>5. DeleteListItemPriority(i) <= DeleteListItemPriority(i)
  BY <1>4
<1>6. i \in ListMatches("delete")
  BY <1>1, <1>3, <1>5 DEF ListMatches
<1> QED
  BY <1>6

LEMMA NoneMatches ==
    ASSUME BInv, MaxUid = 1, Visible, NEW id, Matches("delete", id) = {}
    PROVE  NothingLeft
  BY NoneListed DEF Matches

\* A resource that is read as DELETED is the only one.
LEMMA DeletedMatches ==
    ASSUME BInv, MaxUid = 1, NEW i \in OCIDs, res[i].state = "DELETED"
    PROVE  NothingLeft
<1> SUFFICES ASSUME NEW j \in OCIDs, Remaining(j) PROVE FALSE
  BY DEF NothingLeft
<1>1. /\ res[i].own # 0 /\ res[i].state # "REMOVED"
      /\ res[j].own # 0 /\ res[j].state # "REMOVED"
  BY DEF BInv, Owners, Remaining
<1>2. i = j
  BY <1>1, OneResource DEF OneOwner
<1> QED
  BY <1>2 DEF Remaining

\* So is a created one that OCI does not find when it is asked to delete it.
LEMMA KnownGone ==
    ASSUME BInv, MaxUid = 1, Visible, NEW i \in OCIDs, i \in Known,
           ~Readable(i) \/ res[i].state = "DELETED"
    PROVE  NothingLeft
<1>1. res[i].own # 0 /\ res[i].state \in {"NONE", "REMOVED", "DELETED"}
  BY IdentifierAssumption DEF Known, Readable, Visible
<1>2. CASE res[i].state = "REMOVED"
  <2> SUFFICES ASSUME NEW j \in OCIDs, Remaining(j) PROVE Replacement(j)
    BY DEF NothingLeft
  <2>1. res[j].own # 0 /\ j # i
    BY <1>2 DEF BInv, Owners, Remaining
  <2>2. res[j].own = res[i].own
    BY <1>1, <2>1, OneResource DEF OneOwner
  <2> QED
    BY <1>2, <2>1, <2>2 DEF Replacement
<1>3. CASE res[i].state # "REMOVED"
  <2> SUFFICES ASSUME NEW j \in OCIDs, Remaining(j) PROVE FALSE
    BY DEF NothingLeft
  <2>1. res[j].own # 0 /\ res[j].state # "REMOVED"
    BY DEF BInv, Owners, Remaining
  <2>2. i = j
    BY <1>1, <1>3, <2>1, OneResource DEF OneOwner
  <2> QED
    BY <1>1, <1>3, <2>2 DEF Remaining
<1> QED
  BY <1>2, <1>3

\* A Delete that reports the deletion done has seen that nothing is left.
LEMMA DoneMeansGone ==
    ASSUME BInv, BInv', MaxUid = 1, Visible, Answered, Step,
           call'.step = "deleted", call'.out \in Done
    PROVE  NothingLeft /\ NoEffect
<1> DEFINE Goal == NothingLeft /\ NoEffect
<1> SUFFICES Goal
  OBVIOUS
<1>i. /\ CallOK /\ RuntimeStep /\ call.id \in OCIDs \cup {0} /\ OciTypeOK
      /\ call.step \in AimedSteps => call.id # 0
      /\ call.id \in Known
  BY DEF BInv, OInv, CallOK, CallRecord, Step, CallInStep, KnownOCIDs
<1>w. call.step \notin WritingSteps
  BY DEF Step, reconcilerVars, BInv, CallInStep, WritingSteps, DeletingSteps
<1>d. \A st, out : Deleted(st, out) => out \in Done
  BY <1>i, CallChanges
<1>g. \A s, st, id : GoTo(s, st, id) => s = "deleted"
  BY <1>i, CallChanges DEF Keeps
<1>r. ASSUME NEW i \in OCIDs, RequiredDeleteOutcome(res[i].state), NoEffect PROVE Goal
  <2>1. "pending" \notin Done /\ "error" \notin Done
    BY DEF Done
  <2>2. res[i].state = "DELETED"
    BY <1>d, <1>r, <2>1 DEF RequiredDeleteOutcome
  <2> QED
    BY <1>r, <2>2, DeletedMatches
<1>o. "pending" \notin Done /\ "error" \notin Done
  BY DEF Done
<1> HIDE DEF Goal
<1>1. CASE ResolveDeleteID
  <2>1. NoEffect /\ ListMatches("delete") = {}
    BY <1>1, <1>d, <1>g, <1>o DEF ResolveDeleteID, FindsNone
  <2> QED
    BY <2>1, NoneListed DEF Goal
<1>2. CASE ConfirmDeleteIfAlreadyPending
  <2>1. /\ NoEffect
        /\ \/ Matches("delete", call.id) = {}
           \/ \E i \in Matches("delete", call.id) : RequiredDeleteOutcome(res[i].state)
    BY <1>2, <1>g DEF ConfirmDeleteIfAlreadyPending, FindsNone
  <2> QED
    BY <1>i, <1>r, <2>1, NoneMatches, MatchesType DEF Goal
<1>3. CASE InvokeDeleteOperation
  <2>0. call.id \in OCIDs
    BY <1>3, <1>i DEF InvokeDeleteOperation, At, AimedSteps
  <2>1. NoEffect /\ (~Readable(call.id) \/ res[call.id].state = "DELETED")
    BY <1>3, <1>d, <1>g, <1>o DEF InvokeDeleteOperation
  <2> QED
    BY <1>i, <2>0, <2>1, KnownGone DEF Goal
<1>4. CASE ConfirmDeleteWithSemantics
  <2>1. /\ NoEffect
        /\ \/ Matches("delete", call.id) = {}
           \/ \E i \in Matches("delete", call.id) : RequiredDeleteOutcome(res[i].state)
    BY <1>4, <1>d, <1>o DEF ConfirmDeleteWithSemantics, FindsNone
  <2> QED
    BY <1>i, <1>r, <2>1, NoneMatches, MatchesType DEF Goal
<1>5. CASE ResumeWorkRequestDelete
  <2>1. ResolveTrackedWorkRequest(call.st) \in WorkRequestIDs
    BY <1>5, <1>i DEF ResumeWorkRequestDelete, At, CallOK, Polling
  <2>2. wrs[ResolveTrackedWorkRequest(call.st)].status # "UNKNOWN"
    BY <2>1 DEF Answered
  <2> QED
    BY <1>5, <1>d, <1>g, <1>o, <2>2 DEF ResumeWorkRequestDelete
<1>6. CASE CompleteWorkRequestDelete
  <2>1. /\ NoEffect
        /\ \/ Matches("delete", call.id) = {}
           \/ \E i \in Matches("delete", call.id) : RequiredDeleteOutcome(res[i].state)
    BY <1>6, <1>d, <1>o DEF CompleteWorkRequestDelete, FindsNone
  <2> QED
    BY <1>i, <1>r, <2>1, NoneMatches, MatchesType DEF Goal
<1>7. \/ ResolveDeleteID \/ ConfirmDeleteIfAlreadyPending \/ InvokeDeleteOperation
      \/ ConfirmDeleteWithSemantics \/ ResumeWorkRequestDelete \/ CompleteWorkRequestDelete
  BY <1>i, <1>w DEF RuntimeStep, ResolveExistingBeforeCreate, LoadLiveMutationResponse,
       CreateOrReadResource, UpdateExistingResource, FollowUpAfterWrite,
       ResumeWorkRequestCreateOrUpdate, CompleteWorkRequestWrite, At, WritingSteps
<1> QED
  BY <1>1, <1>2, <1>3, <1>4, <1>5, <1>6, <1>7

LEMMA ConfirmedGrows ==
    ASSUME [Next]_vars
    PROVE  \/ UNCHANGED confirmed
           \/ /\ At("deleted") /\ call.out \in Done /\ pc = "delete"
              /\ confirmed' = confirmed \cup {obj.uid} /\ call' = NoCall
<1>1. CASE R!UserCreate \/ R!UserEditSpec \/ R!UserDelete \/ R!Deliver \/ R!TimerFires
  BY <1>1 DEF R!UserCreate, R!UserEditSpec, R!UserDelete, R!Deliver, R!TimerFires, R!histVars
<1>2. CASE R!Controller
  BY <1>2 DEF R!Controller, R!Start, R!AddFinalizer, R!CallCreateOrUpdate,
              R!FinalizerUpdateFails, R!PatchStatus, R!PatchDeleteStatus, R!RemoveFinalizer,
              R!histVars
<1>3. CASE Restart \/ CreateOrUpdateReturns
  BY <1>3 DEF Restart, R!Restart, CreateOrUpdateReturns, R!CreateOrUpdateReturns, R!histVars
<1>4. CASE DeleteReturns
  BY <1>4 DEF DeleteReturns, R!DeleteReturns, R!DeleteResourceResult, Done
<1>5. CASE UNCHANGED reconcilerVars
  BY <1>5 DEF reconcilerVars
<1> QED
  BY <1>1, <1>2, <1>3, <1>4, <1>5
     DEF Next, Kubernetes, Users, Manager, CallCreateOrUpdate, CallDelete, Step, vars

LEMMA ReportedStep ==
    ASSUME BInv, BInv', MaxUid = 1, Visible, Answered, [Next]_vars, NEW u, Reported(u)'
    PROVE  Reported(u) \/ (NothingLeft /\ NoEffect)
<1>1. u \in confirmed' => Reported(u)
  BY ConfirmedGrows DEF Reported, At, BInv, CallInStep, DeletingSteps
<1>2. ASSUME call'.step = "deleted", call'.out \in Done, call'.uid = u
      PROVE  Reported(u) \/ (NothingLeft /\ NoEffect)
  <2>1. CASE UNCHANGED call
    BY <1>2, <2>1 DEF Reported
  <2>2. CASE Step
    BY <1>2, <2>2, DoneMeansGone
  <2>3. CASE CallCreateOrUpdate \/ CallDelete
    <3>1. call'.step # "deleted"
      BY <2>3, CallStarts DEF BInv, OInv
    <3> QED
      BY <1>2, <3>1
  <2>4. CASE call' = NoCall
    BY <1>2, <2>4 DEF NoCall
  <2>5. CASE \/ Kubernetes \/ UNCHANGED vars
             \/ Oci /\ UNCHANGED <<reconcilerVars, call, faults>>
             \/ DeletedOutOfBand /\ Fault /\ UNCHANGED <<reconcilerVars, call>>
    BY <2>1, <2>5 DEF Kubernetes, runtimeVars, vars
  <2>6. CASE Restart \/ CreateOrUpdateReturns \/ DeleteReturns
    BY <2>4, <2>6 DEF Restart, CreateOrUpdateReturns, DeleteReturns
  <2> QED
    BY <2>2, <2>3, <2>5, <2>6 DEF Next, Manager
<1> QED
  BY <1>1, <1>2 DEF Reported

LEMMA CleanInductive ==
    ASSUME BInv, BInv', MaxUid = 1, Visible, Answered, Clean, [Next]_vars
    PROVE  Clean'
<1> SUFFICES ASSUME NEW i \in OCIDs, Remaining(i)', Reported(res[i].own)'
             PROVE  Replacement(i)'
  BY DEF Clean
<1>1. CASE ResKept
  <2>1. Remaining(i) /\ res'[i].own = res[i].own
    BY <1>1 DEF ResKept
  <2>2. Replacement(i)
    BY <2>1, ReportedStep DEF Clean, NothingLeft
  <2> QED
    BY <1>1, <2>2 DEF ResKept, Replacement
<1>2. ASSUME NEW j \in OCIDs, ResCreated(j) PROVE Replacement(i)'
  <2>0. call.uid # 0 /\ call.uid \notin confirmed /\ ~Reported(call.uid)
    BY <1>2, CreatorExists DEF ResCreated, BInv, Reported, At
  <2>1. ~NoEffect
    BY <1>2, <2>0 DEF ResCreated, NoEffect, ociVars
  <2>2. i # j
    BY <1>2, <2>0, <2>1, ReportedStep DEF ResCreated
  <2>3. Remaining(i) /\ res'[i] = res[i] /\ res[i].own # 0
    BY <1>2, <2>2 DEF ResCreated, Remaining, BInv, Owners
  <2>4. Replacement(i)
    BY <2>1, <2>3, ReportedStep DEF Clean
  <2> QED
    BY <1>2, <2>3, <2>4 DEF ResCreated, Replacement
<1> QED
  BY <1>1, <1>2, ServiceInductive DEF ServiceStep

\* OCI is read as it is: a new resource at once, and a work request always.
ReadsAreCurrent == ~HidesNew /\ ~WorkRequestsVanish

LEMMA VisibleInductive ==
    ASSUME BInv, ReadsAreCurrent, Visible, Answered, [Next]_vars
    PROVE  Visible' /\ Answered'
<1>1. ServiceStep
  BY ServiceInductive
<1>2. Answered'
  BY <1>1 DEF ServiceStep, WrsKept, Answered, ReadsAreCurrent
<1>3. CASE ResKept
  BY <1>2, <1>3 DEF ResKept, Visible
<1>4. ASSUME NEW j \in OCIDs, ResCreated(j) PROVE Visible'
  BY <1>4 DEF ResCreated, Visible, ReadsAreCurrent
<1> QED
  BY <1>1, <1>2, <1>3, <1>4 DEF ServiceStep

\* No resource is left behind, for an object that is not created again under
\* its name, by any kind of service whose reads are current: whatever fails, is
\* stale, restarts or is deleted out of band, with work requests and without.
THEOREM NoOrphanLeft == MaxUid = 1 /\ ReadsAreCurrent => (Spec => []NoOrphan)
<1> SUFFICES ASSUME MaxUid = 1, ReadsAreCurrent PROVE Spec => []NoOrphan
  OBVIOUS
<1>1. ASSUME Init PROVE Visible /\ Answered /\ Clean
  <2>1. \A i \in OCIDs : res[i].state = "NONE"
    BY <1>1 DEF Init, OciInit
  <2>2. \A w \in WorkRequestIDs : wrs[w].status = ""
    BY <1>1 DEF Init, OciInit
  <2>3. \A i \in OCIDs : ~Remaining(i)
    BY <2>1 DEF Remaining
  <2> QED
    BY <2>1, <2>2, <2>3 DEF Visible, Answered, Clean
<1>2. BInv /\ BInv' /\ Visible /\ Answered /\ Clean /\ [Next]_vars
      => Visible' /\ Answered' /\ Clean'
  BY VisibleInductive, CleanInductive
<1>3. Spec => [](Visible /\ Answered /\ Clean)
  BY <1>1, <1>2, BInvInvariant, PTL DEF Spec
<1>4. BInv /\ Clean => NoOrphan
  <2> SUFFICES ASSUME BInv, Clean, NEW i \in OCIDs, Remaining(i), ~Replacement(i)
               PROVE  Api.ex /\ Api.uid = res[i].own /\ Api.fin
    BY DEF NoOrphan
  <2>1. res[i].own \in touched
    BY DEF BInv, Owners, Remaining
  <2>2. res[i].own \notin confirmed
    BY DEF Clean, Reported
  <2>3. RP!Api = Api
    BY DEF RP!Api, Api, R!Api
  <2> QED
    BY <2>1, <2>2, <2>3 DEF BInv, RP!IInv, RP!Safe, RP!FinalizerRetention
<1> QED
  BY <1>3, <1>4, BInvInvariant, PTL

-----------------------------------------------------------------------------
(* What is Active is applied.  With one incarnation of the name, for a       *)
(* service without work requests.                                            *)

\* The resource of a status has the spec gen.
HasSpec(st, gen) == st.ocid # 0 /\ res[st.ocid].gen = gen

\* Whatever the read after a write finds, it has the spec of the call.
OnlySpec(gen) ==
    \A i \in OCIDs : res[i].own # 0 /\ res[i].state # "REMOVED" => res[i].gen = gen

\* ActiveMeansApplied, on the way from the read to the status patch.
Applied ==
    /\ At("followUp") => OnlySpec(call.gen)
    /\ At("written") /\ call.st.reason = "Active" => HasSpec(call.st, call.gen)
    /\ ActiveMeansApplied

NothingTracked == CarriedIn(Untracked) /\ call.st \in Untracked

LEMMA UntrackedClosed == ClosedUnderPatch(Untracked)
<1>1. NoStatus \in Untracked
  BY MergeFromIsStatus DEF Untracked, NoStatus, NoAsync
<1>2. ASSUME NEW a \in Untracked, NEW b \in OSOKStatus, NEW c \in Untracked
      PROVE  MergeFrom(a, b, c) \in Untracked
  <2>1. MergeFrom(a, b, c) \in OSOKStatus
    BY MergeFromIsStatus DEF Untracked
  <2>2. a.async.wr = 0 /\ c.async.wr = 0 /\ NoAsync.wr = 0 /\ "wr" \in DOMAIN NoAsync
    BY DEF Untracked, NoAsync
  <2>3. MergeFrom(a, b, c).async.wr = 0
    BY <2>2 DEF MergeFrom
  <2> QED
    BY <2>1, <2>3 DEF Untracked
<1> QED
  BY <1>1, <1>2 DEF ClosedUnderPatch, Untracked

\* A resource that is found can be read, and was created.
LEMMA FoundReadable ==
    ASSUME OciTypeOK, Owners, NEW id \in OCIDs \cup {0}, NEW phase, NEW i,
           (i \in OCIDs /\ Readable(i)) \/ i \in Matches(phase, id)
    PROVE  /\ i \in OCIDs /\ i # 0 /\ res[i].own # 0 /\ res[i].state # "REMOVED"
           /\ res[i].state \in LifecycleStates \ {"ACCEPTED"}
<1>1. i \in OCIDs /\ Readable(i)
  BY DEF Matches, ListMatches, Readable
<1>2. res[i].state \in LifecycleStates \cup {"NONE", "REMOVED"}
  BY <1>1 DEF OciTypeOK
<1> QED
  BY <1>1, <1>2 DEF Readable, Owners

\* A write that is accepted leaves the spec of the call on the only resource.
LEMMA WriteApplies ==
    ASSUME BInv, BInv', MaxUid = 1, NEW i \in OCIDs, res'[i].own # 0,
           res'[i].state # "REMOVED", res'[i].gen = call.gen, call'.gen = call.gen
    PROVE  OnlySpec(call.gen)'
<1> SUFFICES ASSUME NEW j \in OCIDs, res'[j].own # 0, res'[j].state # "REMOVED"
             PROVE  res'[j].gen = call'.gen
  BY DEF OnlySpec
<1>1. i = j
  BY OneResourceNext DEF OneOwner
<1> QED
  BY <1>1

LEMMA RuntimeApplied ==
    ASSUME BInv, BInv', MaxUid = 1, WorkRequests = {}, NothingTracked, Applied, Step
    PROVE  call'.st \in Untracked /\ Applied'
<1> DEFINE Goal == call'.st \in Untracked /\ Applied'
<1> SUFFICES Goal
  OBVIOUS
<1>i. /\ OciTypeOK /\ CallOK /\ Owners /\ CallInStep /\ RuntimeStep /\ UNCHANGED <<pc, obj>>
      /\ call.id \in OCIDs \cup {0} /\ call.st \in OSOKStatus /\ call.st \in Untracked
      /\ call.st.ocid \in OCIDs \cup {0} /\ call.phase \in Phases \cup {""}
  BY DEF BInv, OInv, CallOK, CallRecord, Step, reconcilerVars, OSOKStatus, NothingTracked
<1>u. call.st \in Untracked
  BY <1>i
<1>n. call.step \notin Polling
  <2>1. ResolveTrackedWorkRequest(call.st) = 0
    BY <1>i DEF ResolveTrackedWorkRequest, Untracked
  <2> QED
    BY <1>i, <2>1, IdentifierAssumption DEF CallOK
<1>p. call.step \in WritingSteps \cup DeletingSteps => ActiveMeansApplied'
  BY <1>i DEF CallInStep, ActiveMeansApplied
<1>o. \A i \in OCIDs \cup {0} : [call.st EXCEPT !.ocid = i] \in Untracked
  BY <1>i DEF OSOKStatus, Untracked
<1>m. /\ MarkFailure(call.st).reason = "Failed"
      /\ {MarkFailure(call.st), MarkDeleted(call.st), MarkTerminating(call.st)} \subseteq Untracked
  BY <1>i, MarkLeaves
<1>k. ASSUME NEW s, NEW st \in Untracked, NEW id, Keeps(s, st, id),
             s \notin {"followUp", "written"}, call.step \in WritingSteps \cup DeletingSteps
      PROVE  Goal
  BY <1>k, <1>p DEF Keeps, Applied, At
<1>g. ASSUME NEW s, NEW st \in Untracked, NEW id, GoTo(s, st, id),
             s \notin {"followUp", "written"}, call.step \in WritingSteps \cup DeletingSteps
      PROVE  Goal
  BY <1>g, <1>i, <1>k, CallChanges
<1>d. ASSUME NEW st \in Untracked, NEW out, Deleted(st, out),
             call.step \in WritingSteps \cup DeletingSteps
      PROVE  Goal
  BY <1>d, <1>i, <1>k, CallChanges
<1>w. ASSUME NEW st \in Untracked, Written(st), call.step \in WritingSteps,
             st.reason = "Active" => st.ocid # 0 /\ res'[st.ocid].gen = call.gen
      PROVE  Goal
  <2>1. Keeps("written", st, 0)
    BY <1>w, <1>i, CallChanges
  <2> QED
    BY <1>w, <1>p, <2>1 DEF Keeps, Applied, At, HasSpec
<1>f. Fail /\ call.step \in WritingSteps => Goal
  BY <1>m, <1>w DEF Fail
<1>s. ASSUME NEW i \in OCIDs, NEW state \in LifecycleStates \ {"ACCEPTED"},
             NEW phase \in Phases \cup {""}, UNCHANGED ociVars,
             state = "ACTIVE" => res[i].gen = call.gen,
             Written(ApplySuccess(call.st, i, state, phase)), call.step \in WritingSteps
      PROVE  Goal
  <2> DEFINE st == ApplySuccess(call.st, i, state, phase)
  <2>1. st \in Untracked /\ (st.reason = "Active" => state = "ACTIVE")
    BY <1>i, ObservedLeaves
  <2>2. st.ocid = i /\ i # 0
    <3> DEFINE before == call.st
    <3>1. before \in OSOKStatus /\ i \in OCIDs \cup {0} /\ i # 0
      BY <1>i, IdentifierAssumption
    <3>2. st = ApplySuccess(before, i, state, phase)
      OBVIOUS
    <3> HIDE DEF before, st
    <3> QED
      BY <3>1, <3>2, ApplySuccessType
  <2>3. Written(st)
    BY <1>s
  <2> HIDE DEF st
  <2>4. UNCHANGED res
    BY <1>s DEF ociVars
  <2>5. st.reason = "Active" => st.ocid # 0 /\ res'[st.ocid].gen = call.gen
    BY <1>s, <2>1, <2>2, <2>4
  <2> QED
    BY <1>s, <1>w, <2>1, <2>3, <2>5
<1>r. ASSUME NEW i \in OCIDs \cup {0}, Readable(i), ReconcileExistingResource(i), NoEffect,
             call.step \in WritingSteps
      PROVE  Goal
  <2>0. i \in OCIDs
    BY <1>r DEF Readable
  <2>1. res[i].state \in LifecycleStates \ {"ACCEPTED"}
    BY <1>i, <1>r, <2>0, FoundReadable
  <2>2. CASE ShouldInvokeUpdate(i)
    <3> DEFINE st == [call.st EXCEPT !.ocid = i]
    <3>1. st \in Untracked /\ GoTo("update", st, i)
      BY <1>o, <1>r, <2>2 DEF ReconcileExistingResource
    <3> HIDE DEF st
    <3> QED
      BY <1>g, <1>r, <3>1
  <2>3. CASE ~ShouldInvokeUpdate(i)
    <3>1. Written(ApplySuccess(call.st, i, res[i].state, ""))
      BY <1>r, <2>3 DEF ReconcileExistingResource
    <3>2. res[i].state = "ACTIVE" => res[i].gen = call.gen
      BY <2>3 DEF ShouldInvokeUpdate
    <3> QED
      BY <1>r, <1>s, <2>0, <2>1, <3>1, <3>2 DEF NoEffect
  <2> QED
    BY <2>2, <2>3
<1>a. ASSUME NEW phase, NEW id, NEW w, AfterWrite(phase, id, w), NEW i \in OCIDs,
             res'[i].own # 0, res'[i].state # "REMOVED", res'[i].gen = call.gen,
             call.step \in WritingSteps
      PROVE  Goal
  <2>1. Keeps("followUp", call.st, id)
    BY <1>a, <1>i, CallChanges
  <2>2. OnlySpec(call.gen)'
    BY <1>a, <2>1, WriteApplies DEF Keeps
  <2> QED
    BY <1>a, <1>i, <1>p, <2>1, <2>2 DEF Keeps, Applied, At
<1>q. ASSUME NEW state, RequiredDeleteOutcome(state), call.step \in DeletingSteps PROVE Goal
  BY <1>d, <1>i, <1>m, <1>q DEF RequiredDeleteOutcome
<1> HIDE DEF Goal
<1>1. CASE ResolveExistingBeforeCreate
  <2>0. call.step \in WritingSteps /\ NoEffect
    BY <1>1 DEF ResolveExistingBeforeCreate, At, WritingSteps
  <2>1. \/ Fail \/ GoTo("create", [call.st EXCEPT !.ocid = 0], 0)
        \/ Readable(call.st.ocid) /\ ReconcileExistingResource(call.st.ocid)
        \/ \E i \in ListMatches("create") : GoTo("liveGet", [call.st EXCEPT !.ocid = 0], i)
    BY <1>1 DEF ResolveExistingBeforeCreate
  <2> DEFINE st == [call.st EXCEPT !.ocid = 0]
  <2>2. st \in Untracked
    BY <1>o
  <2> HIDE DEF st
  <2>3. CASE Readable(call.st.ocid) /\ ReconcileExistingResource(call.st.ocid)
    BY <1>i, <1>r, <2>0, <2>3
  <2>4. CASE GoTo("create", st, 0)
    BY <1>g, <2>0, <2>2, <2>4
  <2>5. ASSUME NEW i, GoTo("liveGet", st, i) PROVE Goal
    BY <1>g, <2>0, <2>2, <2>5
  <2> QED
    BY <1>f, <2>0, <2>1, <2>3, <2>4, <2>5 DEF st
<1>2. CASE LoadLiveMutationResponse
  <2>0. call.step \in WritingSteps /\ NoEffect
    BY <1>2 DEF LoadLiveMutationResponse, At, WritingSteps
  <2>1. CASE Readable(call.id) /\ ReconcileExistingResource(call.id)
    BY <1>i, <1>r, <2>0, <2>1
  <2>2. CASE GoTo("create", call.st, 0)
    BY <1>g, <1>u, <2>0, <2>2
  <2> QED
    BY <1>2, <1>f, <2>0, <2>1, <2>2 DEF LoadLiveMutationResponse
<1>3. CASE CreateOrReadResource
  <2>0. call.step \in WritingSteps /\ At("create") /\ call.uid # 0
    <3>1. At("create")
      BY <1>3 DEF CreateOrReadResource
    <3> QED
      BY <3>1, CreatorExists DEF At, WritingSteps, BInv
  <2>1. ASSUME NEW i \in OCIDs, NEW w,
               CreateAccepted(call.uid, ResourceRetryToken(call.uid), call.gen, i, w),
               AfterWrite("create", IF IdInResponse THEN i ELSE 0, w)
        PROVE  Goal
    <3>1. res'[i].own # 0 /\ res'[i].state # "REMOVED" /\ res'[i].gen = call.gen
      <4>1. CASE UNCHANGED res /\ res[i].gen = call.gen /\ Remaining(i)
        BY <1>i, <4>1 DEF Remaining, Owners
      <4>2. CASE ResCreated(i)
        BY <2>0, <4>2 DEF ResCreated
      <4> QED
        BY <1>i, <2>0, <2>1, <4>1, <4>2, CreateService
    <3> QED
      BY <1>a, <2>0, <2>1, <3>1
  <2> QED
    BY <1>3, <1>f, <2>0, <2>1 DEF CreateOrReadResource
<1>4. CASE UpdateExistingResource
  <2>0. call.step \in WritingSteps /\ At("update") /\ call.id \in OCIDs
    BY <1>4, <1>i DEF UpdateExistingResource, At, WritingSteps, CallInStep, AimedSteps
  <2>1. ASSUME NEW w, UpdateAccepted(call.id, call.gen, w), AfterWrite("update", call.id, w)
        PROVE  Goal
    <3>1. /\ res[call.id].state = "ACTIVE"
          /\ res' = [res EXCEPT ![call.id].gen = call.gen, ![call.id].state = "UPDATING"]
      BY <2>1 DEF UpdateAccepted
    <3>2. /\ res'[call.id].own = res[call.id].own /\ res'[call.id].state = "UPDATING"
          /\ res'[call.id].gen = call.gen
      BY <1>i, <2>0, <3>1 DEF OciTypeOK
    <3>3. res[call.id].own # 0
      BY <1>i, <2>0, <3>1 DEF Owners
    <3> QED
      BY <1>a, <2>0, <2>1, <3>2, <3>3
  <2> QED
    BY <1>4, <1>f, <2>0, <2>1 DEF UpdateExistingResource
<1>5. CASE FollowUpAfterWrite
  <2>0. call.step \in WritingSteps /\ UNCHANGED ociVars /\ OnlySpec(call.gen)
    BY <1>5 DEF FollowUpAfterWrite, At, WritingSteps, NoEffect, Applied
  <2>1. \/ Fail
        \/ call.phase = "create" /\ Written(ApplySuccess(call.st, call.id, "CREATING", "create"))
        \/ \E i \in Matches(call.phase, call.id) :
              Written(ApplySuccess(call.st, i, res[i].state, call.phase))
    BY <1>5 DEF FollowUpAfterWrite
  <2>2. CASE Written(ApplySuccess(call.st, call.id, "CREATING", "create"))
    <3> DEFINE st == ApplySuccess(call.st, call.id, "CREATING", "create")
    <3>0. "CREATING" \in LifecycleStates \ {"ACCEPTED"} /\ "create" \in Phases \cup {""}
      BY DEF LifecycleStates, Phases
    <3>1. st \in Untracked /\ st.reason # "Active"
      BY <1>i, <3>0, ObservedLeaves
    <3> HIDE DEF st
    <3> QED
      BY <1>w, <2>0, <2>2, <3>1 DEF st
  <2>3. ASSUME NEW i \in Matches(call.phase, call.id),
               Written(ApplySuccess(call.st, i, res[i].state, call.phase))
        PROVE  Goal
    <3>1. /\ i \in OCIDs /\ res[i].own # 0 /\ res[i].state # "REMOVED"
          /\ res[i].state \in LifecycleStates \ {"ACCEPTED"}
      BY <1>i, FoundReadable
    <3>2. res[i].gen = call.gen
      BY <2>0, <3>1 DEF OnlySpec
    <3> QED
      BY <1>i, <1>s, <2>0, <2>3, <3>1, <3>2
  <2> QED
    BY <1>f, <2>0, <2>1, <2>2, <2>3
<1>6. CASE ResolveDeleteID
  <2>0. call.step \in DeletingSteps
    BY <1>6 DEF ResolveDeleteID, At, DeletingSteps
  <2>1. \/ Deleted(call.st, "error") \/ Deleted(MarkDeleted(call.st), "deleted")
        \/ \E i \in ListMatches("delete") : GoTo("confirmPending", [call.st EXCEPT !.ocid = i], i)
    BY <1>6 DEF ResolveDeleteID
  <2>2. ASSUME NEW i \in ListMatches("delete"),
               GoTo("confirmPending", [call.st EXCEPT !.ocid = i], i)
        PROVE  Goal
    <3> DEFINE st == [call.st EXCEPT !.ocid = i]
    <3>1. st \in Untracked /\ GoTo("confirmPending", st, i)
      BY <1>o, <2>2, MatchesType
    <3> HIDE DEF st
    <3> QED
      BY <1>g, <2>0, <3>1
  <2> QED
    BY <1>d, <1>i, <1>m, <2>0, <2>1, <2>2
<1>7. CASE ConfirmDeleteIfAlreadyPending
  <2>0. call.step \in DeletingSteps
    BY <1>7 DEF ConfirmDeleteIfAlreadyPending, At, DeletingSteps
  <2>1. \/ Deleted(MarkDeleted(call.st), "deleted") \/ GoTo("invokeDelete", call.st, call.id)
        \/ \E state : RequiredDeleteOutcome(state)
    BY <1>7 DEF ConfirmDeleteIfAlreadyPending
  <2>2. CASE GoTo("invokeDelete", call.st, call.id)
    BY <1>g, <1>u, <2>0, <2>2
  <2> QED
    BY <1>d, <1>i, <1>m, <1>q, <2>0, <2>1, <2>2
<1>8. CASE InvokeDeleteOperation
  <2>0. call.step \in DeletingSteps
    BY <1>8 DEF InvokeDeleteOperation, At, DeletingSteps
  <2>1. \/ Deleted(call.st, "error") \/ Deleted(MarkDeleted(call.st), "deleted")
        \/ GoTo("confirmDelete", call.st, call.id)
    BY <1>8 DEF InvokeDeleteOperation
  <2>2. CASE GoTo("confirmDelete", call.st, call.id)
    BY <1>g, <1>u, <2>0, <2>2
  <2> QED
    BY <1>d, <1>i, <1>m, <2>0, <2>1, <2>2
<1>9. CASE ConfirmDeleteWithSemantics
  <2>0. call.step \in DeletingSteps
    BY <1>9 DEF ConfirmDeleteWithSemantics, At, DeletingSteps
  <2> QED
    BY <1>9, <1>d, <1>i, <1>m, <1>q, <2>0 DEF ConfirmDeleteWithSemantics
<1>10. CASE CompleteWorkRequestDelete
  <2> DEFINE marked == SetWorkRequestOperation(call.st, "delete", call.st.async.wr, "failed")
  <2>0. call.step \in DeletingSteps
    BY <1>10 DEF CompleteWorkRequestDelete, At, DeletingSteps
  <2>1. marked \in Untracked
    <3> DEFINE op == [source |-> "workrequest", phase |-> "delete", wr |-> call.st.async.wr,
                      class |-> "failed"]
    <3>1. call.st.async.wr = 0
      BY <1>i DEF Untracked
    <3>2. op \in AsyncOperation /\ op.wr = 0
      BY <3>1 DEF AsyncOperation, Phases, Classes
    <3>3. marked = ApplyAsyncOperation(call.st, op)
      BY DEF SetWorkRequestOperation
    <3> HIDE DEF op
    <3> QED
      BY <1>i, <3>2, <3>3, ApplyLeaves
  <2>2. \/ Deleted(marked, "error") \/ Deleted(MarkDeleted(call.st), "deleted")
        \/ \E state : RequiredDeleteOutcome(state)
    BY <1>10 DEF CompleteWorkRequestDelete
  <2> HIDE DEF marked
  <2> QED
    BY <1>d, <1>m, <1>q, <2>0, <2>1, <2>2
<1> QED
  BY <1>i, <1>n, <1>1, <1>2, <1>3, <1>4, <1>5, <1>6, <1>7, <1>8, <1>9, <1>10
     DEF RuntimeStep, ResumeWorkRequestCreateOrUpdate, CompleteWorkRequestWrite,
         ResumeWorkRequestDelete, At, Polling

\* Between the calls, nothing changes the spec of a resource.
LEMMA AppliedStays ==
    ASSUME BInv, Applied, [Next]_vars, UNCHANGED call, call.step \notin {"create", "update"},
           UNCHANGED <<pc, obj>> \/ pc' # "patchStatus"
    PROVE  Applied'
<1>1. ResKept
  BY ServiceInductive DEF ServiceStep, ResCreated, At
<1>2. \A i \in OCIDs : res'[i].gen = res[i].gen
  BY <1>1 DEF ResKept, At
<1>3. OnlySpec(call.gen) => OnlySpec(call.gen)'
  BY <1>1, <1>2 DEF OnlySpec, ResKept
<1>4. ASSUME NEW st \in OSOKStatus, NEW gen, HasSpec(st, gen)
      PROVE  st.ocid # 0 /\ res'[st.ocid].gen = gen
  <2>1. st.ocid \in OCIDs
    BY <1>4 DEF OSOKStatus, HasSpec
  <2> QED
    BY <1>2, <1>4, <2>1 DEF HasSpec
<1>5. call.st \in OSOKStatus /\ obj.st \in OSOKStatus
  BY DEF BInv, OInv, R!TypeOK, R!Version, CallOK, CallRecord
<1>6. (At("written") /\ call.st.reason = "Active" => HasSpec(call.st, call.gen))'
  BY <1>4, <1>5 DEF Applied, At, HasSpec
<1>7. ActiveMeansApplied'
  BY <1>4, <1>5 DEF Applied, ActiveMeansApplied, HasSpec
<1> QED
  BY <1>3, <1>6, <1>7 DEF Applied, At

LEMMA AppliedInductive ==
    ASSUME BInv, BInv', MaxUid = 1, WorkRequests = {}, NothingTracked, Applied, [Next]_vars
    PROVE  NothingTracked' /\ Applied'
<1>i. /\ R!TypeOK /\ RP!IInv /\ obj \in R!Version
      /\ CarriedIn(Untracked) /\ call.st \in Untracked /\ obj.st \in Untracked
  BY DEF BInv, OInv, R!TypeOK, NothingTracked, CarriedIn
<1>z. NoStatus \in Untracked
  BY UntrackedClosed DEF ClosedUnderPatch
<1>n. call' = NoCall => call'.st \in Untracked /\ call'.step = "none"
  <2>1. NoCall.st = NoStatus /\ NoCall.step = "none"
    BY DEF NoCall
  <2> QED
    BY <1>z, <2>1
<1>r. UNCHANGED <<log, obj>> => CarriedIn(Untracked)'
  BY <1>i DEF CarriedIn, LogIn
<1>c. call.step \in {"create", "update"} => pc = "createOrUpdate"
  BY DEF BInv, CallInStep, WritingSteps
<1>q. call'.step \notin {"followUp", "written"} /\ pc' # "patchStatus" => Applied'
  BY DEF Applied, At, ActiveMeansApplied
<1>1. CASE Kubernetes \/ Restart
  <2>1. /\ \A k \in 1 .. Len(log') : log'[k].st \in Untracked /\ (log'[k].ex => log'[k].uid # 0)
        /\ obj'.st \in Untracked
    BY <1>1, <1>i, UntrackedClosed, KubernetesCarries
  <2>2. CarriedIn(Untracked)'
    BY <2>1 DEF CarriedIn, LogIn
  <2>3. CASE Kubernetes
    <3>1. UNCHANGED <<res, wrs, call>>
      BY <2>3 DEF Kubernetes, runtimeVars, ociVars
    <3>2. UNCHANGED <<pc, obj>> \/ pc' # "patchStatus"
      BY <2>3 DEF Kubernetes, Users, R!UserCreate, R!UserEditSpec, R!UserDelete, R!Deliver,
         R!TimerFires, R!Controller, R!Start, R!AddFinalizer, R!CallCreateOrUpdate,
         R!FinalizerUpdateFails, R!PatchStatus, R!PatchDeleteStatus, R!RemoveFinalizer, R!Finish
    <3>3. Applied'
      BY <3>1, <3>2 DEF Applied, At, OnlySpec, HasSpec, ActiveMeansApplied
    <3> QED
      BY <1>i, <2>2, <3>1, <3>3 DEF NothingTracked
  <2>4. CASE Restart
    <3>1. call' = NoCall /\ pc' = "idle"
      BY <2>4 DEF Restart, R!Restart
    <3> QED
      BY <1>n, <1>q, <2>2, <3>1 DEF NothingTracked
  <2> QED
    BY <1>1, <2>3, <2>4
<1>2. CASE CallCreateOrUpdate \/ CallDelete
  <2>1. UNCHANGED <<log, obj, pc>> /\ pc # "patchStatus"
    BY <1>2 DEF CallCreateOrUpdate, CallDelete, reconcilerVars
  <2>2. MarkFailure(obj.st) \in Untracked /\ MarkFailure(obj.st).reason = "Failed"
    BY <1>i, MarkLeaves DEF Untracked
  <2>3. /\ call'.st \in Untracked /\ call'.step # "followUp"
        /\ call'.step = "written" => call'.st.reason = "Failed"
    BY <1>2, <1>i, <2>2, CallStarts
  <2>4. Applied'
    BY <2>1, <2>3 DEF Applied, At, ActiveMeansApplied
  <2> QED
    BY <1>r, <2>1, <2>3, <2>4 DEF NothingTracked
<1>3. CASE Step
  <2>1. UNCHANGED <<log, obj>>
    BY <1>3 DEF Step, reconcilerVars
  <2> QED
    BY <1>3, <1>r, <2>1, RuntimeApplied DEF NothingTracked
<1>4. CASE CreateOrUpdateReturns
  <2>1. /\ call' = NoCall /\ UNCHANGED <<log, res>> /\ At("written")
        /\ obj' = [obj EXCEPT !.st = call.st]
    BY <1>4 DEF CreateOrUpdateReturns, R!CreateOrUpdateReturns, R!apiVars, ociVars
  <2>2. obj'.st = call.st /\ obj'.gen = obj.gen
    BY <1>i, <2>1 DEF R!Version
  <2>3. call.gen = obj.gen
    BY <2>1 DEF BInv, CallInStep, At, WritingSteps
  <2>4. CarriedIn(Untracked)'
    BY <1>i, <2>1, <2>2 DEF CarriedIn, LogIn
  <2>5. ActiveMeansApplied'
    BY <2>1, <2>2, <2>3 DEF Applied, HasSpec, ActiveMeansApplied
  <2> QED
    BY <1>n, <2>1, <2>4, <2>5 DEF NothingTracked, Applied, At
<1>5. CASE DeleteReturns
  <2>1. call' = NoCall /\ UNCHANGED log /\ pc' # "patchStatus"
        /\ (obj' = [obj EXCEPT !.st = call.st] \/ obj'.st = NoStatus)
    BY <1>5 DEF DeleteReturns, R!DeleteReturns, R!apiVars, R!Finish, R!Gone
  <2>2. obj'.st \in Untracked
    BY <1>i, <1>z, <2>1 DEF R!Version
  <2>3. CarriedIn(Untracked)'
    BY <1>i, <2>1, <2>2 DEF CarriedIn, LogIn
  <2> QED
    BY <1>n, <1>q, <2>1, <2>3 DEF NothingTracked
<1>6. CASE UNCHANGED <<log, obj, pc, call>>
  <2>0. NothingTracked'
    BY <1>6, <1>i, <1>r DEF NothingTracked
  <2>1. CASE call.step \in {"create", "update"}
    BY <1>6, <1>c, <1>q, <2>0, <2>1
  <2>2. CASE call.step \notin {"create", "update"}
    BY <1>6, <2>0, <2>2, AppliedStays
  <2> QED
    BY <2>1, <2>2
<1>7. CASE \/ Oci /\ UNCHANGED <<reconcilerVars, call, faults>>
           \/ DeletedOutOfBand /\ Fault /\ UNCHANGED <<reconcilerVars, call>>
           \/ UNCHANGED vars
  BY <1>6, <1>7 DEF vars, reconcilerVars, runtimeVars, ociVars
<1> QED
  BY <1>1, <1>2, <1>3, <1>4, <1>5, <1>7 DEF Next, Manager

\* A CreateOrUpdate that ends in Active has applied the spec it was called
\* with, for an object that is not created again under its name, by any service
\* without work requests: also when the response, the read after the write or
\* the status patch before was lost, the new resource cannot be read yet, the
\* cached object is stale or the resource was deleted out of band.
THEOREM ActiveIsApplied ==
    MaxUid = 1 /\ WorkRequests = {} => (Spec => []ActiveMeansApplied)
<1> SUFFICES ASSUME MaxUid = 1, WorkRequests = {} PROVE Spec => []ActiveMeansApplied
  OBVIOUS
<1>1. ASSUME Init PROVE NothingTracked /\ Applied
  <2>1. NoStatus \in Untracked
    BY UntrackedClosed DEF ClosedUnderPatch
  <2>2. log = <<R!Gone(0)>> /\ obj = R!Gone(0) /\ pc = "idle"
    BY <1>1 DEF Init, R!Init
  <2>3. Len(log) = 1 /\ log[1] = R!Gone(0)
    BY <2>2
  <2>4. call.step = "none" /\ call.st = NoStatus
    BY <1>1 DEF Init, NoCall
  <2>5. NothingTracked
    BY <2>1, <2>2, <2>3, <2>4 DEF NothingTracked, CarriedIn, LogIn, R!Gone
  <2> QED
    BY <2>2, <2>4, <2>5 DEF Applied, At, ActiveMeansApplied
<1>2. BInv /\ BInv' /\ NothingTracked /\ Applied /\ [Next]_vars => NothingTracked' /\ Applied'
  BY AppliedInductive
<1>3. Spec => [](NothingTracked /\ Applied)
  BY <1>1, <1>2, BInvInvariant, PTL DEF Spec
<1>4. Applied => ActiveMeansApplied
  BY DEF Applied
<1> QED
  BY <1>3, <1>4, PTL
=============================================================================
