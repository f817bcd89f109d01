------------------------ MODULE EndpointSecretProofs ------------------------
(***************************************************************************)
(* Proofs about EndpointSecret, for every set of endpoints and every value *)
(* of the bounds.  EndpointSecret implements Reconciler, so that the       *)
(* theorems about Reconciler, instantiated here, hold of it and carry the  *)
(* proofs about the Secret.                                                *)
(***************************************************************************)
EXTENDS EndpointSecret, TLAPS

RP == INSTANCE ReconcilerProofs WITH
        Status <- Statuses, EmptyStatus <- "", MergePatch <- MergeReason,
        ZeroDuration <- FALSE

\* The assumptions under which the theorems about Reconciler were proved.
LEMMA StatusFits == RP!StatusAssumption
  BY DEF RP!StatusAssumption, Statuses, MergeReason

LEMMA BoundsFit == RP!BoundsAssumption
  BY ReconcilerBounds DEF RP!BoundsAssumption

\* The two instances of Reconciler, the one of EndpointSecret and the one
\* that comes with the theorems, are the same.
LEMMA SameInit == R!Init <=> RP!Init
  BY Zenon DEF R!Init, R!Gone, R!NoResponse, RP!Init, RP!Gone, RP!NoResponse

LEMMA SameVars == R!vars = RP!vars /\ R!vars' = RP!vars'
  BY Zenon DEF R!vars, R!apiVars, R!ctrlVars, R!histVars,
               RP!vars, RP!apiVars, RP!ctrlVars, RP!histVars

LEMMA SameNext == R!Next <=> RP!Next
  BY Zenon DEF
    R!Next, R!Environment, R!Controller, R!ServiceManager, R!UserCreate, R!UserEditSpec,
    R!UserDelete, R!OtherFinalizerRemoved, R!StoreByOther, R!Store, R!Gone, R!Api, R!Cached,
    R!Room, R!Deliver, R!ReconcilePredicate, R!TimerFires, R!Restart, R!NoResponse, R!Start,
    R!CallCreateOrUpdate, R!Finish, R!UpdateAccepted, R!AddFinalizer, R!FinalizerUpdateFails,
    R!CreateOrUpdateReturns, R!PatchApplied, R!RequeueOf, R!PatchStatus, R!DeleteReturns,
    R!DeleteResourceResult, R!DeleteOutcomes, R!PatchDeleteStatus, R!RemoveFinalizer,
    R!Responses, R!AnyResponses, R!apiVars, R!histVars,
    RP!Next, RP!Environment, RP!Controller, RP!ServiceManager, RP!UserCreate,
    RP!UserEditSpec, RP!UserDelete, RP!OtherFinalizerRemoved, RP!StoreByOther, RP!Store,
    RP!Gone, RP!Api, RP!Cached, RP!Room, RP!Deliver, RP!ReconcilePredicate, RP!TimerFires,
    RP!Restart, RP!NoResponse, RP!Start, RP!CallCreateOrUpdate, RP!Finish,
    RP!UpdateAccepted, RP!AddFinalizer, RP!FinalizerUpdateFails, RP!CreateOrUpdateReturns,
    RP!PatchApplied, RP!RequeueOf, RP!PatchStatus, RP!DeleteReturns,
    RP!DeleteResourceResult, RP!DeleteOutcomes, RP!PatchDeleteStatus, RP!RemoveFinalizer,
    RP!Responses, RP!AnyResponses, RP!apiVars, RP!histVars

LEMMA SameType == (R!TypeOK <=> RP!TypeOK) /\ (R!TypeOK' <=> RP!TypeOK')
  BY Zenon DEF R!TypeOK, R!Version, R!Steps, R!Responses,
               RP!TypeOK, RP!Version, RP!Steps, RP!Responses

-----------------------------------------------------------------------------
(* The inductive invariant. *)

\* What is known of the reconciler around the client.
ReconcilerInv == RP!IInv /\ RP!UidBounded

\* The types of the client's own state; the response kept for the end of the
\* sync is one a manager may return.
ClientType ==
    /\ secret \in Secret /\ secrets \in Nat
    /\ call \in [step : CallSteps, st : Statuses, resp : R!AnyResponses,
                 want : Endpoints \cup {""}, record : Secret,
                 adopt : BOOLEAN, current : BOOLEAN]
    /\ troubles \in 0 .. MaxTroubles

\* A call of the client runs only while the reconciler waits for it.
CallInStep ==
    /\ call.step \in {"sync", "create", "reread", "update", "write"} => pc = "createOrUpdate"
    /\ call.step \in {"cleanup", "delete", "remove"} => pc = "delete"

\* The record a write or a delete was decided on: the Secret is ours, or it
\* is nobody's and has the desired data; and it is still the stored Secret as
\* long as its resourceVersion is the current one.
Decided ==
    /\ call.step \in {"update", "write"} =>
          IF call.adopt THEN call.record.owner = 0 /\ call.record.data = call.want
                        ELSE call.record.owner = obj.uid
    /\ call.step \in {"delete", "remove"} => call.record.owner = obj.uid
    /\ call.current => call.step \in {"write", "remove"} /\ Exists /\ secret = call.record

\* A Secret is labelled only for incarnations the client was called on, and
\* not for those whose delete was reported done.
OwnerGuarded ==
    Exists /\ secret.owner # 0 => secret.owner \in touched /\ secret.owner \notin confirmed

SInv ==
    /\ ReconcilerInv /\ ClientType /\ CallInStep /\ Decided /\ OwnerGuarded

-----------------------------------------------------------------------------
(* Refinement. *)

LEMMA FailureIsResponse == SyncFailure \in R!AnyResponses /\ R!NoResponse \in R!AnyResponses
  BY DEF SyncFailure, R!AnyResponses, R!Responses, R!NoResponse

\* A step of the client is one of the reconciler's service manager, or none.
LEMMA ManagerRefines ==
    ASSUME ClientType, Manager
    PROVE  R!ServiceManager \/ UNCHANGED reconcilerVars
<1>t. call.st \in Statuses /\ call.resp \in R!AnyResponses
  BY DEF ClientType
<1>c. ASSUME NEW r \in R!AnyResponses, Returns(r) PROVE R!ServiceManager
  BY <1>t, <1>c DEF Returns, R!ServiceManager
<1>d. ASSUME NEW out \in R!DeleteOutcomes, DeleteReturns(out) PROVE R!ServiceManager
  BY <1>t, <1>d DEF DeleteReturns, R!ServiceManager
<1>o. "deleted" \in R!DeleteOutcomes /\ "error" \in R!DeleteOutcomes
  BY DEF R!DeleteOutcomes
<1>1. CASE DelegateCreatesOrUpdates
  BY <1>1, FailureIsResponse DEF DelegateCreatesOrUpdates, R!ServiceManager
<1>2. CASE SyncEndpointSecret
  BY <1>2, <1>c, <1>t, FailureIsResponse DEF SyncEndpointSecret, SyncExistingEndpointSecret
<1>3. CASE CreateEndpointSecret
  BY <1>3, <1>c, <1>t, FailureIsResponse DEF CreateEndpointSecret, Answered
<1>4. CASE UpdateSecretIfCurrent
  BY <1>4, <1>c, <1>t, FailureIsResponse DEF UpdateSecretIfCurrent, Revalidated
<1>5. CASE UpdateSecretObject
  BY <1>5, <1>c, <1>t, FailureIsResponse DEF UpdateSecretObject, Answered
<1>6. CASE DelegateDeletes
  BY <1>6 DEF DelegateDeletes, DelegateOutcomes, R!ServiceManager
<1>7. CASE DeleteEndpointSecret
  BY <1>7, <1>d, <1>o DEF DeleteEndpointSecret
<1>8. CASE DeleteSecretIfCurrent
  BY <1>8, <1>d, <1>o DEF DeleteSecretIfCurrent, Revalidated
<1>9. CASE DeleteSecretObject
  BY <1>9, <1>d, <1>o DEF DeleteSecretObject
<1> QED
  BY <1>1, <1>2, <1>3, <1>4, <1>5, <1>6, <1>7, <1>8, <1>9 DEF Manager

LEMMA SameReconcilerVars == UNCHANGED reconcilerVars <=> UNCHANGED R!vars
  BY DEF reconcilerVars, R!vars, R!apiVars, R!ctrlVars, R!histVars

LEMMA StepRefines == ClientType /\ [Next]_vars => [R!Next]_(R!vars)
<1> SUFFICES ASSUME ClientType, [Next]_vars PROVE R!Next \/ UNCHANGED reconcilerVars
  BY SameReconcilerVars
<1>1. CASE Kubernetes
  BY <1>1 DEF Kubernetes, R!Next
<1>2. CASE Restart
  BY <1>2 DEF Restart, R!Next
<1>3. CASE Manager
  BY <1>3, ManagerRefines DEF R!Next
<1>4. CASE UserChangesSecret \/ UNCHANGED vars
  BY <1>4 DEF UserChangesSecret, vars
<1> QED
  BY <1>1, <1>2, <1>3, <1>4 DEF Next

LEMMA ReconcilerInductive ==
    ASSUME ClientType, ReconcilerInv, [Next]_vars
    PROVE  ReconcilerInv'
<1>1. [RP!Next]_(RP!vars)
  BY StepRefines, SameNext, SameVars
<1>2. RP!IInv'
  BY <1>1, StatusFits, BoundsFit, RP!IInvInductive DEF ReconcilerInv
<1>3. RP!UidBounded'
  BY <1>1, StatusFits, BoundsFit, RP!BoundedInductive DEF ReconcilerInv
<1> QED
  BY <1>2, <1>3 DEF ReconcilerInv

-----------------------------------------------------------------------------
(* What the reconciler does to the state the client depends on. *)

\* The incarnation CreateOrUpdate runs on is touched and not confirmed.
LEMMA ObjectGuarded ==
    ASSUME ReconcilerInv
    PROVE  /\ obj.uid \in Nat
           /\ pc = "createOrUpdate" =>
                 obj.uid \in touched /\ obj.uid \notin confirmed /\ obj.uid \in 0 .. MaxUid
<1>1. /\ RP!TypeOK /\ RP!FinalizerMeansTouched /\ RP!CreateOnGuardedObject
      /\ RP!Api.uid <= MaxUid
  BY DEF ReconcilerInv, RP!IInv, RP!Safe, RP!UidBounded
<1>2. Len(log) \in Nat /\ Len(log) >= 1
  BY <1>1, StatusFits, BoundsFit, RP!VersionsInLog
<1>3. obj.uid \in Nat
  BY <1>1 DEF RP!TypeOK, RP!Version
<1>4. RP!Api.ex /\ RP!Api.fin => RP!Api.uid \in touched
  BY <1>1, <1>2 DEF RP!FinalizerMeansTouched, RP!Indices, RP!Api
<1>5. pc = "createOrUpdate" => RP!Api.ex /\ RP!Api.fin /\ RP!Api.uid = obj.uid
                               /\ obj.uid \notin confirmed
  BY <1>1 DEF RP!CreateOnGuardedObject
<1> QED
  BY <1>1, <1>3, <1>4, <1>5, ReconcilerBounds

\* While a call of the client runs, the reconciler keeps the object.
LEMMA KubernetesKeepsCall ==
    ASSUME Kubernetes
    PROVE  /\ pc \in {"createOrUpdate", "delete"} => UNCHANGED <<pc, obj>>
           /\ touched \subseteq touched' /\ UNCHANGED confirmed
<1>1. CASE R!Environment \/ R!Deliver \/ R!TimerFires
  BY <1>1 DEF R!Environment, R!UserCreate, R!UserEditSpec, R!UserDelete,
              R!OtherFinalizerRemoved, R!Deliver, R!TimerFires, R!histVars
<1>2. CASE R!Controller
  BY <1>2 DEF R!Controller, R!Start, R!AddFinalizer, R!FinalizerUpdateFails, R!PatchStatus,
              R!PatchDeleteStatus, R!RemoveFinalizer, R!CallCreateOrUpdate, R!histVars
<1> QED
  BY <1>1, <1>2 DEF Kubernetes

\* What a return of the client leaves of the histories.
LEMMA ReturnHistory ==
    /\ \A r : Returns(r) =>
          call' = NoCall /\ pc = "createOrUpdate" /\ UNCHANGED <<touched, confirmed>>
    /\ \A out : DeleteReturns(out) =>
          /\ call' = NoCall /\ pc = "delete" /\ UNCHANGED touched
          /\ out = "deleted" => confirmed' = confirmed \cup {obj.uid}
          /\ out = "error" => UNCHANGED confirmed
<1>1. \A r : Returns(r) =>
          call' = NoCall /\ pc = "createOrUpdate" /\ UNCHANGED <<touched, confirmed>>
  BY DEF Returns, R!CreateOrUpdateReturns, R!histVars
<1>2. ASSUME NEW out, DeleteReturns(out)
      PROVE  /\ call' = NoCall /\ pc = "delete" /\ UNCHANGED touched
             /\ out = "deleted" => confirmed' = confirmed \cup {obj.uid}
             /\ out = "error" => UNCHANGED confirmed
  <2>1. R!DeleteReturns(call.st, out) /\ call' = NoCall
    BY <1>2 DEF DeleteReturns
  <2>2. /\ out = "deleted" => R!DeleteResourceResult(out) = "deleted"
        /\ out = "error" => R!DeleteResourceResult(out) # "deleted"
    BY DEF R!DeleteResourceResult
  <2> QED
    BY <2>1, <2>2 DEF R!DeleteReturns
<1> QED
  BY <1>1, <1>2

-----------------------------------------------------------------------------
(* Type correctness. *)

LEMMA NoCallType ==
    /\ NoSecret \in Secret
    /\ NoCall \in [step : CallSteps, st : Statuses, resp : R!Responses,
                    want : Endpoints \cup {""}, record : Secret,
                    adopt : BOOLEAN, current : BOOLEAN]
    /\ NoCall.resp \in R!AnyResponses /\ NoCall.step = "none" /\ ~NoCall.current
<1>1. NoSecret \in Secret
  BY ReconcilerBounds DEF NoSecret, Secret
<1>2. R!NoResponse \in R!Responses /\ R!NoResponse \in R!AnyResponses
  BY FailureIsResponse DEF R!AnyResponses
<1> QED
  BY <1>1, <1>2 DEF NoCall, CallSteps, Statuses

LEMMA TroubleType ==
    (Trouble \/ NoTrouble) /\ troubles \in 0 .. MaxTroubles => troubles' \in 0 .. MaxTroubles
<1>1. MaxTroubles \in Nat
  BY SecretAssumption
<1> QED
  BY <1>1 DEF Trouble, NoTrouble

LEMMA ClientTypeInductive ==
    ASSUME ReconcilerInv, ClientType, CallInStep, [Next]_vars
    PROVE  ClientType'
<1> DEFINE CallType == [step : CallSteps, st : Statuses, resp : R!AnyResponses,
                        want : Endpoints \cup {""}, record : Secret,
                        adopt : BOOLEAN, current : BOOLEAN]
<1>s. secret \in Secret /\ secrets \in Nat
  BY DEF ClientType
<1>c. call \in CallType
  BY DEF ClientType
<1>z. 0 \in 0 .. MaxUid /\ secrets + 1 \in Nat
  BY <1>s, ReconcilerBounds
<1>n. NoCall \in CallType /\ NoSecret \in Secret
  BY NoCallType DEF NoCall
<1>e. ASSUME NEW s \in CallSteps, NEW rec \in Secret
      PROVE  [call EXCEPT !.step = s, !.record = rec] \in CallType
  BY DEF ClientType
<1>o. pc = "createOrUpdate" => obj.uid \in 0 .. MaxUid
  BY ObjectGuarded
<1>w. pc = "createOrUpdate" =>
         /\ [uid |-> secrets + 1, owner |-> OwnerUID(obj), data |-> call.want] \in Secret
         /\ [secret EXCEPT !.data = call.want,
                 !.owner = IF call.adopt THEN OwnerUID(obj) ELSE @] \in Secret
  <2>1. call.want \in Data \cup {""} /\ call.adopt \in BOOLEAN
    BY <1>c DEF Data
  <2>2. secret.owner \in 0 .. MaxUid
    BY <1>s DEF Secret
  <2> QED
    BY <1>o, <1>s, <1>z, <2>1, <2>2 DEF Secret, OwnerUID
<1>1. CASE Kubernetes \/ UNCHANGED vars
  BY <1>1 DEF Kubernetes, vars, secretVars, ClientType
<1>2. CASE Restart
  BY <1>2, <1>n DEF Restart, ClientType
<1>3. CASE UserChangesSecret
  <2>1. secrets' \in Nat /\ troubles' \in 0 .. MaxTroubles
    <3>1. secrets' = secrets \/ secrets' = secrets + 1
      BY <1>3 DEF UserChangesSecret
    <3>2. troubles' \in 0 .. MaxTroubles
      BY <1>3, TroubleType DEF UserChangesSecret, ClientType
    <3> QED
      BY <1>s, <1>z, <3>1, <3>2
  <2>2. secret' \in Secret
    <3>1. CASE \E d \in Data : secret' = [uid |-> secrets + 1, owner |-> 0, data |-> d]
      <4> PICK d \in Data : secret' = [uid |-> secrets + 1, owner |-> 0, data |-> d]
        BY <3>1
      <4>1. d \in Data \cup {""}
        OBVIOUS
      <4> QED
        BY <1>z, <4>1 DEF Secret
    <3>2. CASE secret' = [secret EXCEPT !.owner = 0]
      BY <1>s, <1>z, <3>2 DEF Secret
    <3>3. CASE \E d \in Data : secret' = [secret EXCEPT !.data = d]
      BY <1>s, <3>3 DEF Secret
    <3> QED
      BY <1>3, <1>n, <3>1, <3>2, <3>3 DEF UserChangesSecret
  <2>3. call' \in CallType
    BY <1>3 DEF UserChangesSecret, ClientType
  <2> QED
    BY <2>1, <2>2, <2>3 DEF ClientType
<1>4. CASE DelegateCreatesOrUpdates
  <2>1. troubles' \in 0 .. MaxTroubles /\ UNCHANGED <<secret, secrets>>
    BY <1>4, TroubleType DEF DelegateCreatesOrUpdates, ClientType
  <2>2. ASSUME NEW e \in Endpoints, NEW st \in Statuses, NEW r \in R!AnyResponses
        PROVE  [NoCall EXCEPT !.step = "sync", !.st = st, !.resp = r, !.want = e] \in CallType
    BY <1>n DEF CallSteps
  <2>3. \/ call' = call
        \/ \E e \in Endpoints, st \in Statuses, r \in R!AnyResponses :
              call' = [NoCall EXCEPT !.step = "sync", !.st = st, !.resp = r, !.want = e]
    BY <1>4 DEF DelegateCreatesOrUpdates
  <2>4. call' \in CallType
    BY <2>2, <2>3 DEF ClientType
  <2> QED
    BY <2>1, <2>4 DEF ClientType
<1>5. CASE SyncEndpointSecret
  <2>1. troubles' \in 0 .. MaxTroubles /\ UNCHANGED <<secret, secrets>>
    BY <1>5, TroubleType DEF SyncEndpointSecret, ClientType
  <2>2. ASSUME NEW b \in BOOLEAN
        PROVE  [call EXCEPT !.step = "update", !.record = secret, !.adopt = b] \in CallType
    BY DEF ClientType, CallSteps
  <2>3. "create" \in CallSteps
    BY DEF CallSteps
  <2>4. \/ call' = NoCall \/ call' = [call EXCEPT !.step = "create", !.record = NoSecret]
        \/ call' = [call EXCEPT !.step = "update", !.record = secret,
                       !.adopt = (secret.owner = 0 /\ secret.data = call.want)]
    BY <1>5, ReturnHistory DEF SyncEndpointSecret, SyncExistingEndpointSecret, Continue
  <2>5. call' \in CallType
    BY <1>e, <1>n, <2>2, <2>3, <2>4
  <2> QED
    BY <2>1, <2>5 DEF ClientType
<1>6. CASE CreateEndpointSecret
  <2>0. troubles' \in 0 .. MaxTroubles
    BY <1>6, TroubleType DEF CreateEndpointSecret, ClientType, Answered
  <2>1. secrets' \in Nat
    <3>1. secrets' = secrets \/ secrets' = secrets + 1
      BY <1>6 DEF CreateEndpointSecret
    <3> QED
      BY <1>s, <1>z, <3>1
  <2>2. "reread" \in CallSteps
    BY DEF CallSteps
  <2>3. call' \in CallType
    BY <1>6, <1>n, <1>e, <2>2, ReturnHistory DEF CreateEndpointSecret, Continue, Answered
  <2>4. secret' \in Secret
    BY <1>6, <1>w DEF CreateEndpointSecret, ClientType, CallInStep, At
  <2> QED
    BY <2>0, <2>1, <2>3, <2>4 DEF ClientType
<1>7. CASE UpdateSecretIfCurrent
  <2>1. troubles' \in 0 .. MaxTroubles /\ UNCHANGED <<secret, secrets>>
    BY <1>7, TroubleType DEF UpdateSecretIfCurrent, ClientType
  <2>2. [call EXCEPT !.step = "write", !.current = TRUE] \in CallType
    BY DEF ClientType, CallSteps
  <2>3. call' \in CallType
    BY <1>7, <1>n, <2>2, ReturnHistory DEF UpdateSecretIfCurrent, Revalidated
  <2> QED
    BY <2>1, <2>3 DEF ClientType
<1>8. CASE UpdateSecretObject
  <2>1. troubles' \in 0 .. MaxTroubles /\ UNCHANGED secrets
    BY <1>8, TroubleType DEF UpdateSecretObject, ClientType, Answered
  <2>2. call' \in CallType
    BY <1>8, <1>n, ReturnHistory DEF UpdateSecretObject, Answered
  <2>3. secret' \in Secret
    BY <1>8, <1>w DEF UpdateSecretObject, ClientType, CallInStep, At
  <2> QED
    BY <2>1, <2>2, <2>3 DEF ClientType
<1>9. CASE DelegateDeletes
  <2>1. ASSUME NEW st \in Statuses
        PROVE  [NoCall EXCEPT !.step = "cleanup", !.st = st] \in CallType
    BY <1>n DEF CallSteps
  <2>2. call' \in CallType /\ UNCHANGED <<secret, secrets, troubles>>
    BY <1>9, <2>1 DEF DelegateDeletes, ClientType
  <2> QED
    BY <2>2 DEF ClientType
<1>10. CASE DeleteEndpointSecret
  <2>1. troubles' \in 0 .. MaxTroubles /\ UNCHANGED <<secret, secrets>>
    BY <1>10, TroubleType DEF DeleteEndpointSecret, ClientType
  <2>2. "delete" \in CallSteps /\ secret \in Secret
    BY DEF CallSteps, ClientType
  <2>3. call' \in CallType
    BY <1>10, <1>n, <1>e, <2>2, ReturnHistory DEF DeleteEndpointSecret, Continue
  <2> QED
    BY <2>1, <2>3 DEF ClientType
<1>11. CASE DeleteSecretIfCurrent
  <2>1. troubles' \in 0 .. MaxTroubles /\ UNCHANGED <<secret, secrets>>
    BY <1>11, TroubleType DEF DeleteSecretIfCurrent, ClientType
  <2>2. [call EXCEPT !.step = "remove", !.current = TRUE] \in CallType
    BY DEF ClientType, CallSteps
  <2>3. call' \in CallType
    BY <1>11, <1>n, <2>2, ReturnHistory DEF DeleteSecretIfCurrent, Revalidated
  <2> QED
    BY <2>1, <2>3 DEF ClientType
<1>12. CASE DeleteSecretObject
  <2>1. troubles' \in 0 .. MaxTroubles /\ UNCHANGED secrets
    BY <1>12, TroubleType DEF DeleteSecretObject, ClientType
  <2>2. call' \in CallType /\ secret' \in Secret
    BY <1>12, <1>n, ReturnHistory DEF DeleteSecretObject, ClientType
  <2> QED
    BY <2>1, <2>2 DEF ClientType
<1> QED
  BY <1>1, <1>2, <1>3, <1>4, <1>5, <1>6, <1>7, <1>8, <1>9, <1>10, <1>11, <1>12
     DEF Next, Manager

-----------------------------------------------------------------------------
(* The calls of the client, and the Secrets it owns. *)

\* Between two returns the object is the same, and the step that is reached
\* belongs to the same call.
LEMMA CallInductive ==
    ASSUME SInv, [Next]_vars
    PROVE  CallInStep' /\ Decided'
<1> USE DEF SInv
<1>c. call \in [step : CallSteps, st : Statuses, resp : R!AnyResponses,
               want : Endpoints \cup {""}, record : Secret,
               adopt : BOOLEAN, current : BOOLEAN]
  BY DEF ClientType
<1>n. call' = NoCall => CallInStep' /\ Decided'
  BY NoCallType DEF CallInStep, Decided
<1>1. CASE Kubernetes
  <2>1. UNCHANGED <<secret, call>>
    BY <1>1 DEF Kubernetes
  <2>2. CASE call.step = "none"
    BY <2>1, <2>2 DEF CallInStep, Decided
  <2>3. CASE call.step # "none"
    <3>1. pc \in {"createOrUpdate", "delete"}
      BY <1>c, <2>3 DEF CallInStep, CallSteps
    <3>2. UNCHANGED <<pc, obj>>
      BY <1>1, <3>1, KubernetesKeepsCall
    <3> QED
      BY <2>1, <3>2 DEF CallInStep, Decided, Exists
  <2> QED
    BY <2>2, <2>3
<1>2. CASE Restart
  BY <1>2, <1>n DEF Restart
<1>3. CASE UserChangesSecret
  <2>1. call' = [call EXCEPT !.current = FALSE] /\ UNCHANGED <<pc, obj>>
    BY <1>3 DEF UserChangesSecret, reconcilerVars
  <2> QED
    BY <1>c, <2>1 DEF CallInStep, Decided
<1>4. CASE DelegateCreatesOrUpdates
  <2>1. CASE /\ UNCHANGED reconcilerVars
             /\ \E e \in Endpoints, st \in Statuses, r \in R!AnyResponses :
                   call' = [NoCall EXCEPT !.step = "sync", !.st = st, !.resp = r, !.want = e]
    <3>1. call'.step = "sync" /\ ~call'.current /\ pc' = "createOrUpdate"
      BY <1>4, <2>1 DEF DelegateCreatesOrUpdates, NoCall, reconcilerVars
    <3> QED
      BY <3>1 DEF CallInStep, Decided
  <2>2. CASE UNCHANGED <<call, secret>>
    BY <1>4, <2>2 DEF DelegateCreatesOrUpdates, At, CallInStep, Decided
  <2> QED
    BY <1>4, <2>1, <2>2 DEF DelegateCreatesOrUpdates
<1>5. CASE SyncEndpointSecret
  <2>1. CASE /\ UNCHANGED <<reconcilerVars, secret>>
             /\ call' = [call EXCEPT !.step = "update", !.record = secret,
                           !.adopt = (secret.owner = 0 /\ secret.data = call.want)]
             /\ secret.owner = obj.uid \/ (secret.owner = 0 /\ secret.data = call.want)
    <3>1. /\ call'.step = "update" /\ call'.record = secret /\ call'.want = call.want
          /\ call'.adopt = (secret.owner = 0 /\ secret.data = call.want)
          /\ call'.current = call.current /\ pc' = pc /\ obj' = obj
      BY <1>c, <2>1 DEF reconcilerVars
    <3>2. pc = "createOrUpdate" /\ ~call.current
      BY <1>5, <1>c DEF SyncEndpointSecret, CallInStep, Decided
    <3> QED
      BY <2>1, <3>1, <3>2 DEF CallInStep, Decided
  <2>2. CASE At("sync") /\ Continue("create", NoSecret) /\ UNCHANGED reconcilerVars
    <3>1. call'.step = "create" /\ call'.current = call.current /\ pc' = pc
      BY <1>c, <2>2 DEF Continue, reconcilerVars
    <3> QED
      BY <1>c, <2>2, <3>1 DEF At, CallInStep, Decided
  <2> QED
    BY <1>5, <1>n, <2>1, <2>2, ReturnHistory
       DEF SyncEndpointSecret, SyncExistingEndpointSecret, OwnerUID
<1>6. CASE CreateEndpointSecret
  <2>1. CASE At("create") /\ Continue("reread", NoSecret) /\ UNCHANGED reconcilerVars
    <3>1. call'.step = "reread" /\ call'.current = call.current /\ pc' = pc
      BY <1>c, <2>1 DEF Continue, reconcilerVars
    <3> QED
      BY <1>c, <2>1, <3>1 DEF At, CallInStep, Decided
  <2> QED
    BY <1>6, <1>n, <2>1, ReturnHistory DEF CreateEndpointSecret, Answered
<1>7. CASE UpdateSecretIfCurrent
  <2>1. CASE At("update") /\ Revalidated("write") /\ UNCHANGED secret
    <3>1. /\ call'.step = "write" /\ call'.record = call.record /\ call'.want = call.want
          /\ call'.adopt = call.adopt /\ pc' = pc /\ obj' = obj
      BY <1>c, <2>1 DEF Revalidated, reconcilerVars
    <3>2. Exists /\ secret = call.record
      BY <2>1 DEF Revalidated, ValidateSecretIdentity
    <3> QED
      BY <2>1, <3>1, <3>2 DEF At, CallInStep, Decided, Exists
  <2> QED
    BY <1>7, <1>n, <2>1, ReturnHistory DEF UpdateSecretIfCurrent
<1>8. CASE UpdateSecretObject
  BY <1>8, <1>n, ReturnHistory DEF UpdateSecretObject, Answered
<1>9. CASE DelegateDeletes
  <2>1. CASE /\ UNCHANGED reconcilerVars
             /\ \E st \in Statuses : call' = [NoCall EXCEPT !.step = "cleanup", !.st = st]
    <3>1. call'.step = "cleanup" /\ ~call'.current /\ pc' = "delete"
      BY <1>9, <2>1 DEF DelegateDeletes, NoCall, reconcilerVars
    <3> QED
      BY <3>1 DEF CallInStep, Decided
  <2>2. CASE UNCHANGED <<call, secret>>
    BY <1>9, <2>2 DEF DelegateDeletes, At, CallInStep, Decided
  <2> QED
    BY <1>9, <2>1, <2>2 DEF DelegateDeletes
<1>10. CASE DeleteEndpointSecret
  <2>1. CASE /\ At("cleanup") /\ Continue("delete", secret) /\ UNCHANGED reconcilerVars
             /\ secret.owner = obj.uid
    <3>1. /\ call'.step = "delete" /\ call'.record = secret /\ call'.current = call.current
          /\ pc' = pc /\ obj' = obj
      BY <1>c, <2>1 DEF Continue, reconcilerVars
    <3> QED
      BY <2>1, <3>1 DEF At, CallInStep, Decided
  <2> QED
    BY <1>10, <1>n, <2>1, ReturnHistory DEF DeleteEndpointSecret, OwnerUID
<1>11. CASE DeleteSecretIfCurrent
  <2>1. CASE At("delete") /\ Revalidated("remove") /\ UNCHANGED secret
    <3>1. call'.step = "remove" /\ call'.record = call.record /\ pc' = pc /\ obj' = obj
      BY <1>c, <2>1 DEF Revalidated, reconcilerVars
    <3>2. Exists /\ secret = call.record
      BY <2>1 DEF Revalidated, ValidateSecretIdentity
    <3> QED
      BY <2>1, <3>1, <3>2 DEF At, CallInStep, Decided, Exists
  <2> QED
    BY <1>11, <1>n, <2>1, ReturnHistory DEF DeleteSecretIfCurrent
<1>12. CASE DeleteSecretObject
  BY <1>12, <1>n, ReturnHistory DEF DeleteSecretObject
<1>13. CASE UNCHANGED vars
  BY <1>13 DEF vars, reconcilerVars, secretVars, CallInStep, Decided, Exists
<1> QED
  BY <1>1, <1>2, <1>3, <1>4, <1>5, <1>6, <1>7, <1>8, <1>9, <1>10, <1>11, <1>12, <1>13
     DEF Next, Manager

\* The labels: only CreateOrUpdate sets one, only a Delete that has found the
\* Secret gone or not ours confirms the incarnation.
LEMMA OwnerInductive ==
    ASSUME SInv, [Next]_vars
    PROVE  OwnerGuarded'
<1>i. ReconcilerInv /\ ClientType /\ CallInStep /\ Decided /\ OwnerGuarded
  BY DEF SInv
<1>k. ASSUME UNCHANGED <<secret, confirmed>>, touched \subseteq touched'
      PROVE  OwnerGuarded'
  BY <1>i, <1>k DEF OwnerGuarded, Exists
<1>g. ASSUME pc = "createOrUpdate", UNCHANGED <<touched, confirmed>>,
             secret'.owner = obj.uid \/ (secret'.owner = secret.owner /\ Exists)
      PROVE  OwnerGuarded'
  BY <1>g, <1>i, ObjectGuarded DEF OwnerGuarded, Exists
<1>u. ASSUME UNCHANGED secret, DeleteReturns("error") PROVE OwnerGuarded'
  <2>1. UNCHANGED <<touched, confirmed>>
    BY <1>u, ReturnHistory
  <2> QED
    BY <1>k, <1>u, <2>1
<1>r. ASSUME UNCHANGED secret, DeleteReturns("deleted"), ~Exists \/ secret.owner # obj.uid
      PROVE  OwnerGuarded'
  <2>1. UNCHANGED touched /\ confirmed' = confirmed \cup {obj.uid}
    BY <1>r, ReturnHistory
  <2> QED
    BY <1>i, <1>r, <2>1 DEF OwnerGuarded, Exists
<1>e. NoSecret.uid = 0 /\ NoSecret.owner = 0
  BY DEF NoSecret
<1>f. ~Exists' => OwnerGuarded'
  BY DEF OwnerGuarded
<1>1. CASE Kubernetes
  BY <1>1, <1>k, KubernetesKeepsCall DEF Kubernetes
<1>2. CASE Restart
  BY <1>2, <1>k DEF Restart, R!Restart, R!histVars
<1>3. CASE UserChangesSecret
  <2>1. UNCHANGED <<touched, confirmed>>
    BY <1>3 DEF UserChangesSecret, reconcilerVars
  <2>2. secret'.owner = 0 \/ (secret'.owner = secret.owner /\ Exists)
    <3>1. secret \in Secret
      BY <1>i DEF ClientType
    <3> QED
      <4>1. CASE \E d \in Data : secret' = [uid |-> secrets + 1, owner |-> 0, data |-> d]
        BY <4>1
      <4>2. CASE secret' = [secret EXCEPT !.owner = 0]
        BY <3>1, <4>2 DEF Secret
      <4>3. CASE Exists /\ \E d \in Data : secret' = [secret EXCEPT !.data = d]
        BY <3>1, <4>3 DEF Secret
      <4> QED
        BY <1>3, <1>e, <4>1, <4>2, <4>3 DEF UserChangesSecret
  <2> QED
    BY <1>i, <2>1, <2>2 DEF OwnerGuarded, Exists
<1>4. CASE DelegateCreatesOrUpdates
  BY <1>4, <1>k DEF DelegateCreatesOrUpdates, R!CreateOrUpdateReturns, R!histVars, reconcilerVars
<1>5. CASE SyncEndpointSecret
  BY <1>5, <1>k, ReturnHistory
     DEF SyncEndpointSecret, SyncExistingEndpointSecret, reconcilerVars
<1>6. CASE CreateEndpointSecret
  <2>1. UNCHANGED <<touched, confirmed>>
    BY <1>6, ReturnHistory DEF CreateEndpointSecret, Answered, reconcilerVars
  <2>2. CASE UNCHANGED secret
    BY <1>k, <2>1, <2>2
  <2>3. CASE secret' = [uid |-> secrets + 1, owner |-> OwnerUID(obj), data |-> call.want]
    <3>1. secret'.owner = obj.uid /\ pc = "createOrUpdate"
      BY <1>i, <1>6, <2>3 DEF OwnerUID, CreateEndpointSecret, CallInStep, At
    <3> QED
      BY <1>g, <2>1, <3>1
  <2> QED
    BY <1>6, <2>2, <2>3 DEF CreateEndpointSecret
<1>7. CASE UpdateSecretIfCurrent
  BY <1>7, <1>k, ReturnHistory DEF UpdateSecretIfCurrent, Revalidated, reconcilerVars
<1>8. CASE UpdateSecretObject
  <2>1. UNCHANGED <<touched, confirmed>> /\ pc = "createOrUpdate"
    BY <1>8, ReturnHistory DEF UpdateSecretObject, Answered
  <2>2. CASE UNCHANGED secret
    BY <1>k, <2>1, <2>2
  <2>3. CASE /\ call.current
             /\ secret' = [secret EXCEPT !.data = call.want,
                              !.owner = IF call.adopt THEN OwnerUID(obj) ELSE @]
    <3>1. secret'.owner = IF call.adopt THEN obj.uid ELSE secret.owner
      BY <1>i, <2>3 DEF OwnerUID, ClientType, Secret
    <3>2. Exists
      BY <1>i, <2>3 DEF Decided
    <3> QED
      BY <1>g, <2>1, <3>1, <3>2
  <2> QED
    BY <1>8, <2>2, <2>3 DEF UpdateSecretObject
<1>9. CASE DelegateDeletes
  <2>1. UNCHANGED secret
    BY <1>9 DEF DelegateDeletes
  <2>2. CASE UNCHANGED reconcilerVars
    BY <1>k, <2>1, <2>2 DEF reconcilerVars
  <2>3. CASE \E st \in Statuses, out \in DelegateOutcomes :
                out # "deleted" /\ R!DeleteReturns(st, out)
    <3>1. \A out \in DelegateOutcomes : out # "deleted" => R!DeleteResourceResult(out) # "deleted"
      BY DEF DelegateOutcomes, R!DeleteOutcomes, R!DeleteResourceResult
    <3>2. UNCHANGED <<touched, confirmed>>
      BY <2>3, <3>1 DEF R!DeleteReturns
    <3> QED
      BY <1>k, <2>1, <3>2
  <2> QED
    BY <1>9, <2>2, <2>3 DEF DelegateDeletes
<1>10. CASE DeleteEndpointSecret
  BY <1>10, <1>k, <1>u, <1>r DEF DeleteEndpointSecret, OwnerUID, reconcilerVars
<1>11. CASE DeleteSecretIfCurrent
  BY <1>11, <1>k, <1>u, <1>r DEF DeleteSecretIfCurrent, Revalidated, reconcilerVars
<1>12. CASE DeleteSecretObject
  <2>1. CASE secret' = NoSecret
    BY <1>e, <1>f, <2>1 DEF Exists
  <2>2. CASE UNCHANGED secret /\ DeleteReturns("error")
    BY <1>u, <2>2
  <2>3. CASE UNCHANGED secret /\ ~Exists /\ DeleteReturns("deleted")
    BY <1>r, <2>3
  <2> QED
    BY <1>12, <2>1, <2>2, <2>3 DEF DeleteSecretObject
<1>13. CASE UNCHANGED vars
  BY <1>13, <1>k DEF vars, reconcilerVars, secretVars
<1> QED
  BY <1>1, <1>2, <1>3, <1>4, <1>5, <1>6, <1>7, <1>8, <1>9, <1>10, <1>11, <1>12, <1>13
     DEF Next, Manager

LEMMA InitSInv == Init => SInv
<1> SUFFICES ASSUME Init PROVE SInv
  OBVIOUS
<1>1. ReconcilerInv
  BY SameInit, StatusFits, BoundsFit, RP!InitInv, RP!InitBounded DEF Init, ReconcilerInv
<1>2. NoCall \in [step : CallSteps, st : Statuses, resp : R!AnyResponses,
                 want : Endpoints \cup {""}, record : Secret,
                 adopt : BOOLEAN, current : BOOLEAN]
  BY NoCallType DEF NoCall
<1>3. 0 \in 0 .. MaxTroubles
  <2>1. MaxTroubles \in Nat
    BY SecretAssumption
  <2> QED
    BY <2>1
<1>4. ClientType
  BY <1>2, <1>3, NoCallType DEF Init, ClientType
<1>5. CallInStep /\ Decided /\ OwnerGuarded
  BY NoCallType DEF Init, CallInStep, Decided, OwnerGuarded, Exists, NoSecret
<1> QED
  BY <1>1, <1>4, <1>5 DEF SInv

LEMMA SInvInductive == SInv /\ [Next]_vars => SInv'
  BY ReconcilerInductive, ClientTypeInductive, CallInductive, OwnerInductive DEF SInv

LEMMA SInvInvariant == Spec => []SInv
  BY InitSInv, SInvInductive, PTL DEF Spec

-----------------------------------------------------------------------------
(* The theorems. *)

\* Every variable of the client and of the reconciler around it stays within
\* its type, and Secrets are labelled only with incarnations of the Stream.
THEOREM SecretTypeCorrect == Spec => []TypeOK
<1>1. SInv => TypeOK
  BY SameType DEF SInv, ReconcilerInv, RP!IInv, ClientType, TypeOK, R!AnyResponses
<1> QED
  BY <1>1, SInvInvariant, PTL

\* The client is a service manager: each of its steps is one the reconciler
\* allows every manager, or invisible to the reconciler.
THEOREM SecretRefinesReconciler == Spec => ImplementsReconciler
<1>1. Init => R!Init
  BY DEF Init
<1>2. SInv /\ [Next]_vars => [R!Next]_(R!vars)
  BY StepRefines DEF SInv
<1> QED
  BY <1>1, <1>2, SInvInvariant, PTL DEF Spec, ImplementsReconciler, R!Spec

\* A Secret labelled for a Stream exists only as long as that incarnation is
\* stored with its finalizer.
THEOREM SecretGoesWithStream == Spec => []NoSecretLeftBehind
<1>1. SInv => NoSecretLeftBehind
  BY DEF SInv, ReconcilerInv, RP!IInv, RP!Safe, RP!FinalizerRetention, OwnerGuarded,
         NoSecretLeftBehind, Api, R!Api, RP!Api
<1> QED
  BY <1>1, SInvInvariant, PTL

\* An existing Secret is changed or deleted by the operator only in the state
\* on which it decided to, and only its own Secret or one it adopts.
THEOREM SecretMutationIsGuarded == Spec => GuardedMutation
<1> DEFINE Guarded ==
      Exists /\ secret' # secret /\ call'.step # call.step =>
          /\ secret = call.record
          /\ \/ secret.owner = obj.uid
             \/ /\ secret.owner = 0 /\ secret.data = call.want
                /\ secret' = [secret EXCEPT !.owner = obj.uid]
<1>1. SInv /\ [Next]_vars => Guarded
  <2> SUFFICES ASSUME SInv, Next, Exists, secret' # secret, call'.step # call.step
               PROVE  /\ secret = call.record
                      /\ \/ secret.owner = obj.uid
                         \/ /\ secret.owner = 0 /\ secret.data = call.want
                            /\ secret' = [secret EXCEPT !.owner = obj.uid]
    BY DEF vars, secretVars
  <2> USE DEF SInv
  <2>c. call.step = [call EXCEPT !.current = FALSE].step
    BY DEF ClientType
  <2>1. CASE UpdateSecretObject
    <3>1. /\ At("write") /\ call.current
          /\ secret' = [secret EXCEPT !.data = call.want,
                           !.owner = IF call.adopt THEN OwnerUID(obj) ELSE @]
      BY <2>1 DEF UpdateSecretObject
    <3>2. secret = call.record
      BY <3>1 DEF Decided
    <3>3. CASE ~call.adopt
      BY <3>1, <3>2, <3>3 DEF Decided, At
    <3>4. CASE call.adopt
      <4>1. secret.owner = 0 /\ secret.data = call.want
        BY <3>1, <3>2, <3>4 DEF Decided, At
      <4>2. secret \in Secret
        BY DEF ClientType
      <4>3. secret' = [secret EXCEPT !.owner = obj.uid]
        BY <3>1, <3>4, <4>1, <4>2 DEF OwnerUID, Secret
      <4> QED
        BY <3>2, <4>1, <4>3
    <3> QED
      BY <3>3, <3>4
  <2>2. CASE DeleteSecretObject
    BY <2>2 DEF DeleteSecretObject, Decided, At
  <2>3. CASE UserChangesSecret
    BY <2>3, <2>c DEF UserChangesSecret
  <2> QED
    BY <2>1, <2>2, <2>3
       DEF Next, Kubernetes, Restart, Manager, DelegateCreatesOrUpdates, SyncEndpointSecret,
           CreateEndpointSecret, UpdateSecretIfCurrent, DelegateDeletes,
           DeleteEndpointSecret, DeleteSecretIfCurrent
<1>2. SInv /\ [Next]_vars => [Guarded]_vars
  BY <1>1
<1> QED
  BY <1>2, SInvInvariant, PTL DEF Spec, GuardedMutation

\* What holds of the reconciler with every service manager holds with this
\* client: the finalizer stays, CreateOrUpdate runs on the guarded object
\* only, and no wake-up is lost.
THEOREM SecretKeepsReconcilerSafe ==
    Spec => [](R!FinalizerRetention /\ R!CreateOnGuardedObject /\ R!NoLostWakeup)
<1>1. R!Init => RP!Init
  BY SameInit
<1>2. [R!Next]_(R!vars) => [RP!Next]_(RP!vars)
  BY SameNext, SameVars
<1>3. R!Spec => RP!Spec
  BY <1>1, <1>2, PTL DEF R!Spec, RP!Spec
<1>4. RP!Spec => [](RP!FinalizerRetention /\ RP!CreateOnGuardedObject /\ RP!NoLostWakeup)
  BY RP!FinalizerIsRetained, RP!CreateIsGuarded, RP!NoWakeupIsLost, StatusFits, BoundsFit, PTL
<1>5. RP!FinalizerRetention /\ RP!CreateOnGuardedObject /\ RP!NoLostWakeup
      => R!FinalizerRetention /\ R!CreateOnGuardedObject /\ R!NoLostWakeup
  BY Zenon DEF R!FinalizerRetention, R!CreateOnGuardedObject, R!NoLostWakeup,
               R!WakeupPending, R!ReconcilePredicate, R!Api,
               RP!FinalizerRetention, RP!CreateOnGuardedObject, RP!NoLostWakeup,
               RP!WakeupPending, RP!ReconcilePredicate, RP!Api
<1> QED
  BY <1>3, <1>4, <1>5, SecretRefinesReconciler, PTL DEF ImplementsReconciler
=============================================================================
