--------------------------- MODULE EndpointSecret ---------------------------
(***************************************************************************)
(* The endpoint Secret of a Stream: streamEndpointSecretClient wraps the   *)
(* Stream's service client (any one here) and keeps a Kubernetes Secret of *)
(* the same name, labelled with the UID of the Stream.  Users may own a    *)
(* Secret of that name, or change the operator's.  It is accessed through  *)
(* KubeSecretClient, whose reads go to the API server, one step per call.  *)
(* The reconciler around it is Reconciler.                                 *)
(*                                                                         *)
(* The clients of Queue and MySQL DbSystem differ from this one in where   *)
(* the desired data come from.                                             *)
(***************************************************************************)
EXTENDS Integers, Sequences

CONSTANTS Endpoints,                           \* values of messagesEndpoint
          MaxTroubles,                         \* bound: changes by users and failed calls
          MaxUid, MaxGen, MaxLag, MaxCrashes   \* bounds, see Reconciler

ASSUME SecretAssumption == MaxTroubles \in Nat /\ "user data" \notin Endpoints

ASSUME ReconcilerBounds ==
    MaxUid \in Nat /\ MaxGen \in Nat /\ MaxLag \in Nat \ {0} /\ MaxCrashes \in Nat

VARIABLES log, queued, timer, pc, obj, old, fresh, resp, crashes,
          touched, confirmed, tried,
          secret,    \* the stored Secret: its UID (0: none), owner label (0: none), data
          secrets,   \* number of Secrets created so far: the last UID
          call,      \* the memory of the running CreateOrUpdate or Delete
          troubles   \* changes by users and failed calls so far

\* Of the status the client looks at Active only.
Statuses == {"", "Active"}

MergeReason(stored, before, after) == IF after = before THEN stored ELSE after

R == INSTANCE Reconciler WITH
       Status <- Statuses, EmptyStatus <- "", MergePatch <- MergeReason,
       ZeroDuration <- FALSE

Api == R!Api

reconcilerVars == <<log, queued, timer, pc, obj, old, fresh, resp, crashes,
                    touched, confirmed, tried>>
secretVars     == <<secret, secrets, call, troubles>>
vars           == <<reconcilerVars, secretVars>>

Data   == Endpoints \cup {"user data"}
Secret == [uid : Nat, owner : 0 .. MaxUid, data : Data \cup {""}]

NoSecret == [uid |-> 0, owner |-> 0, data |-> ""]

CallSteps == {"none", "sync", "create", "reread", "update", "write",
              "cleanup", "delete", "remove"}

NoCall == [step |-> "none", st |-> "", resp |-> R!NoResponse, want |-> "",
           record |-> NoSecret, adopt |-> FALSE, current |-> FALSE]

TypeOK ==
    /\ R!TypeOK
    /\ secret \in Secret /\ secrets \in Nat
    /\ call \in [step : CallSteps, st : Statuses, resp : R!Responses,
                 want : Endpoints \cup {""}, record : Secret,
                 adopt : BOOLEAN, current : BOOLEAN]
    /\ troubles \in 0 .. MaxTroubles

Init ==
    /\ R!Init
    /\ secret = NoSecret /\ secrets = 0
    /\ call = NoCall /\ troubles = 0

At(step) == call.step = step
Exists   == secret.uid # 0

Trouble   == troubles < MaxTroubles /\ troubles' = troubles + 1
NoTrouble == UNCHANGED troubles

-----------------------------------------------------------------------------
(* Users change the Secret; what the operator has read of it is outdated.   *)

UserChangesSecret ==
    /\ Trouble
    /\ \/ /\ ~Exists
          /\ \E d \in Data : secret' = [uid |-> secrets + 1, owner |-> 0, data |-> d]
          /\ secrets' = secrets + 1
       \/ /\ Exists
          /\ \/ secret' = NoSecret
             \/ secret.owner # 0 /\ secret' = [secret EXCEPT !.owner = 0]
             \/ \E d \in Data \ {secret.data} : secret' = [secret EXCEPT !.data = d]
          /\ UNCHANGED secrets
    /\ call' = [call EXCEPT !.current = FALSE]
    /\ UNCHANGED reconcilerVars

-----------------------------------------------------------------------------
(* streamEndpointSecretClient.CreateOrUpdate. *)

Continue(step, record) == call' = [call EXCEPT !.step = step, !.record = record]

\* Mutant: the failed sync asks for a requeue without a duration.
SyncFailureWithRequeue == [ok |-> FALSE, requeue |-> TRUE, after |-> FALSE]

\* An error of the sync: OSOKResponse{IsSuccessful: false}.
SyncFailure == [ok |-> FALSE, requeue |-> FALSE, after |-> FALSE]

Returns(r) ==
    /\ R!CreateOrUpdateReturns(call.st, r)
    /\ call' = NoCall

\* A write of the sync took effect; its answer may get lost.
Answered ==
    \/ NoTrouble /\ Returns(call.resp)
    \/ Trouble /\ Returns(SyncFailure)

\* Mutant: the label is the name, which all incarnations share.
OwnerName(v) == MaxUid + 1

\* streamEndpointSecretOwnerUID.
OwnerUID(v) == v.uid

\* The wrapped client returns.  A successful response for an Active object is
\* followed by the sync, which first loads the endpoint of the stream.
DelegateCreatesOrUpdates ==
    /\ pc = "createOrUpdate" /\ At("none")
    /\ \E st \in Statuses, r \in R!AnyResponses :
          IF r.ok /\ st = "Active"
            THEN \/ /\ \E e \in Endpoints :
                         call' = [NoCall EXCEPT !.step = "sync", !.st = st,
                                                !.resp = r, !.want = e]
                    /\ NoTrouble /\ UNCHANGED reconcilerVars
                 \/ /\ R!CreateOrUpdateReturns(st, SyncFailure)
                    /\ Trouble /\ UNCHANGED call
            ELSE R!CreateOrUpdateReturns(st, r) /\ NoTrouble /\ UNCHANGED call
    /\ UNCHANGED <<secret, secrets>>

\* syncExistingEndpointSecret: an owned Secret is brought up to date, an
\* unlabelled one that has the desired data is adopted, no other is touched.
SyncExistingEndpointSecret(record) ==
    LET owned     == record.owner = OwnerUID(obj)
        adoptable == record.owner = 0 /\ record.data = call.want
    IN  \/ owned /\ record.data = call.want /\ Returns(call.resp)
        \/ /\ (owned /\ record.data # call.want) \/ adoptable
           /\ call' = [call EXCEPT !.step = "update", !.record = record, !.adopt = adoptable]
           /\ UNCHANGED reconcilerVars
        \/ ~owned /\ ~adoptable /\ Returns(SyncFailure)

\* GetSecretRecord, before and after a Create that met an existing Secret.
SyncEndpointSecret ==
    /\ call.step \in {"sync", "reread"}
    /\ \/ Trouble /\ Returns(SyncFailure)
       \/ NoTrouble /\ Exists /\ SyncExistingEndpointSecret(secret)
       \/ /\ NoTrouble /\ ~Exists
          /\ IF At("sync") THEN Continue("create", NoSecret) /\ UNCHANGED reconcilerVars
             ELSE Returns(SyncFailure)
    /\ UNCHANGED <<secret, secrets>>

CreateEndpointSecret ==
    /\ At("create")
    /\ \/ /\ Trouble /\ Returns(SyncFailure)
          /\ UNCHANGED <<secret, secrets>>
       \/ /\ ~Exists
          /\ secret' = [uid |-> secrets + 1, owner |-> OwnerUID(obj), data |-> call.want]
          /\ secrets' = secrets + 1
          /\ Answered
       \/ /\ NoTrouble /\ Exists
          /\ Continue("reread", NoSecret)
          /\ UNCHANGED <<reconcilerVars, secret, secrets>>

\* Mutant: the Secret is taken for the one that was read before.
SecretIdentityAssumed(record) == TRUE

\* validateSecretIdentity: same UID, labels and data as in the record.
ValidateSecretIdentity(record) == secret = record

\* The Secret is read again and compared with the record on which the
\* decision was taken; then it is written or deleted in this resourceVersion.
Revalidated(step) ==
    /\ Exists /\ ValidateSecretIdentity(call.record)
    /\ call' = [call EXCEPT !.step = step, !.current = TRUE]
    /\ UNCHANGED reconcilerVars

UpdateSecretIfCurrent ==
    /\ At("update")
    /\ \/ Trouble /\ Returns(SyncFailure)
       \/ Revalidated("write") /\ NoTrouble
       \/ /\ ~(Exists /\ ValidateSecretIdentity(call.record))
          /\ NoTrouble /\ Returns(SyncFailure)
    /\ UNCHANGED <<secret, secrets>>

\* updateSecretObject: labels only when the Secret is adopted.
UpdateSecretObject ==
    /\ At("write")
    /\ \/ Trouble /\ Returns(SyncFailure) /\ UNCHANGED secret
       \/ /\ call.current
          /\ secret' = [secret EXCEPT !.data = call.want,
                          !.owner = IF call.adopt THEN OwnerUID(obj) ELSE @]
          /\ Answered
       \/ /\ ~call.current /\ NoTrouble
          /\ Returns(SyncFailure) /\ UNCHANGED secret
    /\ UNCHANGED secrets

-----------------------------------------------------------------------------
(* streamEndpointSecretClient.Delete. *)

\* The generated runtime reports a resource that is not found as deleted.
DelegateOutcomes == R!DeleteOutcomes \ {"404 NotFound"}

DelegateDeletes ==
    /\ pc = "delete" /\ At("none")
    /\ \E st \in Statuses, out \in DelegateOutcomes :
          IF out = "deleted"
            THEN /\ call' = [NoCall EXCEPT !.step = "cleanup", !.st = st]
                 /\ UNCHANGED reconcilerVars
            ELSE R!DeleteReturns(st, out) /\ UNCHANGED call
    /\ UNCHANGED <<secret, secrets, troubles>>

DeleteReturns(out) ==
    /\ R!DeleteReturns(call.st, out)
    /\ call' = NoCall

\* deleteEndpointSecret: a missing or unowned Secret is left as it is.
DeleteEndpointSecret ==
    /\ At("cleanup")
    /\ LET owned == Exists /\ secret.owner = OwnerUID(obj)
       IN  \/ Trouble /\ DeleteReturns("error")
           \/ ~owned /\ NoTrouble /\ DeleteReturns("deleted")
           \/ owned /\ NoTrouble /\ Continue("delete", secret) /\ UNCHANGED reconcilerVars
    /\ UNCHANGED <<secret, secrets>>

\* Mutant: a Secret that has changed is taken for one that is not ours.
DeleteSecretConflictIgnored ==
    /\ At("delete")
    /\ \/ Trouble /\ DeleteReturns("error")
       \/ Revalidated("remove") /\ NoTrouble
       \/ secret # call.record /\ NoTrouble /\ DeleteReturns("deleted")
    /\ UNCHANGED <<secret, secrets>>

DeleteSecretIfCurrent ==
    /\ At("delete")
    /\ \/ Trouble /\ DeleteReturns("error")
       \/ Revalidated("remove") /\ NoTrouble
       \/ ~Exists /\ NoTrouble /\ DeleteReturns("deleted")
       \/ /\ Exists /\ ~ValidateSecretIdentity(call.record)
          /\ NoTrouble /\ DeleteReturns("error")
    /\ UNCHANGED <<secret, secrets>>

\* deleteSecretObject, with UID and resourceVersion as preconditions.
DeleteSecretObject ==
    /\ At("remove")
    /\ \/ Trouble /\ DeleteReturns("error") /\ UNCHANGED secret
       \/ /\ call.current /\ secret' = NoSecret
          /\ \/ NoTrouble /\ DeleteReturns("deleted")
             \/ Trouble /\ DeleteReturns("error")
       \/ ~Exists /\ NoTrouble /\ DeleteReturns("deleted") /\ UNCHANGED secret
       \/ Exists /\ ~call.current /\ NoTrouble /\ DeleteReturns("error") /\ UNCHANGED secret
    /\ UNCHANGED secrets

-----------------------------------------------------------------------------

\* The rest of the reconciler and its surroundings.
Kubernetes ==
    /\ R!Environment \/ R!Deliver \/ R!TimerFires \/ R!Controller
    /\ UNCHANGED <<secret, secrets, call, troubles>>

Restart ==
    /\ R!Restart
    /\ call' = NoCall
    /\ UNCHANGED <<secret, secrets, troubles>>

Manager ==
    \/ DelegateCreatesOrUpdates \/ SyncEndpointSecret \/ CreateEndpointSecret
    \/ UpdateSecretIfCurrent \/ UpdateSecretObject
    \/ DelegateDeletes \/ DeleteEndpointSecret \/ DeleteSecretIfCurrent
    \/ DeleteSecretObject

Next == Kubernetes \/ Restart \/ Manager \/ UserChangesSecret

Spec == Init /\ [][Next]_vars

-----------------------------------------------------------------------------
(* Properties. *)

\* The operator changes or deletes an existing Secret only in the state on
\* which it has decided to, and only its own or one it adopts: whatever users
\* do between its reads and its write, it neither overwrites their changes nor
\* touches their Secret, nor that of another incarnation of the Stream
\* (syncExistingEndpointSecret, deleteEndpointSecret, validateSecretIdentity).
GuardedMutation ==
    [][Exists /\ secret' # secret /\ call'.step # call.step =>
          /\ secret = call.record
          /\ \/ secret.owner = obj.uid
             \/ /\ secret.owner = 0 /\ secret.data = call.want
                /\ secret' = [secret EXCEPT !.owner = obj.uid]]_vars

\* A Secret labelled for a Stream goes with it: as long as the Secret exists,
\* that incarnation of the Stream is stored and has the finalizer, so that
\* some later delete will clean up (Delete of the wrapper, Reconcile).
NoSecretLeftBehind ==
    Exists /\ secret.owner # 0 => Api.ex /\ Api.uid = secret.owner /\ Api.fin

\* The client is a service manager: what holds of the reconciler with any
\* service manager holds with this one.
ImplementsReconciler == R!Spec
=============================================================================
