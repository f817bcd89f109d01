------------------------------ MODULE Operator ------------------------------
(***************************************************************************)
(* The operator for one custom resource: BaseReconciler (Reconciler) with  *)
(* the generated runtime (GeneratedRuntime) as its service manager, between *)
(* the Kubernetes API server and an OCI service (OciService).              *)
(***************************************************************************)
EXTENDS GeneratedRuntime, Integers, Sequences

CONSTANTS MaxUid, MaxGen, MaxLag, MaxCrashes \* bounds, see Reconciler

ASSUME ReconcilerBounds ==
    MaxUid \in Nat /\ MaxGen \in Nat /\ MaxLag \in Nat \ {0} /\ MaxCrashes \in Nat

VARIABLES log, queued, timer, pc, obj, old, fresh, resp, crashes,
          touched, confirmed, tried

\* The generated runtime never asks for a requeue without a duration.
R == INSTANCE Reconciler WITH
       Status <- OSOKStatus, EmptyStatus <- NoStatus, MergePatch <- MergeFrom,
       ZeroDuration <- FALSE

Api == R!Api

reconcilerVars == <<log, queued, timer, pc, obj, old, fresh, resp, crashes,
                    touched, confirmed, tried>>
runtimeVars    == <<ociVars, call, faults>>
vars           == <<reconcilerVars, runtimeVars>>

Init == R!Init /\ OciInit /\ call = NoCall /\ faults = 0

TypeOK == R!TypeOK /\ OciTypeOK /\ RuntimeTypeOK

\* Users, here of objects nobody else puts finalizers on, who do not edit
\* what they have deleted (Reconciler is checked without these limits).
Users ==
    \/ R!UserCreate /\ ~Api'.ext
    \/ R!UserEditSpec /\ ~Api.del
    \/ R!UserDelete

\* What the reconciler and its surroundings do without the service manager.
Kubernetes ==
    /\ Users \/ R!Deliver \/ R!TimerFires \/ R!Controller
    /\ UNCHANGED runtimeVars

\* A restart also ends the call in flight; what OCI accepted stays accepted.
Restart ==
    /\ R!Restart
    /\ call' = NoCall
    /\ UNCHANGED <<ociVars, faults>>

CallCreateOrUpdate ==
    /\ pc = "createOrUpdate"
    /\ CreateOrUpdate(obj.uid, obj.gen, obj.st)
    /\ UNCHANGED reconcilerVars

CallDelete ==
    /\ pc = "delete"
    /\ DeleteWithResult(obj.uid, obj.gen, obj.st)
    /\ UNCHANGED reconcilerVars

Step == RuntimeStep /\ UNCHANGED reconcilerVars

CreateOrUpdateReturns ==
    /\ At("written")
    /\ R!CreateOrUpdateReturns(call.st, ResponseFor(call.st))
    /\ call' = NoCall
    /\ UNCHANGED <<ociVars, faults>>

DeleteReturns ==
    /\ At("deleted")
    /\ R!DeleteReturns(call.st, call.out)
    /\ call' = NoCall
    /\ UNCHANGED <<ociVars, faults>>

Manager ==
    \/ CallCreateOrUpdate \/ CallDelete \/ Step
    \/ CreateOrUpdateReturns \/ DeleteReturns

Next ==
    \/ Kubernetes \/ Restart \/ Manager
    \/ Oci /\ UNCHANGED <<reconcilerVars, call, faults>>
    \/ DeletedOutOfBand /\ Fault /\ UNCHANGED <<reconcilerVars, call>>

Spec == Init /\ [][Next]_vars

\* Informer, queue, reconcile and OCI keep going.  A finalizer update that is
\* possible again and again is not refused for ever.
Fairness ==
    /\ WF_vars(R!Deliver /\ UNCHANGED runtimeVars)
    /\ WF_vars(R!TimerFires /\ UNCHANGED runtimeVars)
    /\ WF_vars(R!Controller /\ UNCHANGED runtimeVars)
    /\ SF_vars(R!AddFinalizer /\ UNCHANGED runtimeVars)
    /\ SF_vars(R!RemoveFinalizer /\ UNCHANGED runtimeVars)
    /\ WF_vars(Manager)
    /\ WF_vars(ResourceProgresses /\ UNCHANGED <<reconcilerVars, call, faults>>)
    /\ WF_vars(WorkRequestEnds /\ UNCHANGED <<reconcilerVars, call, faults>>)

FairSpec == Spec /\ Fairness

-----------------------------------------------------------------------------
(* Properties. *)

\* Resource i replaces one that somebody else has deleted.
Replacement(i) ==
    \E j \in OCIDs : j # i /\ res[j].own = res[i].own /\ res[j].state = "REMOVED"

\* No resource is left behind: while a resource that was created for an
\* incarnation of the custom resource remains in OCI, that incarnation is
\* stored with the OSOK finalizer, whatever was lost, stale or restarted.
\* Not so for the replacement of a resource deleted out of band: if its OCID
\* is not stored, Delete lists the new one, deletes the old one and takes the
\* 404 for an answer (confirmDeleteIfAlreadyPending, invokeDeleteOperation).
\* One incarnation of the name only (MaxUid = 1): a DELETED resource of the one
\* before, still listed, ranks above a FAILED one (deleteListItemPriority).
\* And only where reads are current (~HidesNew, ~WorkRequestsVanish): Delete takes
\* a resource or a work request that it cannot read for one that is gone.
NoOrphan ==
    \A i \in OCIDs :
        Remaining(i) /\ ~Replacement(i) => Api.ex /\ Api.uid = res[i].own /\ Api.fin

\* No two resources are created for one incarnation, unless somebody else has
\* deleted one of them.
NoDuplicate ==
    \A i, j \in OCIDs :
        /\ res[i].own # 0 /\ res[i].own = res[j].own
        /\ "REMOVED" \notin {res[i].state, res[j].state}
        => i = j

\* A CreateOrUpdate that ends in Active, and so without a requeue, has given
\* the tracked resource the spec it was called with.
ActiveMeansApplied ==
    pc = "patchStatus" /\ obj.st.reason = "Active" =>
        obj.st.ocid # 0 /\ res[obj.st.ocid].gen = obj.gen

\* Every step is a step of the reconciler with an arbitrary service manager,
\* or leaves it alone: R!Spec, with the status that the manager returns named
\* instead of searched for among all of OSOKStatus.
ReconcilerStep ==
    \/ R!Environment \/ R!Deliver \/ R!TimerFires \/ R!Restart \/ R!Controller
    \/ /\ call.st \in OSOKStatus
       /\ \/ \E r \in R!AnyResponses : R!CreateOrUpdateReturns(call.st, r)
          \/ \E out \in R!DeleteOutcomes : R!DeleteReturns(call.st, out)

ImplementsReconciler == R!Init /\ [][ReconcilerStep]_reconcilerVars

\* Why a deletion may stay where it is.  The delete failed in OCI: its work
\* request stays tracked and every retry polls it again.  Or a stale status
\* patch left another operation's work request under the phase delete.
DeletionBlocked ==
    \/ \E w \in WorkRequestIDs :
          wrs[w].phase = "delete" /\ res[wrs[w].res].state = "FAILED"
    \/ ResolveTrackedWorkRequest(Api.st) # 0 /\ PhaseConflicts(Api.st)

\* A deletion ends: OCI deletes the resource, the runtime confirms it and the
\* object goes away, although resources are hidden, creates fail, work requests
\* vanish and updates conflict.  Only DeletionBlocked keeps it from that.
DeletionEnds == (Api.ex /\ Api.del) ~> (~Api.ex \/ DeletionBlocked)
=============================================================================
