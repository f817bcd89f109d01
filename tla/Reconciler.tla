----------------------------- MODULE Reconciler -----------------------------
(***************************************************************************)
(* BaseReconciler of pkg/core/reconciler.go, for one custom resource name, *)
(* between the Kubernetes API server and ANY service manager.              *)
(*                                                                         *)
(* The API server is the sequence `log': its last element is the stored    *)
(* object, its first one is the object in the informer cache, and the      *)
(* others are the watch events that have not reached the cache yet.  A     *)
(* reconcile reads the cache (manager clients do), so it may work on an    *)
(* old version; `fresh' says whether the version it holds is still the     *)
(* stored one, which is what a resourceVersion comparison finds out.       *)
(*                                                                         *)
(* The service manager is only constrained by pkg/servicemanager/          *)
(* interfaces.go: CreateOrUpdate and Delete may leave any status in the    *)
(* object and return any result.  What holds here therefore holds for each *)
(* of the service managers.                                                *)
(***************************************************************************)
EXTENDS Integers, Sequences

CONSTANTS Status,              \* the values of an object's status
          EmptyStatus,         \* the status of an object nobody reconciled
          MergePatch(_, _, _), \* MergePatch(stored, old, new): status patch
          ZeroDuration,        \* may ShouldRequeue come without a duration?
          MaxUid,              \* bound: incarnations of the name
          MaxGen,              \* bound: generations of an incarnation
          MaxLag,              \* bound: undelivered watch events
          MaxCrashes           \* bound: operator restarts

ASSUME StatusAssumption ==
    /\ EmptyStatus \in Status
    /\ \A a, b, c \in Status : MergePatch(a, b, c) \in Status

ASSUME BoundsAssumption ==
    /\ ZeroDuration \in BOOLEAN
    /\ MaxUid \in Nat /\ MaxGen \in Nat
    /\ MaxLag \in Nat \ {0} /\ MaxCrashes \in Nat

VARIABLES log,        \* undelivered versions, cached one first, stored one last
          queued,     \* the request is in the controller's work queue
          timer,      \* the request is waiting for a requeue delay
          pc,         \* the step the running reconcile has reached
          obj,        \* the object in the memory of the running reconcile
          old,        \* oldObj: the status the patch is computed against
          fresh,      \* obj has the stored object's resourceVersion
          resp,       \* what the service manager answered
          crashes,    \* operator restarts so far
          touched,    \* history: incarnations CreateOrUpdate was called on
          confirmed,  \* history: incarnations whose delete was reported done
          tried       \* history: latest version CreateOrUpdate was called on

apiVars  == <<log>>
ctrlVars == <<queued, timer, pc, obj, old, fresh, resp, crashes>>
histVars == <<touched, confirmed, tried>>
vars     == <<apiVars, ctrlVars, histVars>>

-----------------------------------------------------------------------------
(* Objects.  A version says whether the object exists (ex), which          *)
(* incarnation of the name it is (uid), its generation, whether it carries *)
(* the OSOK finalizer (fin) or somebody else's (ext), whether its          *)
(* deletionTimestamp is set (del), and its status.                         *)

Version == [ex : BOOLEAN, uid : Nat, gen : Nat, fin : BOOLEAN,
            ext : BOOLEAN, del : BOOLEAN, st : Status]

Gone(u) == [ex |-> FALSE, uid |-> u, gen |-> 0, fin |-> FALSE,
            ext |-> FALSE, del |-> FALSE, st |-> EmptyStatus]

Cached == log[1]
Api    == log[Len(log)]
Room   == Len(log) <= MaxLag

\* The stored object becomes v; an object whose deletion was requested goes
\* away with its last finalizer.
Store(v) ==
    log' = Append(log, IF v.del /\ ~v.fin /\ ~v.ext THEN Gone(v.uid) ELSE v)

\* Somebody other than the running reconcile changes the stored object.
StoreByOther(v) ==
    /\ Room
    /\ Store(v)
    /\ fresh' = FALSE

Steps == {"idle", "addFinalizer", "createOrUpdate", "patchStatus",
          "delete", "patchDeleteStatus", "removeFinalizer"}

\* OSOKResponse: IsSuccessful, ShouldRequeue, and whether RequeueDuration > 0.
Responses == [ok : BOOLEAN, requeue : BOOLEAN, after : BOOLEAN]

NoResponse == [ok |-> FALSE, requeue |-> FALSE, after |-> FALSE]

\* What Delete can return: the deleted flag, or an error by HTTP status and code.
DeleteOutcomes == {"deleted", "pending", "404 NotFound",
                   "404 NotAuthorizedOrNotFound", "409 IncorrectState", "error"}

TypeOK ==
    /\ log \in Seq(Version) /\ Len(log) \in 1 .. MaxLag + 1
    /\ queued \in BOOLEAN /\ timer \in BOOLEAN
    /\ pc \in Steps
    /\ obj \in Version /\ old \in Status /\ fresh \in BOOLEAN
    /\ resp \in Responses
    /\ crashes \in 0 .. MaxCrashes
    /\ touched \subseteq Nat /\ confirmed \subseteq Nat
    /\ tried \in [uid : Nat, gen : Nat]

Init ==
    /\ log = <<Gone(0)>>
    /\ queued = FALSE /\ timer = FALSE
    /\ pc = "idle"
    /\ obj = Gone(0) /\ old = EmptyStatus /\ fresh = FALSE
    /\ resp = NoResponse
    /\ crashes = 0
    /\ touched = {} /\ confirmed = {}
    /\ tried = [uid |-> 0, gen |-> 0]

-----------------------------------------------------------------------------
(* Users and other controllers. *)

UserCreate ==
    /\ ~Api.ex /\ Api.uid < MaxUid
    /\ \E e \in BOOLEAN :
          StoreByOther([ex |-> TRUE, uid |-> Api.uid + 1, gen |-> 1, fin |-> FALSE,
                        ext |-> e, del |-> FALSE, st |-> EmptyStatus])
    /\ UNCHANGED <<queued, timer, pc, obj, old, resp, crashes, histVars>>

UserEditSpec ==
    /\ Api.ex /\ Api.gen < MaxGen
    /\ StoreByOther([Api EXCEPT !.gen = @ + 1])
    /\ UNCHANGED <<queued, timer, pc, obj, old, resp, crashes, histVars>>

\* The API server sets deletionTimestamp and increments the generation.
UserDelete ==
    /\ Api.ex /\ ~Api.del
    /\ StoreByOther([Api EXCEPT !.del = TRUE, !.gen = @ + 1])
    /\ UNCHANGED <<queued, timer, pc, obj, old, resp, crashes, histVars>>

\* Another controller drops its own finalizer.
OtherFinalizerRemoved ==
    /\ Api.ex /\ Api.ext
    /\ StoreByOther([Api EXCEPT !.ext = FALSE])
    /\ UNCHANGED <<queued, timer, pc, obj, old, resp, crashes, histVars>>

-----------------------------------------------------------------------------
(* The informer, the event filter and the work queue. *)

\* Mutant: the filter lets only deletions through, not spec changes.
PredicateWithoutGeneration(a, b) == ~a.ex \/ ~b.ex \/ (~a.del /\ b.del)

\* Create and delete events pass; an update passes when the generation
\* changed or when deletionTimestamp has just been set.
ReconcilePredicate(a, b) ==
    \/ ~a.ex \/ ~b.ex
    \/ a.gen # b.gen
    \/ ~a.del /\ b.del

Deliver ==
    /\ Len(log) > 1
    /\ log' = Tail(log)
    /\ queued' = (queued \/ ReconcilePredicate(log[1], log[2]))
    /\ UNCHANGED <<timer, pc, obj, old, fresh, resp, crashes, histVars>>

TimerFires ==
    /\ timer
    /\ timer' = FALSE /\ queued' = TRUE
    /\ UNCHANGED <<apiVars, pc, obj, old, fresh, resp, crashes, histVars>>

\* The process dies and comes back: memory, queue and delays are lost, the
\* cache is listed anew and the object found there arrives as a create event.
Restart ==
    /\ crashes < MaxCrashes
    /\ crashes' = crashes + 1
    /\ log' = <<Api>>
    /\ queued' = Api.ex /\ timer' = FALSE
    /\ pc' = "idle"
    /\ obj' = Gone(0) /\ old' = EmptyStatus /\ fresh' = FALSE /\ resp' = NoResponse
    /\ UNCHANGED histVars

-----------------------------------------------------------------------------
(* Reconcile. *)

\* Mutant: the worker does not become free again.
FinishWithoutRelease(requeueAfter) ==
    /\ pc' = "done"
    /\ timer' = (timer \/ requeueAfter)
    /\ obj' = Gone(0) /\ old' = EmptyStatus /\ fresh' = FALSE /\ resp' = NoResponse

\* Reconcile returns, with RequeueAfter > 0 or not; its locals die.
Finish(requeueAfter) ==
    /\ pc' = "idle"
    /\ timer' = (timer \/ requeueAfter)
    /\ obj' = Gone(0) /\ old' = EmptyStatus /\ fresh' = FALSE /\ resp' = NoResponse

\* CreateOrUpdate is about to be called on version v.
CallCreateOrUpdate(v) ==
    /\ pc' = "createOrUpdate"
    /\ obj' = v /\ old' = v.st
    /\ touched' = touched \cup {v.uid}
    /\ tried' = [uid |-> v.uid, gen |-> v.gen]

\* Dequeue and Get; an object that is gone ends the reconcile.  (Any other
\* Get error puts the request back, which leaves the state as it was.)
Start ==
    /\ pc = "idle" /\ queued
    /\ queued' = FALSE
    /\ \/ /\ ~Cached.ex
          /\ UNCHANGED <<pc, obj, old, fresh, touched, tried>>
       \/ /\ Cached.ex
          /\ fresh' = (Len(log) = 1)
          /\ \/ /\ Cached.del /\ Cached.fin
                /\ pc' = "delete" /\ obj' = Cached /\ old' = Cached.st
                /\ UNCHANGED <<touched, tried>>
             \/ /\ ~Cached.fin
                /\ pc' = "addFinalizer" /\ obj' = Cached
                /\ UNCHANGED <<old, touched, tried>>
             \/ /\ ~Cached.del /\ Cached.fin
                /\ CallCreateOrUpdate(Cached)
    /\ UNCHANGED <<apiVars, timer, resp, crashes, confirmed>>

\* The API server accepts an Update of the version it stores, but never a
\* new finalizer on an object that is being deleted.
UpdateAccepted(v) == fresh /\ Room /\ (v.fin /\ ~Api.fin => ~Api.del)

\* Mutant: the finalizer is added in memory and never sent.
AddFinalizerInMemory ==
    /\ pc = "addFinalizer"
    /\ UpdateAccepted([obj EXCEPT !.fin = TRUE])
    /\ CallCreateOrUpdate([obj EXCEPT !.fin = TRUE])
    /\ UNCHANGED <<apiVars, queued, timer, fresh, resp, crashes, confirmed>>

AddFinalizer ==
    /\ pc = "addFinalizer"
    /\ UpdateAccepted([obj EXCEPT !.fin = TRUE])
    /\ Store([obj EXCEPT !.fin = TRUE])
    /\ CallCreateOrUpdate([obj EXCEPT !.fin = TRUE])
    /\ UNCHANGED <<queued, timer, fresh, resp, crashes, confirmed>>

\* Mutant: a refused addFinalizer is logged but does not end the reconcile.
AddFinalizerErrorIgnored ==
    /\ pc = "addFinalizer"
    /\ CallCreateOrUpdate(obj)
    /\ UNCHANGED <<apiVars, queued, timer, fresh, resp, crashes, confirmed>>

\* Mutant: a refused update is not retried.
FinalizerUpdateNotRetried ==
    /\ pc \in {"addFinalizer", "removeFinalizer"}
    /\ Finish(FALSE)
    /\ UNCHANGED <<apiVars, queued, crashes, histVars>>

\* The Update that adds or removes the finalizer is refused: a conflict, an
\* object that is gone, a forbidden change, a lost connection.
FinalizerUpdateFails ==
    /\ pc \in {"addFinalizer", "removeFinalizer"}
    /\ Finish(TRUE)
    /\ UNCHANGED <<apiVars, queued, crashes, histVars>>

\* ReconcileResource, the call itself: the manager leaves status st.
CreateOrUpdateReturns(st, r) ==
    /\ pc = "createOrUpdate"
    /\ obj' = [obj EXCEPT !.st = st]
    /\ resp' = r
    /\ pc' = "patchStatus"
    /\ UNCHANGED <<apiVars, queued, timer, old, fresh, crashes, histVars>>

\* A status patch names the object, not its uid or version, and changes
\* only what the diff of old and new holds.
PatchApplied ==
    /\ Api.ex
    /\ LET st == MergePatch(Api.st, old, obj.st)
       IN  \/ st = Api.st /\ UNCHANGED log
           \/ st # Api.st /\ Room /\ Store([Api EXCEPT !.st = st])

\* ReconcileResource after the call.  A response that asks for a requeue
\* gets RequeueAfter with the manager's duration when it is a success, and a
\* rate-limited requeue when it is a failure; any other ends the reconcile,
\* a failure included.
RequeueOf(r) == r.requeue /\ (r.ok => r.after)

PatchStatus ==
    /\ pc = "patchStatus"
    /\ \/ PatchApplied /\ Finish(RequeueOf(resp))
       \/ UNCHANGED log /\ Finish(TRUE)
    /\ UNCHANGED <<queued, crashes, histVars>>

\* deleteResourceResult: which outcomes of Delete count as deleted, as
\* pending, and as an error.
DeleteResourceResult(out) ==
    CASE out \in {"deleted", "404 NotFound"}        -> "deleted"
      [] out \in {"pending", "409 IncorrectState"} -> "pending"
      [] OTHER                                     -> "error"

\* The delete call of Reconcile; what is left is decided from its result
\* and from whether the status changed.
DeleteReturns(st, out) ==
    /\ pc = "delete"
    /\ \/ /\ DeleteResourceResult(out) = "deleted"
          /\ pc' = "removeFinalizer"
          /\ confirmed' = confirmed \cup {obj.uid}
          /\ obj' = [obj EXCEPT !.st = st]
          /\ UNCHANGED <<timer, old, fresh, resp>>
       \/ /\ DeleteResourceResult(out) # "deleted" /\ st # old
          /\ pc' = "patchDeleteStatus"
          /\ obj' = [obj EXCEPT !.st = st]
          /\ UNCHANGED <<timer, old, fresh, resp, confirmed>>
       \/ /\ DeleteResourceResult(out) # "deleted" /\ st = old
          /\ Finish(TRUE)
          /\ UNCHANGED confirmed
    /\ UNCHANGED <<apiVars, queued, crashes, touched, tried>>

\* Mutant: a delete in progress is not polled again.
PatchDeleteStatusNoRequeue ==
    /\ pc = "patchDeleteStatus"
    /\ PatchApplied \/ UNCHANGED log
    /\ Finish(FALSE)
    /\ UNCHANGED <<queued, crashes, histVars>>

\* patchDeleteStatusIfChanged: applied or not, the reconcile is requeued.
PatchDeleteStatus ==
    /\ pc = "patchDeleteStatus"
    /\ PatchApplied \/ UNCHANGED log
    /\ Finish(TRUE)
    /\ UNCHANGED <<queued, crashes, histVars>>

RemoveFinalizer ==
    /\ pc = "removeFinalizer"
    /\ UpdateAccepted([obj EXCEPT !.fin = FALSE])
    /\ Store([Api EXCEPT !.fin = FALSE])
    /\ Finish(FALSE)
    /\ UNCHANGED <<queued, crashes, histVars>>

\* Any manager: any status, any response; a zero duration only if allowed.
AnyResponses == {r \in Responses : r.requeue /\ ~ZeroDuration => r.after}

ServiceManager ==
    \/ \E st \in Status, r \in AnyResponses : CreateOrUpdateReturns(st, r)
    \/ \E st \in Status, out \in DeleteOutcomes : DeleteReturns(st, out)

Environment ==
    UserCreate \/ UserEditSpec \/ UserDelete \/ OtherFinalizerRemoved

Controller ==
    \/ Start \/ AddFinalizer \/ FinalizerUpdateFails \/ PatchStatus
    \/ PatchDeleteStatus \/ RemoveFinalizer

Next ==
    \/ Environment
    \/ Deliver \/ TimerFires \/ Restart
    \/ Controller
    \/ ServiceManager

Spec == Init /\ [][Next]_vars

\* The informer, the queue and the running reconcile keep going; calls
\* return.  Deletion needs more of the outside world: OCI does delete the
\* resource in the end, which Delete reports when it is called for the stored
\* version again and again, and API updates that are acceptable again and
\* again are not refused for ever.
Fairness ==
    /\ WF_vars(Deliver) /\ WF_vars(TimerFires) /\ WF_vars(Controller)
    /\ WF_vars(ServiceManager)
    /\ SF_vars(AddFinalizer) /\ SF_vars(RemoveFinalizer)
    /\ SF_vars(fresh /\ \E st \in Status : DeleteReturns(st, "deleted"))

FairSpec == Spec /\ Fairness

-----------------------------------------------------------------------------
(* Properties. *)

\* An incarnation CreateOrUpdate was ever called on keeps the OSOK finalizer
\* until a Delete call has reported its OCI resource gone: neither a stale
\* cache, a restart, a refused update nor a re-created name lets the object
\* go away earlier (Reconcile, addFinalizer, removeFinalizer).
FinalizerRetention ==
    \A u \in touched : u \in confirmed \/ (Api.ex /\ Api.uid = u /\ Api.fin)

\* While CreateOrUpdate runs, and until its status is patched, the stored
\* object is the incarnation it was called on, guarded by the finalizer, and
\* its delete has not been confirmed: no resource is created for an object
\* that is gone, and the status patch, which names neither uid nor version,
\* cannot land on a later incarnation of the name.
CreateOnGuardedObject ==
    pc \in {"createOrUpdate", "patchStatus"} =>
        /\ Api.ex /\ Api.uid = obj.uid /\ Api.fin
        /\ obj.uid \notin confirmed

\* The request will be processed again: it is queued or delayed, an event on
\* its way to the cache will enqueue it, or the running reconcile is in a
\* step that ends with a requeue unless it completes the deletion.
WakeupPending ==
    \/ queued \/ timer
    \/ \E i \in 1 .. Len(log) - 1 : ReconcilePredicate(log[i], log[i + 1])
    \/ pc \in {"addFinalizer", "delete", "patchDeleteStatus", "removeFinalizer"}

\* No wake-up is lost: a deletion that still waits for the OSOK finalizer, and
\* a generation CreateOrUpdate has not been called on, always have another
\* reconcile coming, though resyncs and status changes are filtered out
\* (ReconcilePredicate) and Reconcile swallows its errors.
NoLostWakeup ==
    Api.ex /\ (IF Api.del THEN Api.fin ELSE tried # [uid |-> Api.uid, gen |-> Api.gen])
        => WakeupPending

\* A deletion the reconciler is responsible for ends with the finalizer
\* removed, provided the service goes on confirming it.
DeletionCompletes ==
    (Api.ex /\ Api.del /\ Api.fin) ~> ~(Api.ex /\ Api.del /\ Api.fin)

\* Every generation of every incarnation is handed to CreateOrUpdate, unless
\* an edit or a deletion overtakes it.
GenerationReachesManager ==
    \A u \in 1 .. MaxUid, g \in 1 .. MaxGen :
        (Api.ex /\ Api.uid = u /\ Api.gen = g /\ ~Api.del) ~>
            \/ tried = [uid |-> u, gen |-> g]
            \/ ~Api.ex \/ Api.uid # u \/ Api.gen # g
=============================================================================
