---------------------------- MODULE AsyncStatus ----------------------------
(***************************************************************************)
(* The shared status tracker of pkg/servicemanager/async_status.go and the *)
(* lifecycle classification of generatedruntime/status_async.go, as        *)
(* functions from a status to a status.                                    *)
(*                                                                         *)
(* Of OSOKStatus the model keeps the tracked OCID (0: none), the reason    *)
(* (the condition set last) and async.current.  A leaf of async.current    *)
(* that is not set is "" or 0; a nil async.current has no leaf set.        *)
(***************************************************************************)
EXTENDS Naturals

CONSTANTS OCIDs,         \* identifiers of OCI resources, none of them 0
          WorkRequestIDs \* identifiers of OCI work requests, none of them 0

ASSUME IdentifierAssumption == 0 \notin OCIDs /\ 0 \notin WorkRequestIDs

Phases     == {"create", "update", "delete"}
Classes    == {"pending", "succeeded", "failed", "unknown"}
Conditions == {"Provisioning", "Updating", "Terminating", "Active", "Failed"}

\* OSOKAsyncOperation.
AsyncOperation == [source : {"", "lifecycle", "workrequest"},
                   phase  : Phases \cup {""},
                   wr     : WorkRequestIDs \cup {0},
                   class  : Classes \cup {""}]

NoAsync == [source |-> "", phase |-> "", wr |-> 0, class |-> ""]

OSOKStatus == [ocid : OCIDs \cup {0}, reason : Conditions \cup {""},
               async : AsyncOperation]

NoStatus == [ocid |-> 0, reason |-> "", async |-> NoAsync]

\* client.MergeFrom: the patch holds the leaves that differ between before
\* and after; a tracker that becomes nil is removed as a whole.
MergeFrom(stored, before, after) ==
    LET leaf(s, b, a) == IF a = b THEN s ELSE a
    IN  [ocid   |-> leaf(stored.ocid, before.ocid, after.ocid),
         reason |-> leaf(stored.reason, before.reason, after.reason),
         async  |-> IF after.async = NoAsync /\ before.async # NoAsync
                      THEN NoAsync
                      ELSE [f \in DOMAIN NoAsync |->
                              leaf(stored.async[f], before.async[f], after.async[f])]]

ConditionForAsyncPhase(phase) ==
    CASE phase = "update" -> "Updating"
      [] phase = "delete" -> "Terminating"
      [] OTHER            -> "Provisioning"

\* ProjectAsyncCondition: the condition, and whether to requeue.
ProjectAsyncCondition(class, phase) ==
    CASE class = "pending" ->
           [condition |-> ConditionForAsyncPhase(phase), requeue |-> TRUE]
      [] class = "succeeded" /\ phase = "delete" ->
           [condition |-> "Terminating", requeue |-> TRUE]
      [] class = "succeeded" /\ phase # "delete" ->
           [condition |-> "Active", requeue |-> FALSE]
      [] OTHER ->
           [condition |-> "Failed", requeue |-> FALSE]

\* preservedInFlightWorkRequestID: an observation that carries no work
\* request keeps the one being tracked, within a phase and while in flight.
PreservedInFlightWorkRequestID(previous, cur) ==
    IF ProjectAsyncCondition(cur.class, cur.phase).requeue /\ previous.phase = cur.phase
      THEN previous.wr ELSE 0

ApplyAsyncOperation(st, cur) ==
    [st EXCEPT
       !.reason = ProjectAsyncCondition(cur.class, cur.phase).condition,
       !.async  = [cur EXCEPT !.wr =
                     IF cur.wr # 0 THEN cur.wr
                     ELSE PreservedInFlightWorkRequestID(st.async, cur)]]

ClearAsyncOperation(st) == [st EXCEPT !.async = NoAsync]

\* ResolveTrackedWorkRequest, for resources without legacy fields: the work
\* request the tracker follows, or 0.
ResolveTrackedWorkRequest(st) ==
    IF st.async.source = "workrequest" /\ st.async.phase # "" THEN st.async.wr ELSE 0

\* WorkRequestAsyncAdapter.Normalize, for the statuses of OciService.
Normalize(status) ==
    CASE status = "IN_PROGRESS" -> "pending"
      [] status = "SUCCEEDED"   -> "succeeded"
      [] status = "FAILED"      -> "failed"

\* seedOpeningWorkRequestID.
SeedOpeningWorkRequestID(st, phase, wr) ==
    ApplyAsyncOperation(st, [source |-> "workrequest", phase |-> phase,
                             wr |-> wr, class |-> "pending"])

\* markWorkRequestOperation with a given class.
SetWorkRequestOperation(st, phase, wr, class) ==
    ApplyAsyncOperation(st, [source |-> "workrequest", phase |-> phase,
                             wr |-> wr, class |-> class])

MarkFailure(st) ==
    IF st.async = NoAsync THEN [st EXCEPT !.reason = "Failed"]
    ELSE ApplyAsyncOperation(st, [st.async EXCEPT !.class = "failed"])

\* Mutant: a condition that OSOKStatus does not have.
MarkDeletedAsDeleted(st) == [ClearAsyncOperation(st) EXCEPT !.reason = "Deleted"]

MarkDeleted(st) == [ClearAsyncOperation(st) EXCEPT !.reason = "Terminating"]

\* markCondition(Terminating).
MarkTerminating(st) ==
    ApplyAsyncOperation(st, [source |-> "lifecycle", phase |-> "delete",
                             wr |-> 0, class |-> "pending"])

\* classifyLifecycleAsyncSemantics for the states of OciService: the
\* operation to project, or NoAsync when the state is ACTIVE or nothing tells
\* the phase of a failure.
ClassifyLifecycle(st, state, fallbackPhase) ==
    LET op(phase, class) == [source |-> "lifecycle", phase |-> phase,
                             wr |-> 0, class |-> class]
        phase == IF fallbackPhase # "" THEN fallbackPhase ELSE st.async.phase
    IN  CASE state = "CREATING" -> op("create", "pending")
          [] state = "UPDATING" -> op("update", "pending")
          [] state = "DELETING" -> op("delete", "pending")
          [] state = "DELETED"  -> op("delete", "succeeded")
          [] state = "FAILED" /\ phase # "" -> op(phase, "unknown")
          [] OTHER -> NoAsync

\* applySuccessWithIdentityAndRequeue: the status after observing resource id
\* in a lifecycle state.
ApplySuccess(st, id, state, fallbackPhase) ==
    LET tracked == [st EXCEPT !.ocid = id]
        op == ClassifyLifecycle(tracked, state, fallbackPhase)
    IN  IF op # NoAsync THEN ApplyAsyncOperation(tracked, op)
        ELSE [ClearAsyncOperation(tracked) EXCEPT
                !.reason = IF state = "FAILED" THEN "Failed" ELSE "Active"]

\* Mutant: the requeue is requested without a duration.
ResponseWithoutDuration(st) ==
    [ok |-> st.reason # "Failed", after |-> FALSE,
     requeue |-> st.async # NoAsync
                 /\ ProjectAsyncCondition(st.async.class, st.async.phase).requeue]

\* The OSOKResponse that goes with a status: success unless Failed, requeue
\* with a positive duration while something is in flight.
ResponseFor(st) ==
    LET again == st.async # NoAsync
                 /\ ProjectAsyncCondition(st.async.class, st.async.phase).requeue
    IN  [ok |-> st.reason # "Failed", requeue |-> again, after |-> again]
=============================================================================
