-------------------------- MODULE GeneratedRuntime --------------------------
(***************************************************************************)
(* generatedruntime.ServiceClient: CreateOrUpdate and DeleteWithResult of  *)
(* one custom resource, one step per OCI call.  The configuration is the   *)
(* common one: formal semantics, Get and List operations, list-before-     *)
(* create, a retry token, the "required" delete policy with confirm-delete *)
(* follow-up, and either no work requests or work requests in all phases.  *)
(*                                                                         *)
(* A call works on the copy of the object it was given; `call' holds what  *)
(* it keeps in memory: the step it has reached, the incarnation and        *)
(* generation of the object, its status, the OCID it works on and what it  *)
(* returned.  A read and the decision taken from its answer are one step.  *)
(*                                                                         *)
(* The status field ocid stands for status.ocid and for the id a response  *)
(* body leaves in the status, which statusID reads when ocid is empty.     *)
(***************************************************************************)
EXTENDS OciService

CONSTANT MaxFaults \* bound: OCI calls that fail for no reason of their own

ASSUME FaultsAssumption == MaxFaults \in Nat

VARIABLES call, faults

CallSteps == {"none", "resolve", "liveGet", "create", "update", "followUp",
              "pollWrite", "readWrite", "resolveDelete", "confirmPending",
              "invokeDelete", "confirmDelete", "pollDelete", "readDelete",
              "written", "deleted"}

NoCall == [step |-> "none", uid |-> 0, gen |-> 0, phase |-> "", st |-> NoStatus,
           id |-> 0, out |-> ""]

DeleteResults == {"deleted", "pending", "404 NotFound", "error"}

RuntimeTypeOK ==
    /\ call \in [step : CallSteps, uid : Nat, gen : Nat, phase : Phases \cup {""},
                 st : OSOKStatus, id : OCIDs \cup {0}, out : DeleteResults \cup {""}]
    /\ faults \in 0 .. MaxFaults

At(step) == call.step = step

GoTo(step, st, id) ==
    call' = [call EXCEPT !.step = step, !.st = st, !.id = id]

\* CreateOrUpdate returns; its response follows from the status (ResponseFor).
Written(st) == GoTo("written", st, 0)

\* failCreateOrUpdate.
Fail == Written(MarkFailure(call.st))

\* DeleteWithResult returns.
Deleted(st, out) ==
    call' = [call EXCEPT !.step = "deleted", !.st = st, !.id = 0, !.out = out]

-----------------------------------------------------------------------------
(* Reading. *)

\* deleteListItemPriority.
DeleteListItemPriority(i) ==
    CASE res[i].state \in {"CREATING", "UPDATING", "ACTIVE"} -> 4
      [] res[i].state \in {"DELETING", "DELETED"}            -> 3
      [] OTHER                                               -> 2

\* readResourceWithList: the items a phase lets through.  Several are an
\* error, none is errResourceNotFound.
ListMatches(phase) ==
    LET listed == {i \in OCIDs : Readable(i)}
    IN  IF phase = "delete"
          THEN {i \in listed : \A j \in listed :
                  DeleteListItemPriority(j) <= DeleteListItemPriority(i)}
          ELSE {i \in listed : res[i].state \in {"CREATING", "UPDATING", "ACTIVE"}}

\* readResource: Get, and List when Get does not find the resource.
Matches(phase, id) == IF Readable(id) THEN {id} ELSE ListMatches(phase)

\* An OCI call fails: a timeout, a lost connection, throttling, a 5xx.  In
\* CreateOrUpdate also a spec that validateMutationPolicy rejects.
Fault   == faults < MaxFaults /\ faults' = faults + 1
NoFault == UNCHANGED faults

NoEffect == UNCHANGED ociVars

\* A read fails, or does not tell which resource is meant.
ReadFails(found) == Fault \/ (NoFault /\ Cardinality(found) > 1)

\* A read finds resource i and no other, or nothing (errResourceNotFound).
Finds(found, i)  == NoFault /\ found = {i}
FindsNone(found) == NoFault /\ found = {}

-----------------------------------------------------------------------------
(* CreateOrUpdate. *)

\* The work request to resume comes before everything else.
CreateOrUpdate(uid, gen, st) ==
    LET new == [NoCall EXCEPT !.uid = uid, !.gen = gen, !.st = st]
        wr  == ResolveTrackedWorkRequest(st)
    IN  /\ At("none")
        /\ call' = CASE wr = 0 -> [new EXCEPT !.step = "resolve"]
                     [] wr # 0 /\ st.async.phase # "delete" ->
                          [new EXCEPT !.step = "pollWrite"]
                     [] OTHER ->
                          [new EXCEPT !.step = "written", !.st = MarkFailure(st)]
        /\ NoFault /\ NoEffect

\* shouldInvokeUpdate: the resource drifted from the spec and is not in
\* transition.
ShouldInvokeUpdate(i) ==
    /\ res[i].state \notin {"CREATING", "UPDATING", "DELETING"}
    /\ res[i].gen # call.gen

\* Mutant: an existing resource is observed, whatever its spec.
ReconcileExistingResourceUnchecked(i) ==
    NoFault /\ Written(ApplySuccess(call.st, i, res[i].state, ""))

\* reconcileExistingResource, once the live resource has been read: update
\* or observe it.
ReconcileExistingResource(i) ==
    /\ NoFault
    /\ IF ShouldInvokeUpdate(i)
         THEN GoTo("update", [call.st EXCEPT !.ocid = i], i)
         ELSE Written(ApplySuccess(call.st, i, res[i].state, ""))

\* resolveExistingBeforeCreate: the tracked resource or, if there is none (or
\* none any more, which clears the tracked identity), the only listed one.
ResolveExistingBeforeCreate ==
    /\ At("resolve") /\ NoEffect
    /\ LET st    == call.st
           found == IF Readable(st.ocid) THEN {st.ocid} ELSE ListMatches("create")
       IN  \/ ReadFails(found) /\ Fail
           \/ Readable(st.ocid) /\ ReconcileExistingResource(st.ocid)
           \/ /\ ~Readable(st.ocid)
              /\ \/ FindsNone(found) /\ GoTo("create", [st EXCEPT !.ocid = 0], 0)
                 \/ \E i \in found :
                       Finds(found, i) /\ GoTo("liveGet", [st EXCEPT !.ocid = 0], i)

\* loadLiveMutationResponse: a listed resource is read again; if it has gone
\* meanwhile, it is created.
LoadLiveMutationResponse ==
    /\ At("liveGet") /\ NoEffect
    /\ \/ Fault /\ Fail
       \/ Readable(call.id) /\ ReconcileExistingResource(call.id)
       \/ ~Readable(call.id) /\ NoFault /\ GoTo("create", call.st, 0)

\* After an accepted Create or Update: startGeneratedWorkRequest records the
\* OCID the response has and the work request, which is polled; without work
\* requests the resource is read first.
AfterWrite(phase, id, w) ==
    IF phase \in WorkRequests
      THEN GoTo("pollWrite", SeedOpeningWorkRequestID(
                  [call.st EXCEPT !.ocid = IF id # 0 THEN id ELSE @], phase, w), 0)
      ELSE call' = [call EXCEPT !.step = "followUp", !.phase = phase, !.id = id]

\* Mutant: Create is sent without a retry token.
NoRetryToken(uid) == 0

\* resourceRetryToken: the UID of the object.
ResourceRetryToken(uid) == uid

\* createOrReadResource.  A fault may hit the response after the call took
\* effect.  Nothing of it is recorded then.
CreateOrReadResource ==
    /\ At("create")
    /\ \/ \E i \in OCIDs, w \in WorkRequestIDs \cup {0} :
             /\ CreateAccepted(call.uid, ResourceRetryToken(call.uid), call.gen, i, w)
             /\ \/ NoFault /\ AfterWrite("create", IF IdInResponse THEN i ELSE 0, w)
                \/ Fault /\ Fail
       \/ Fault /\ NoEffect /\ Fail
       \/ /\ CreateRefused(ResourceRetryToken(call.uid), call.gen)
          /\ NoFault /\ NoEffect /\ Fail

UpdateExistingResource ==
    /\ At("update")
    /\ \/ \E w \in WorkRequestIDs \cup {0} :
             /\ UpdateAccepted(call.id, call.gen, w)
             /\ \/ NoFault /\ AfterWrite("update", call.id, w)
                \/ Fault /\ Fail
       \/ Fault /\ NoEffect /\ Fail
       \/ UpdateRefused(call.id) /\ NoFault /\ NoEffect /\ Fail

\* followUpAfterWrite: read after write.  A created resource that cannot be
\* read yet is taken from the response; any other failure loses its OCID.
FollowUpAfterWrite ==
    /\ At("followUp") /\ NoEffect
    /\ LET found == Matches(call.phase, call.id)
       IN  \/ ReadFails(found) /\ Fail
           \/ \E i \in found :
                /\ Finds(found, i)
                /\ Written(ApplySuccess(call.st, i, res[i].state, call.phase))
           \/ /\ FindsNone(found)
              /\ IF call.phase = "create"
                   THEN Written(ApplySuccess(call.st, call.id, "CREATING", "create"))
                   ELSE Fail

\* buildGeneratedWorkRequestAsyncOperation gives an error for a work request
\* whose own phase (its action or operation type) is not the tracked one.
PhaseConflicts(st) ==
    wrs[ResolveTrackedWorkRequest(st)].phase # st.async.phase

\* resumeGeneratedWorkRequestCreateOrUpdate: an error of the poll is recorded.
ResumeWorkRequestCreateOrUpdate ==
    /\ At("pollWrite") /\ NoEffect
    /\ LET st     == call.st
           wr     == ResolveTrackedWorkRequest(st)
           status == wrs[wr].status
           mark(class) == SetWorkRequestOperation(st, st.async.phase, wr, class)
       IN  \/ Fault /\ Fail
           \/ (status = "UNKNOWN" \/ PhaseConflicts(st)) /\ NoFault /\ Fail
           \/ /\ status # "UNKNOWN" /\ ~PhaseConflicts(st) /\ NoFault
              /\ IF Normalize(status) # "succeeded"
                   THEN Written(mark(Normalize(status)))
                   ELSE GoTo("readWrite", st, IF st.ocid # 0 THEN st.ocid ELSE wrs[wr].res)

\* completeGeneratedWorkRequestWrite.
CompleteWorkRequestWrite ==
    /\ At("readWrite") /\ NoEffect
    /\ LET st    == call.st
           phase == st.async.phase
           found == Matches(phase, call.id)
           mark(class) == SetWorkRequestOperation(st, phase, st.async.wr, class)
       IN  \/ ReadFails(found) /\ Written(mark("failed"))
           \/ \E i \in found :
                /\ Finds(found, i)
                /\ Written(ApplySuccess(st, i, res[i].state, phase))
           \/ /\ FindsNone(found)
              /\ Written(mark(IF phase = "create" THEN "pending" ELSE "failed"))

-----------------------------------------------------------------------------
(* DeleteWithResult. *)

\* A tracked delete work request is resumed; else the resource to delete is
\* the tracked one or is looked up (resolveDeleteID).
DeleteWithResult(uid, gen, st) ==
    LET tracked == ResolveTrackedWorkRequest(st) # 0 /\ st.async.phase = "delete"
    IN  /\ At("none")
        /\ call' = [NoCall EXCEPT
                      !.uid = uid, !.gen = gen, !.st = st, !.id = st.ocid,
                      !.step = CASE tracked -> "pollDelete"
                                 [] ~tracked /\ st.ocid # 0 -> "confirmPending"
                                 [] OTHER -> "resolveDelete"]
        /\ NoFault /\ NoEffect

\* Mutant: an object without a recorded OCID has nothing to delete.
ResolveDeleteIDRecordedOnly ==
    /\ At("resolveDelete") /\ NoFault /\ NoEffect
    /\ Deleted(MarkDeleted(call.st), "deleted")

\* resolveDeleteID without a tracked OCID; nothing found means deleted.
ResolveDeleteID ==
    /\ At("resolveDelete") /\ NoEffect
    /\ LET found == ListMatches("delete")
       IN  \/ ReadFails(found) /\ Deleted(call.st, "error")
           \/ FindsNone(found) /\ Deleted(MarkDeleted(call.st), "deleted")
           \/ \E i \in found :
                Finds(found, i) /\ GoTo("confirmPending", [call.st EXCEPT !.ocid = i], i)

\* Mutant: a deletion in progress counts as done (bestEffortDeleteOutcome).
BestEffortDeleteOutcome(state) ==
    \/ state \in {"DELETED", "DELETING"} /\ Deleted(MarkDeleted(call.st), "deleted")
    \/ state \notin {"DELETED", "DELETING"} /\ Deleted(call.st, "error")

\* requiredDeleteOutcome, for a state that was read.
RequiredDeleteOutcome(state) ==
    \/ state = "DELETED"  /\ Deleted(MarkDeleted(call.st), "deleted")
    \/ state = "DELETING" /\ Deleted(MarkTerminating(call.st), "pending")
    \/ state \notin {"DELETED", "DELETING"} /\ Deleted(call.st, "error")

\* confirmDeleteIfAlreadyPending: a failed read goes on to the delete call.
ConfirmDeleteIfAlreadyPending ==
    /\ At("confirmPending") /\ NoEffect
    /\ LET found == Matches("delete", call.id)
       IN  \/ ReadFails(found) /\ GoTo("invokeDelete", call.st, call.id)
           \/ FindsNone(found) /\ Deleted(MarkDeleted(call.st), "deleted")
           \/ \E i \in found :
                /\ Finds(found, i)
                /\ IF res[i].state \in {"DELETING", "DELETED"}
                     THEN RequiredDeleteOutcome(res[i].state)
                     ELSE GoTo("invokeDelete", call.st, call.id)

\* invokeDeleteOperation: not found is deleted, a conflict is confirmed like
\* an accepted delete, any other error is returned.
InvokeDeleteOperation ==
    /\ At("invokeDelete")
    /\ LET st == call.st
           id == call.id
       IN  \/ Fault /\ NoEffect /\ Deleted(st, "error")
           \/ /\ ~Readable(id) \/ res[id].state = "DELETED"
              /\ NoFault /\ NoEffect /\ Deleted(MarkDeleted(st), "deleted")
           \/ /\ res[id].state \in {"CREATING", "UPDATING", "DELETING"}
              /\ NoFault /\ NoEffect /\ GoTo("confirmDelete", st, id)
           \/ /\ res[id].state \in {"ACTIVE", "FAILED"} /\ ~CanOpen("delete")
              /\ NoFault /\ NoEffect /\ Deleted(st, "error")
           \/ \E w \in WorkRequestIDs \cup {0} :
                /\ DeleteAccepted(id, w)
                /\ \/ Fault /\ Deleted(st, "error")
                   \/ /\ NoFault
                      /\ IF "delete" \in WorkRequests
                           THEN GoTo("pollDelete",
                                     SeedOpeningWorkRequestID(st, "delete", w), id)
                           ELSE GoTo("confirmDelete", st, id)

\* confirmDeleteWithSemantics.
ConfirmDeleteWithSemantics ==
    /\ At("confirmDelete") /\ NoEffect
    /\ LET found == Matches("delete", call.id)
       IN  \/ ReadFails(found) /\ Deleted(call.st, "error")
           \/ FindsNone(found) /\ Deleted(MarkDeleted(call.st), "deleted")
           \/ \E i \in found : Finds(found, i) /\ RequiredDeleteOutcome(res[i].state)

\* resumeGeneratedWorkRequestDelete: an error of the poll is returned as it
\* is, a 404 for the work request included.
ResumeWorkRequestDelete ==
    /\ At("pollDelete") /\ NoEffect
    /\ LET st     == call.st
           wr     == ResolveTrackedWorkRequest(st)
           status == wrs[wr].status
           mark(class) == SetWorkRequestOperation(st, "delete", wr, class)
       IN  \/ Fault /\ Deleted(st, "error")
           \/ status = "UNKNOWN" /\ NoFault /\ Deleted(st, "404 NotFound")
           \/ status # "UNKNOWN" /\ PhaseConflicts(st) /\ NoFault /\ Deleted(st, "error")
           \/ /\ status # "UNKNOWN" /\ ~PhaseConflicts(st) /\ NoFault
              /\ \/ Normalize(status) = "pending" /\ Deleted(mark("pending"), "pending")
                 \/ Normalize(status) = "failed"  /\ Deleted(mark("failed"), "error")
                 \/ /\ Normalize(status) = "succeeded"
                    /\ GoTo("readDelete", st, IF st.ocid # 0 THEN st.ocid ELSE wrs[wr].res)

\* completeGeneratedWorkRequestDelete.
CompleteWorkRequestDelete ==
    /\ At("readDelete") /\ NoEffect
    /\ LET st    == call.st
           found == Matches("delete", call.id)
       IN  \/ /\ ReadFails(found)
              /\ Deleted(SetWorkRequestOperation(st, "delete", st.async.wr, "failed"),
                         "error")
           \/ FindsNone(found) /\ Deleted(MarkDeleted(st), "deleted")
           \/ \E i \in found : Finds(found, i) /\ RequiredDeleteOutcome(res[i].state)

RuntimeStep ==
    \/ ResolveExistingBeforeCreate \/ LoadLiveMutationResponse
    \/ CreateOrReadResource \/ UpdateExistingResource \/ FollowUpAfterWrite
    \/ ResumeWorkRequestCreateOrUpdate \/ CompleteWorkRequestWrite
    \/ ResolveDeleteID \/ ConfirmDeleteIfAlreadyPending \/ InvokeDeleteOperation
    \/ ConfirmDeleteWithSemantics
    \/ ResumeWorkRequestDelete \/ CompleteWorkRequestDelete
=============================================================================
