------------------------- MODULE WebAppAcceleration -------------------------
(***************************************************************************)
(* The WebAppAcceleration client, one of the service managers that do not  *)
(* use the generated runtime: webappacceleration_runtime_client.go does    *)
(* create, update, compartment move and delete itself, over the shared     *)
(* tracker (AsyncStatus) and under BaseReconciler (Reconciler).  There is  *)
(* one step per OCI call, with the decision taken from its answer.         *)
(*                                                                         *)
(* Every write runs in the background.  The service may show a resource as *)
(* ACTIVE in its old form although a write was accepted, and even although *)
(* the work request of the write has succeeded: "stale readback".          *)
(***************************************************************************)
EXTENDS Integers, Sequences, FiniteSets

CONSTANTS OCIDs, WorkRequestIDs,              \* identifiers OCI can hand out
          Untracked,                          \* operations that may be answered without a
                                              \* work request, though there are some left
          Edits,                              \* what users may write: sequences of specs
          MaxTroubles,                        \* bound: failing calls and operations, restarts
          MaxUid, MaxGen, MaxLag, MaxCrashes  \* bounds, see Reconciler

\* compartment and load balancer apart, a spec is one value: "body" stands for
\* the fields that Update sends and the list compares.
Specs == [comp : {"c1", "c2"}, body : {"b1", "b2"}, lb : {"l1", "l2"}]

ASSUME WaaAssumption ==
    /\ OCIDs \subseteq Nat \ {0} /\ WorkRequestIDs \subseteq Nat \ {0}
    /\ Untracked \subseteq {"create", "update", "move", "delete"} /\ MaxTroubles \in Nat
    /\ \A e \in Edits : e \in Seq(Specs) /\ Len(e) = MaxGen

ASSUME ReconcilerBounds ==
    MaxUid \in Nat /\ MaxGen \in Nat \ {0} /\ MaxLag \in Nat \ {0} /\ MaxCrashes \in Nat

\* What users may have written after n edits.
SpecsWritten == {SubSeq(e, 1, n) : e \in Edits, n \in 1 .. MaxGen}
Written(n)   == {s \in SpecsWritten : Len(s) = n}

VARIABLES log, queued, timer, pc, obj, old, fresh, resp, crashes,
          touched, confirmed, tried,
          spec,     \* the generations of the object's spec so far
          res,      \* OCID -> [own: incarnation, gen: generation it was created from,
                    \*          spec: as read, want: once the operation is done,
                    \*          op: operation in progress, state]
          wrs,      \* work request -> [op, res, status]
          call,     \* the memory of the running CreateOrUpdate or Delete
          troubles  \* failed calls and operations so far

A == INSTANCE AsyncStatus

Operations == {"create", "update", "move", "delete"}

\* async.current with the raw operation type, which tells an update from a move.
Trackers == [source : {"", "lifecycle", "workrequest"},
             phase  : A!Phases \cup {""},
             op     : Operations \cup {""},
             wr     : WorkRequestIDs \cup {0},
             class  : A!Classes \cup {""}]

NoTracker == [source |-> "", phase |-> "", op |-> "", wr |-> 0, class |-> ""]

\* ocid: status.ocid, or else status.id (webAppAccelerationStatusID).
Statuses == [ocid : OCIDs \cup {0}, reason : A!Conditions \cup {""}, async : Trackers]

EmptyStatus == [ocid |-> 0, reason |-> "", async |-> NoTracker]

\* client.MergeFrom, as in AsyncStatus.
MergeFrom(stored, before, after) ==
    LET leaf(s, b, a) == IF a = b THEN s ELSE a
    IN  [ocid   |-> leaf(stored.ocid, before.ocid, after.ocid),
         reason |-> leaf(stored.reason, before.reason, after.reason),
         async  |-> IF after.async = NoTracker /\ before.async # NoTracker
                      THEN NoTracker
                      ELSE [f \in DOMAIN NoTracker |->
                              leaf(stored.async[f], before.async[f], after.async[f])]]

R == INSTANCE Reconciler WITH
       Status <- Statuses, EmptyStatus <- EmptyStatus, MergePatch <- MergeFrom,
       ZeroDuration <- FALSE

Api == R!Api

reconcilerVars == <<log, queued, timer, pc, obj, old, fresh, resp, crashes,
                    touched, confirmed, tried>>
ociVars        == <<res, wrs>>
vars           == <<reconcilerVars, ociVars, spec, call, troubles>>

CallSteps == {"none", "list", "create", "readCreated", "move", "readMoved", "update",
              "readUpdated", "poll", "guardPoll", "guardLifecycle", "guardSucceeded",
              "preRead", "delete", "confirm", "pollDelete", "confirmSucceeded"}

NoCall == [step |-> "none", st |-> EmptyStatus, id |-> 0, wr |-> 0]

LifecycleStates == {"CREATING", "ACTIVE", "UPDATING", "FAILED", "DELETING", "DELETED"}

TypeOK ==
    /\ R!TypeOK
    /\ spec \in SpecsWritten
    /\ res \in [OCIDs -> [own : Nat, gen : Nat, spec : Specs, want : Specs,
                          op : Operations \cup {""},
                          state : LifecycleStates \cup {"NONE", "ACCEPTED"}]]
    /\ wrs \in [WorkRequestIDs ->
                  [op : Operations \cup {""}, res : OCIDs \cup {0},
                   status : {"", "IN_PROGRESS", "SUCCEEDED", "FAILED", "GONE"}]]
    /\ call \in [step : CallSteps, st : Statuses, id : OCIDs \cup {0},
                 wr : WorkRequestIDs \cup {0}]
    /\ troubles \in 0 .. MaxTroubles

Init ==
    /\ R!Init
    /\ spec \in Written(1)
    /\ res = [i \in OCIDs |-> [own |-> 0, gen |-> 0, spec |-> spec[1], want |-> spec[1],
                               op |-> "", state |-> "NONE"]]
    /\ wrs = [w \in WorkRequestIDs |-> [op |-> "", res |-> 0, status |-> ""]]
    /\ call = NoCall /\ troubles = 0

Trouble   == troubles < MaxTroubles /\ troubles' = troubles + 1
NoTrouble == UNCHANGED troubles

-----------------------------------------------------------------------------
(* The service (external), as the client's calls and tests show it. *)

\* Get finds the resource; a new one may be unreadable at first.
Readable(i)  == res[i].state \in LifecycleStates
Remaining(i) == res[i].state \notin {"NONE", "DELETED"}

\* Identifiers are handed out in order.
NextFree(S, Used(_)) ==
    {x \in S : ~Used(x) /\ \A y \in S : y < x => Used(y)}

FreeWorkRequests == NextFree(WorkRequestIDs, LAMBDA w : wrs[w].op # "")

\* An accepted call is answered with a work request, or without one (w = 0):
\* OpcWorkRequestId is optional in every answer.
OpenWorkRequest(op, i, w) ==
    \/ /\ w \in FreeWorkRequests
       /\ wrs' = [wrs EXCEPT ![w] = [op |-> op, res |-> i, status |-> "IN_PROGRESS"]]
    \/ w = 0 /\ (op \in Untracked \/ FreeWorkRequests = {}) /\ UNCHANGED wrs

\* The work request of the create of resource i.
CreateWorkRequest(i, w) ==
    \/ w # 0 /\ wrs[w].op = "create" /\ wrs[w].res = i
    \/ w = 0 /\ \A v \in WorkRequestIDs : wrs[v].res = i => wrs[v].op # "create"

\* A retry token answers for the resource it created; token 0 is none.
CreatedWith(token) == {i \in OCIDs : token # 0 /\ res[i].own = token /\ Remaining(i)}

CreateAccepted(own, token, gen, i, w) ==
    \/ /\ i \in CreatedWith(token) /\ res[i].gen = gen
       /\ CreateWorkRequest(i, w)
       /\ UNCHANGED ociVars
    \/ /\ CreatedWith(token) = {}
       /\ i \in NextFree(OCIDs, LAMBDA x : res[x].own # 0)
       /\ \E state \in {"ACCEPTED", "CREATING"} :
             res' = [res EXCEPT ![i] = [own |-> own, gen |-> gen, op |-> "create",
                                        spec |-> spec[gen], want |-> spec[gen],
                                        state |-> state]]
       /\ OpenWorkRequest("create", i, w)

CreateRefused(token, gen) == \E i \in CreatedWith(token) : res[i].gen # gen

\* Update, move and delete: one operation at a time.  What a read shows
\* changes at once or later (OperationShows).
WriteAccepted(op, i, want, w) ==
    /\ res[i].state \in {"ACTIVE", "FAILED"} /\ res[i].op = ""
    /\ res' = [res EXCEPT ![i].op = op, ![i].want = want]
    /\ OpenWorkRequest(op, i, w)

WriteRefused(i) == res[i].state \notin {"ACTIVE", "FAILED"} \/ res[i].op # ""

Busy(op) == IF op = "delete" THEN "DELETING" ELSE "UPDATING"

\* A new resource becomes readable; a read shows that an operation is running.
OperationShows ==
    /\ \E i \in OCIDs :
          \/ /\ res[i].state = "ACCEPTED"
             /\ res' = [res EXCEPT ![i].state = "CREATING"]
          \/ /\ res[i].op \in {"update", "move", "delete"} /\ res[i].state # Busy(res[i].op)
             /\ res' = [res EXCEPT ![i].state = Busy(res[i].op)]
    /\ UNCHANGED wrs

\* The work request of the operation on resource i ends with it, if it has not
\* ended before.
WorkRequestEnds(i, status) ==
    wrs' = [w \in WorkRequestIDs |->
              IF wrs[w].res = i /\ wrs[w].op = res[i].op /\ wrs[w].status = "IN_PROGRESS"
                THEN [wrs[w] EXCEPT !.status = status] ELSE wrs[w]]

OperationSucceeds ==
    \E i \in OCIDs :
       /\ \/ /\ res[i].op = "delete" /\ res[i].state = "DELETING"
             /\ \E to \in {"DELETED", "NONE"} :
                   res' = [res EXCEPT ![i].state = to, ![i].op = ""]
          \/ /\ res[i].op # "delete" /\ res[i].state \in {"CREATING", "UPDATING"}
             /\ res' = [res EXCEPT ![i].state = "ACTIVE", ![i].op = "",
                                   ![i].spec = res[i].want]
       /\ WorkRequestEnds(i, "SUCCEEDED")

\* A delete fails before the resource shows DELETING.
OperationFails ==
    /\ Trouble
    /\ \E i \in OCIDs :
          /\ res[i].op # "" /\ Readable(i) /\ res[i].state # "DELETING"
          /\ \A w \in WorkRequestIDs :
                wrs[w].res = i /\ wrs[w].op = res[i].op => wrs[w].status # "SUCCEEDED"
          /\ res' = [res EXCEPT ![i].op = "", ![i].want = res[i].spec,
                       ![i].state = IF res[i].op = "create" THEN "FAILED" ELSE "ACTIVE"]
          /\ WorkRequestEnds(i, "FAILED")

\* A work request may succeed before a read shows what it did, except that
\* what it created can be read.
WorkRequestSucceedsEarly ==
    /\ \E w \in WorkRequestIDs :
          /\ wrs[w].status = "IN_PROGRESS" /\ res[wrs[w].res].state # "ACCEPTED"
          /\ wrs' = [wrs EXCEPT ![w].status = "SUCCEEDED"]
    /\ UNCHANGED res

\* Reading a work request gives 404 from now on.
WorkRequestVanishes ==
    /\ Trouble
    /\ \E w \in WorkRequestIDs :
          /\ wrs[w].status \notin {"", "GONE"}
          /\ wrs' = [wrs EXCEPT ![w].status = "GONE"]
    /\ UNCHANGED res

Oci ==
    \/ (OperationShows \/ OperationSucceeds \/ WorkRequestSucceedsEarly) /\ NoTrouble
    \/ OperationFails \/ WorkRequestVanishes

-----------------------------------------------------------------------------
(* The tracker. *)

ClearAsyncOperation(st) == [st EXCEPT !.async = NoTracker]

\* Mutant: MOVE_WEB_APP_ACCELERATION is a phase of its own.
WorkRequestPhaseUnmapped(op) == op

\* webAppAccelerationWorkRequestAsyncAdapter: the phase of an operation type.
WorkRequestPhase(op) == IF op = "move" THEN "update" ELSE op

\* newWebAppAccelerationWriteWorkRequest, seedMoveWorkRequest,
\* seedDeleteWorkRequest.
PendingOperation(op, w) ==
    [source |-> IF w # 0 THEN "workrequest" ELSE "lifecycle",
     phase |-> WorkRequestPhase(op), op |-> op, wr |-> w, class |-> "pending"]

\* The work request of an answer is recorded, if there is one.
Seed(st, op, w) ==
    IF w = 0 THEN st ELSE A!ApplyAsyncOperation(st, PendingOperation(op, w))

\* newWebAppAccelerationLifecycleAsync.
LifecycleOperation(phase, class) ==
    [source |-> "lifecycle", phase |-> phase, op |-> "", wr |-> 0, class |-> class]

\* webAppAccelerationPendingAsync and the predicates made of it.
IsPending(st, phase) == st.async.phase = phase /\ st.async.class = "pending"

PendingDelete(st) == IsPending(st, "delete")
PendingMove(st)   == IsPending(st, "update") /\ st.async.op = "move"
PendingWrite(st)  ==
    \/ IsPending(st, "create") /\ st.async.op = "create"
    \/ IsPending(st, "update") /\ st.async.op = "update"

PendingWriteBeforeDelete(st) ==
    \/ IsPending(st, "create") /\ st.async.op \in {"", "create"}
    \/ IsPending(st, "update") /\ st.async.op \in {"", "update", "move"}

\* applySuccess: the status after resource i was seen in a lifecycle state;
\* the fallback tells what failed if it is FAILED.
ApplySuccess(st, i, state, fallback) ==
    LET seen == [st EXCEPT !.ocid = i]
        to(phase, class) == A!ApplyAsyncOperation(seen, LifecycleOperation(phase, class))
    IN  CASE state = "CREATING" -> to("create", "pending")
          [] state = "UPDATING" -> to("update", "pending")
          [] state = "DELETING" -> to("delete", "pending")
          [] state = "DELETED"  -> to("delete", "succeeded")
          [] state = "FAILED" /\ fallback # "Active" ->
               to(IF fallback = "Provisioning" THEN "create" ELSE "update", "failed")
          [] OTHER -> [ClearAsyncOperation(seen) EXCEPT
                         !.reason = IF state = "FAILED" THEN "Failed" ELSE "Active"]

\* failCreateOrUpdate: the tracker stays as it is.
Failure(st) == [st EXCEPT !.reason = "Failed"]

\* failPendingWorkRequest.
FailWorkRequest(st, tracker) ==
    A!ApplyAsyncOperation(st, [tracker EXCEPT !.class = "failed"])

\* markObservedWorkRequest of a work request that has not failed; one that has
\* succeeded waits for a read to show it (...WaitingForReadback).
MarkObservedWorkRequest(st, tracker) ==
    A!ApplyAsyncOperation(st, [tracker EXCEPT !.class = "pending"])

\* webAppAccelerationAsyncOperationFromWorkRequest.
Observed(w) ==
    [source |-> "workrequest", phase |-> WorkRequestPhase(wrs[w].op),
     op |-> wrs[w].op, wr |-> w, class |-> A!Normalize(wrs[w].status)]

\* What was observed of a work request that had succeeded, a call later.
Succeeded(w) == [PendingOperation(wrs[w].op, w) EXCEPT !.class = "succeeded"]

\* ResolvePhase accepts no work request of another phase than the tracked one.
PhaseConflicts(st) == WorkRequestPhase(wrs[st.async.wr].op) # st.async.phase

\* observePendingWorkRequest, the answers: an error, a 404, or the work request.
PollFails(st) ==
    \/ Trouble
    \/ NoTrouble /\ wrs[st.async.wr].status # "GONE" /\ PhaseConflicts(st)

PollGives404(st) == NoTrouble /\ wrs[st.async.wr].status = "GONE"

PollShows(st, class) ==
    /\ NoTrouble
    /\ wrs[st.async.wr].status # "GONE" /\ ~PhaseConflicts(st)
    /\ Observed(st.async.wr).class = class

-----------------------------------------------------------------------------
(* CreateOrUpdate. *)

At(step) == call.step = step

Continue(step, st, i, w) ==
    /\ call' = [step |-> step, st |-> st, id |-> i, wr |-> w]
    /\ UNCHANGED reconcilerVars

\* Mutant: the requeue is requested without a duration.
ResponseWithoutDuration(st) ==
    LET again == st.reason # "Failed" /\ st.async # NoTracker
    IN  [ok |-> st.reason # "Failed", requeue |-> again, after |-> FALSE]

\* OSOKResponse: a failure asks for no requeue, an operation in flight for one
\* after a minute.
Response(st) ==
    LET again == st.reason # "Failed" /\ st.async # NoTracker
    IN  [ok |-> st.reason # "Failed", requeue |-> again, after |-> again]

Returns(st) ==
    /\ R!CreateOrUpdateReturns(st, Response(st))
    /\ call' = NoCall

Desired == spec[obj.gen]

\* webAppAccelerationLifecyclePending.
LifecyclePending(i) == res[i].state \in {"CREATING", "UPDATING", "DELETING"}

\* Mutant: a resource that is not in transition shows the write.
LifecycleReadbackPending(i) == LifecyclePending(i)

\* webAppAccelerationWriteReadbackPending: a read does not show the write yet.
WriteReadbackPending(i) == LifecyclePending(i) \/ res[i].spec # Desired

\* handlePendingWriteWorkRequest: poll the work request, if there is one.
HandlePendingWrite(st, i, pending) ==
    IF pending.wr = 0
      THEN Returns(A!ApplyAsyncOperation([st EXCEPT !.ocid = i], pending))
      ELSE Continue("poll", st, i, 0)

\* handlePendingMoveWorkRequest, markMovePending.
HandlePendingMove(st, i) ==
    IF PendingMove(st)
      THEN HandlePendingWrite(st, i, st.async)
      ELSE Returns(ApplySuccess(st, i, res[i].state, "Updating"))

\* reconcileUpdate.
ReconcileUpdate(st, i) ==
    IF res[i].spec.body = Desired.body
      THEN Returns(ApplySuccess(st, i, res[i].state, "Active"))
      ELSE Continue("update", st, i, 0)

\* reconcileExisting, with resource i just read: refuse create-only drift,
\* resume a pending write, wait, move, update.
ReconcileExisting(st0, i) ==
    LET st     == [st0 EXCEPT !.ocid = i]
        drift  == res[i].spec.lb # Desired.lb
        failed == res[i].state = "FAILED"
        resume == PendingWrite(st) /\ ~failed /\ WriteReadbackPending(i)
        wait   == LifecyclePending(i) \/ failed
        move   == res[i].spec.comp # Desired.comp
    IN  CASE drift -> Returns(Failure(st))
          [] ~drift /\ resume -> HandlePendingWrite(st, i, st.async)
          [] ~drift /\ ~resume /\ wait -> Returns(ApplySuccess(st, i, res[i].state, "Active"))
          [] ~drift /\ ~resume /\ ~wait /\ move ->
               IF PendingMove(st) THEN HandlePendingMove(st, i)
               ELSE Continue("move", st, i, 0)
          [] OTHER -> ReconcileUpdate(st, i)

\* Get or List finds the resource.
Found(i) == Readable(i) /\ res[i].state # "DELETED"

\* readCurrent, readCurrentByID.  A resource that is gone takes the whole status
\* with it.
ReadCurrent ==
    /\ pc = "createOrUpdate" /\ At("none") /\ obj.st.ocid # 0
    /\ LET i == obj.st.ocid
       IN  \/ Trouble /\ Returns(Failure(obj.st))
           \/ NoTrouble /\ Found(i) /\ ReconcileExisting(obj.st, i)
           \/ NoTrouble /\ ~Found(i) /\ Continue("list", EmptyStatus, 0, 0)
    /\ UNCHANGED ociVars

\* findExisting: the listed resource that is as the spec wants it; two are an error.
FindExisting ==
    /\ \/ pc = "createOrUpdate" /\ At("none") /\ obj.st.ocid = 0
       \/ At("list")
    /\ LET st      == IF At("list") THEN call.st ELSE obj.st
           matches == {i \in OCIDs : Found(i) /\ res[i].spec = Desired}
       IN  \/ /\ IF Cardinality(matches) > 1 THEN NoTrouble ELSE Trouble
              /\ Returns(Failure(st))
           \/ NoTrouble /\ matches = {} /\ Continue("create", st, 0, 0)
           \/ NoTrouble /\ \E i \in matches : matches = {i} /\ ReconcileExisting(st, i)
    /\ UNCHANGED ociVars

\* Mutant: Create is sent without a retry token.
NoRetryToken(uid) == 0

\* webAppAccelerationCreateRequest: the retry token is the UID.
RetryToken(uid) == uid

\* create: the call.
Create ==
    /\ At("create")
    /\ \/ \E i \in OCIDs, w \in WorkRequestIDs \cup {0} :
             /\ CreateAccepted(obj.uid, RetryToken(obj.uid), obj.gen, i, w)
             /\ \/ NoTrouble /\ Continue("readCreated", Seed(call.st, "create", w), i, w)
                \/ Trouble /\ Returns(Failure(call.st))
       \/ /\ Trouble \/ (NoTrouble /\ CreateRefused(RetryToken(obj.uid), obj.gen))
          /\ Returns(Failure(call.st)) /\ UNCHANGED ociVars

\* readWebAppAccelerationAfterCreate and handleWebAppAccelerationCreateReadback.
\* A resource that cannot be read yet is taken from the answer of Create; an
\* error of the read loses its OCID.
ReadAfterCreate ==
    /\ At("readCreated")
    /\ LET i     == call.id
           state == IF Readable(i) THEN res[i].state ELSE "CREATING"
           still == ~Readable(i) \/ WriteReadbackPending(i)
       IN  \/ Trouble /\ Returns(Failure(call.st))
           \/ /\ NoTrouble
              /\ IF call.wr # 0 /\ still THEN HandlePendingWrite(call.st, i, call.st.async)
                 ELSE Returns(ApplySuccess(call.st, i, state, "Provisioning"))
    /\ UNCHANGED ociVars

\* moveCompartment, applyWebAppAccelerationUpdate: the call and its answer.
CallWrite(op, want, next) ==
    \/ \E w \in WorkRequestIDs \cup {0} :
          /\ WriteAccepted(op, call.id, want, w)
          /\ \/ NoTrouble /\ Continue(next, Seed(call.st, op, w), call.id, w)
             \/ Trouble /\ Returns(Failure(call.st))
    \/ /\ Trouble \/ (NoTrouble /\ WriteRefused(call.id))
       /\ Returns(Failure(call.st)) /\ UNCHANGED ociVars

MoveCompartment ==
    /\ At("move")
    /\ CallWrite("move", [res[call.id].spec EXCEPT !.comp = Desired.comp], "readMoved")

Update ==
    /\ At("update")
    /\ CallWrite("update", [res[call.id].spec EXCEPT !.body = Desired.body], "readUpdated")

\* readAfterCompartmentMove and the rest of applyCompartmentMoveIfNeeded.
ReadAfterMove ==
    /\ At("readMoved")
    /\ LET i == call.id
       IN  \/ Trouble /\ Returns(Failure(call.st))
           \/ /\ NoTrouble
              /\ IF res[i].spec.comp # Desired.comp \/ LifecyclePending(i)
                   THEN HandlePendingMove(call.st, i) ELSE ReconcileUpdate(call.st, i)
    /\ UNCHANGED ociVars

\* readWebAppAccelerationAfterUpdate, handleWebAppAccelerationUpdateReadback.
ReadAfterUpdate ==
    /\ At("readUpdated")
    /\ LET i       == call.id
           pending == IF call.wr # 0 THEN call.st.async ELSE PendingOperation("update", 0)
       IN  \/ Trouble /\ Returns(Failure(call.st))
           \/ /\ NoTrouble
              /\ IF WriteReadbackPending(i) THEN HandlePendingWrite(call.st, i, pending)
                 ELSE Returns(ApplySuccess(call.st, i, res[i].state, "Updating"))
    /\ UNCHANGED ociVars

\* observePendingWorkRequest, in handlePendingWriteWorkRequest and
\* handlePendingMoveWorkRequest.  A failure does not record the OCID: right
\* after Create that loses it.
PollPendingWorkRequest ==
    /\ At("poll")
    /\ LET st == call.st
           wr == st.async.wr
       IN  \/ PollFails(st) /\ Returns(FailWorkRequest(st, st.async))
           \/ PollGives404(st) /\ Returns(FailWorkRequest(st, st.async))
           \/ PollShows(st, "failed") /\ Returns(FailWorkRequest(st, Observed(wr)))
           \/ /\ PollShows(st, "pending") \/ PollShows(st, "succeeded")
              /\ Returns(MarkObservedWorkRequest([st EXCEPT !.ocid = call.id], Observed(wr)))
    /\ UNCHANGED ociVars

-----------------------------------------------------------------------------
(* Delete. *)

DeleteReturns(st, out) ==
    /\ R!DeleteReturns(st, out)
    /\ call' = NoCall

\* markDeleteConfirmed.
Confirmed(st) == [ClearAsyncOperation(st) EXCEPT !.reason = "Terminating"]

\* markPendingWriteReadbackBeforeDelete: resource i is being created or updated.
MarkReadbackPending(st, i) ==
    MarkObservedWorkRequest([st EXCEPT !.ocid = i],
        LifecycleOperation(IF res[i].state = "CREATING" THEN "create" ELSE "update",
                           "pending"))

\* markPendingWriteWithoutReadback.
MarkWithoutReadback(st) ==
    MarkObservedWorkRequest(st,
        [st.async EXCEPT !.op = IF @ = "" THEN st.async.phase ELSE @])

\* markDeletePending, markDeleteWorkRequestPending.
MarkDeletePending(st, i) ==
    IF PendingDelete(st)
      THEN A!ApplyAsyncOperation(st, [PendingOperation("delete", st.async.wr) EXCEPT
                                        !.source = "workrequest"])
      ELSE ApplySuccess(st, i, res[i].state, "Terminating")

\* Delete after the guard.  Nothing was created, it seems, when no OCID is
\* recorded.
DeleteUnguarded(st) ==
    CASE st.ocid = 0 -> DeleteReturns(Confirmed(st), "deleted")
      [] st.ocid # 0 /\ PendingDelete(st) /\ st.async.wr # 0 ->
           Continue("pollDelete", st, st.ocid, 0)
      [] OTHER -> Continue("preRead", st, st.ocid, 0)

\* guardPendingWriteBeforeDelete: a write in flight is waited for.
Delete ==
    /\ pc = "delete" /\ At("none")
    /\ IF PendingWriteBeforeDelete(obj.st)
         THEN Continue(IF obj.st.async.wr # 0 THEN "guardPoll" ELSE "guardLifecycle",
                       obj.st, obj.st.ocid, 0)
         ELSE DeleteUnguarded(obj.st)
    /\ NoTrouble /\ UNCHANGED ociVars

\* The answers of observePendingWorkRequest that end a Delete.  The 404 of a
\* work request is returned as it is.
PollEndsDelete(st) ==
    \/ PollFails(st) /\ DeleteReturns(FailWorkRequest(st, st.async), "error")
    \/ PollGives404(st) /\ DeleteReturns(FailWorkRequest(st, st.async), "404 NotFound")
    \/ /\ PollShows(st, "failed")
       /\ DeleteReturns(FailWorkRequest(st, Observed(st.async.wr)), "error")
    \/ /\ PollShows(st, "pending")
       /\ DeleteReturns(MarkObservedWorkRequest(st, Observed(st.async.wr)), "pending")

GuardPoll ==
    /\ At("guardPoll")
    /\ \/ PollEndsDelete(call.st)
       \/ /\ PollShows(call.st, "succeeded")
          /\ IF call.id = 0 THEN DeleteUnguarded(ClearAsyncOperation(call.st))
             ELSE Continue("guardSucceeded", call.st, call.id, 0)
    /\ UNCHANGED ociVars

\* guardWriteReadbackBeforeDelete: a resource in transition is waited for;
\* otherwise Delete goes on with status settled.
GuardReadback(st, i, settled) ==
    CASE res[i].state \in {"CREATING", "UPDATING"} ->
           DeleteReturns(MarkReadbackPending(st, i), "pending")
      [] res[i].state = "DELETING" -> DeleteReturns(MarkDeletePending(st, i), "pending")
      [] OTHER -> DeleteUnguarded(settled)

\* guardPendingLifecycleWriteBeforeDelete.
GuardLifecycle ==
    /\ At("guardLifecycle")
    /\ LET st    == call.st
           i     == call.id
           found == IF i = 0 THEN FALSE ELSE Readable(i)
       IN  \/ i # 0 /\ Trouble /\ DeleteReturns(st, "error")
           \/ NoTrouble /\ ~found /\ DeleteReturns(MarkWithoutReadback(st), "pending")
           \/ NoTrouble /\ found /\ GuardReadback(st, i, st)
    /\ UNCHANGED ociVars

\* guardSucceededWriteBeforeDelete.
GuardSucceeded ==
    /\ At("guardSucceeded")
    /\ LET st == call.st
           i  == call.id
       IN  \/ Trouble /\ DeleteReturns(FailWorkRequest(st, Succeeded(st.async.wr)), "error")
           \/ NoTrouble /\ ~Readable(i) /\ DeleteUnguarded(ClearAsyncOperation(st))
           \/ NoTrouble /\ Readable(i) /\ GuardReadback(st, i, ClearAsyncOperation(st))
    /\ UNCHANGED ociVars

\* handleDeleteReadState; goOn is what follows when it does not end the Delete.
HandleDeleteReadState(st, i, goOn) ==
    CASE ~Readable(i) \/ res[i].state = "DELETED" -> DeleteReturns(Confirmed(st), "deleted")
      [] res[i].state \in {"CREATING", "UPDATING"} ->
           DeleteReturns(MarkReadbackPending(st, i), "pending")
      [] res[i].state = "DELETING" \/ (PendingDelete(st) /\ Readable(i)) ->
           DeleteReturns(MarkDeletePending(st, i), "pending")
      [] OTHER -> goOn

\* deleteTrackedWebAppAcceleration: the read before the call.
PreRead ==
    /\ At("preRead")
    /\ LET st == call.st
       IN  \/ Trouble /\ DeleteReturns(st, "error")
           \/ NoTrouble /\ HandleDeleteReadState(st, call.id, Continue("delete", st, call.id, 0))
    /\ UNCHANGED ociVars

\* requestWebAppAccelerationDelete, handleDeleteCallError: the call.
RequestDelete ==
    /\ At("delete")
    /\ LET st == call.st
           i  == call.id
       IN  \/ \E w \in WorkRequestIDs \cup {0} :
                 /\ WriteAccepted("delete", i, res[i].spec, w)
                 /\ \/ /\ NoTrouble
                       /\ Continue(IF w # 0 THEN "pollDelete" ELSE "confirm",
                                   Seed(st, "delete", w), i, w)
                    \/ Trouble /\ DeleteReturns(st, "error")
           \/ /\ Trouble /\ DeleteReturns(st, "error")
              /\ UNCHANGED ociVars
           \/ /\ NoTrouble /\ WriteRefused(i)
              /\ IF Remaining(i) THEN DeleteReturns(st, "409 IncorrectState")
                 ELSE DeleteReturns(Confirmed(st), "deleted")
              /\ UNCHANGED ociVars

\* confirmWebAppAccelerationDeleted, without a work request.
ConfirmDeleted ==
    /\ At("confirm")
    /\ LET st == call.st
       IN  \/ Trouble /\ DeleteReturns(st, "error")
           \/ NoTrouble /\ HandleDeleteReadState(st, call.id, DeleteReturns(st, "error"))
    /\ UNCHANGED ociVars

\* resumePendingDeleteWorkRequest.
PollDelete ==
    /\ At("pollDelete")
    /\ \/ PollEndsDelete(call.st)
       \/ /\ PollShows(call.st, "succeeded")
          /\ Continue("confirmSucceeded", call.st, call.id, 0)
    /\ UNCHANGED ociVars

\* Mutant: a work request that has succeeded needs no read.
ConfirmUnread ==
    /\ At("confirmSucceeded")
    /\ NoTrouble /\ DeleteReturns(Confirmed(call.st), "deleted")
    /\ UNCHANGED ociVars

\* confirmDeleteAfterSucceededWorkRequest.
ConfirmSucceeded ==
    /\ At("confirmSucceeded")
    /\ LET st == call.st
           i  == call.id
           w  == st.async.wr
       IN  \/ Trouble /\ DeleteReturns(FailWorkRequest(st, Succeeded(w)), "error")
           \/ /\ NoTrouble /\ (~Readable(i) \/ res[i].state = "DELETED")
              /\ DeleteReturns(Confirmed(st), "deleted")
           \/ /\ NoTrouble /\ Readable(i) /\ res[i].state # "DELETED"
              /\ DeleteReturns(MarkObservedWorkRequest(st, Succeeded(w)), "pending")
    /\ UNCHANGED ociVars

-----------------------------------------------------------------------------
(* The whole. *)

\* Users as in Operator: no finalizers of others, no edit after the deletion.
Users ==
    \/ R!UserCreate /\ ~Api'.ext /\ spec' \in Written(1)
    \/ /\ R!UserEditSpec /\ ~Api.del
       /\ \E next \in Written(Len(spec) + 1) :
             SubSeq(next, 1, Len(spec)) = spec /\ spec' = next
    \/ R!UserDelete /\ UNCHANGED spec

\* A step in which the API server does not carry out an update or a patch
\* although nothing is wrong with it.
WriteLost ==
    /\ pc # "idle" /\ pc' = "idle" /\ log' = log /\ Api.ex
    /\ CASE pc = "addFinalizer"    -> fresh /\ ~Api.del
         [] pc = "removeFinalizer" -> fresh
         [] OTHER                  -> MergeFrom(Api.st, old, obj.st) # Api.st

\* What the reconciler and its surroundings do; a lost write is a trouble too.
Kubernetes ==
    /\ Users \/ ((R!Deliver \/ R!TimerFires \/ R!Controller) /\ UNCHANGED spec)
    /\ IF WriteLost THEN Trouble ELSE NoTrouble
    /\ UNCHANGED <<ociVars, call>>

\* A restart, a trouble too, also ends the call in flight.
Restart ==
    /\ R!Restart /\ Trouble
    /\ call' = NoCall
    /\ UNCHANGED <<ociVars, spec>>

CreateOrUpdate ==
    \/ ReadCurrent \/ FindExisting \/ Create \/ ReadAfterCreate
    \/ MoveCompartment \/ ReadAfterMove \/ Update \/ ReadAfterUpdate
    \/ PollPendingWorkRequest

DeleteStep ==
    \/ Delete \/ GuardPoll \/ GuardLifecycle \/ GuardSucceeded
    \/ PreRead \/ RequestDelete \/ ConfirmDeleted \/ PollDelete \/ ConfirmSucceeded

Manager == (CreateOrUpdate \/ DeleteStep) /\ UNCHANGED spec

otherVars == <<reconcilerVars, spec, call>>

Next ==
    \/ Kubernetes \/ Restart \/ Manager
    \/ Oci /\ UNCHANGED otherVars

Spec == Init /\ [][Next]_vars

\* Everybody keeps going, OCI too.  What fails is bounded.
Fairness ==
    /\ WF_vars(R!Deliver /\ Kubernetes) /\ WF_vars(R!TimerFires /\ Kubernetes)
    /\ WF_vars(R!Controller /\ Kubernetes)
    /\ WF_vars(Manager)
    /\ WF_vars((OperationShows \/ OperationSucceeds) /\ UNCHANGED <<otherVars, troubles>>)

FairSpec == Spec /\ Fairness

-----------------------------------------------------------------------------
(* Properties. *)

\* A Delete that reports the resource of its status gone is right: neither a
\* work request that succeeded before a read shows it, a failed one, a lost
\* answer, an accepted write that is not visible yet nor a create that is not
\* readable yet makes it say so earlier (guardPendingWriteBeforeDelete,
\* confirmDeleteAfterSucceededWorkRequest).  Two exceptions: a work request that
\* OCI has forgotten, whose 404 counts as the resource's, and a failed poll
\* of a create, after which a resource that is not readable yet counts as gone.
\* It is about one incarnation: a second may adopt what the first left behind.
ConfirmedMeansGone ==
    [][/\ confirmed' # confirmed /\ obj.st.ocid # 0
       /\ \A w \in WorkRequestIDs : wrs[w].status # "GONE"
       => \/ ~Remaining(obj.st.ocid)
          \/ troubles > 0 /\ res[obj.st.ocid].state = "ACCEPTED"]_vars

\* No incarnation has two resources at a time, although answers of Create are
\* lost, new resources are not readable or listed and the status is cleared
\* when one is not found (webAppAccelerationCreateRequest's token).
NoDuplicate ==
    \A i, j \in OCIDs :
        Remaining(i) /\ Remaining(j) /\ res[i].own = res[j].own => i = j

\* The running CreateOrUpdate has moved the resource, the answer had no work
\* request, and a read shows the old compartment.
UntrackedMove == At("readMoved") /\ call.wr = 0 /\ res[call.id].spec.comp # Desired.comp

\* A CreateOrUpdate that ends in Active, and so without a requeue, leaves the
\* resource as the spec wants it in compartment, fields and load balancer, and
\* with nothing under way that would change that, although accepted writes are
\* not visible at once (webAppAccelerationWriteReadbackPending).  Not so after a
\* move without a work request, which markMovePending does not track, and when
\* an edit is taken back before its accepted update is visible: the read then
\* agrees with the spec.
ActiveMeansApplied ==
    [][pc # "patchStatus" /\ pc' = "patchStatus" /\ obj'.st.reason = "Active" =>
         \/ UntrackedMove
         \/ /\ obj'.st.ocid # 0
            /\ res[obj'.st.ocid].spec = Desired /\ res[obj'.st.ocid].want = Desired]_vars

\* Every step is a step of the reconciler with an arbitrary service manager,
\* or leaves it alone; as in Operator, with the manager's status named.
ReconcilerStep ==
    \/ R!Environment \/ R!Deliver \/ R!TimerFires \/ R!Restart \/ R!Controller
    \/ \E r \in R!AnyResponses : obj'.st \in Statuses /\ R!CreateOrUpdateReturns(obj'.st, r)
    \/ \E st \in {obj'.st, old}, out \in R!DeleteOutcomes :
          st \in Statuses /\ R!DeleteReturns(st, out)

ImplementsReconciler == R!Init /\ [][ReconcilerStep]_reconcilerVars

\* A deletion ends, whatever operation was in flight when it was requested:
\* the finalizer is kept until a read confirms it, and no longer.
DeletionCompletes == (Api.ex /\ Api.del) ~> ~Api.ex
=============================================================================
