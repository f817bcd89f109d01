------------------------- MODULE AsyncStatusProofs -------------------------
(***************************************************************************)
(* Operator puts OSOKStatus, NoStatus and MergeFrom in the place of        *)
(* Reconciler's Status, EmptyStatus and MergePatch.  The theorem below is  *)
(* Reconciler's StatusAssumption for that instance, so what is proved of   *)
(* Reconciler holds of it.                                                 *)
(***************************************************************************)
EXTENDS AsyncStatus, TLAPS

\* A merge patch (client.MergeFrom) of the status never produces anything but
\* a status, however stale the version is that it was computed against: the
\* assumption Reconciler makes about Status, EmptyStatus and MergePatch.
THEOREM MergeFromIsStatus ==
    /\ NoStatus \in OSOKStatus
    /\ \A a, b, c \in OSOKStatus : MergeFrom(a, b, c) \in OSOKStatus
<1>1. NoAsync \in AsyncOperation
  BY DEF NoAsync, AsyncOperation
<1>2. NoStatus \in OSOKStatus
  BY <1>1 DEF NoStatus, OSOKStatus
<1>3. ASSUME NEW a \in OSOKStatus, NEW b \in OSOKStatus, NEW c \in OSOKStatus
      PROVE  MergeFrom(a, b, c) \in OSOKStatus
  <2> DEFINE leaf(s, x, y) == IF y = x THEN s ELSE y
             merged == [f \in DOMAIN NoAsync |->
                          leaf(a.async[f], b.async[f], c.async[f])]
  <2>1. a.async \in AsyncOperation /\ c.async \in AsyncOperation
    BY DEF OSOKStatus
  <2>2. merged \in AsyncOperation
    BY <2>1 DEF AsyncOperation, NoAsync
  <2>3. leaf(a.ocid, b.ocid, c.ocid) \in OCIDs \cup {0}
    BY DEF OSOKStatus
  <2>4. leaf(a.reason, b.reason, c.reason) \in Conditions \cup {""}
    BY DEF OSOKStatus
  <2> QED  BY <1>1, <2>2, <2>3, <2>4 DEF MergeFrom, OSOKStatus
<1> QED  BY <1>2, <1>3

-----------------------------------------------------------------------------
(* What the functions that change a status return. *)

LEMMA ProjectType ==
    \A class, phase :
        /\ ProjectAsyncCondition(class, phase).condition \in Conditions
        /\ ProjectAsyncCondition(class, phase).requeue \in BOOLEAN
<1>1. \A phase : ConditionForAsyncPhase(phase) \in Conditions
  BY DEF ConditionForAsyncPhase, Conditions
<1> SUFFICES ASSUME NEW class, NEW phase
             PROVE  /\ ProjectAsyncCondition(class, phase).condition \in Conditions
                    /\ ProjectAsyncCondition(class, phase).requeue \in BOOLEAN
  OBVIOUS
<1> QED
  BY <1>1 DEF ProjectAsyncCondition, Conditions

\* Projecting an operation keeps the OCID and follows that operation, with the
\* work request it names.
LEMMA ApplyType ==
    ASSUME NEW st \in OSOKStatus, NEW cur \in AsyncOperation
    PROVE  /\ ApplyAsyncOperation(st, cur) \in OSOKStatus
           /\ ApplyAsyncOperation(st, cur).ocid = st.ocid
           /\ ApplyAsyncOperation(st, cur).async.source = cur.source
           /\ ApplyAsyncOperation(st, cur).async.phase = cur.phase
           /\ cur.wr # 0 => ApplyAsyncOperation(st, cur).async.wr = cur.wr
<1> DEFINE wr == IF cur.wr # 0 THEN cur.wr ELSE PreservedInFlightWorkRequestID(st.async, cur)
           op == [cur EXCEPT !.wr = wr]
           reason == ProjectAsyncCondition(cur.class, cur.phase).condition
<1>1. st.async \in AsyncOperation
  BY DEF OSOKStatus
<1>2. wr \in WorkRequestIDs \cup {0}
  BY <1>1 DEF AsyncOperation, PreservedInFlightWorkRequestID
<1>3. /\ op \in AsyncOperation /\ op.source = cur.source /\ op.phase = cur.phase
      /\ op.wr = wr
  BY <1>2 DEF AsyncOperation
<1>4. reason \in Conditions
  BY ProjectType
<1>5. ApplyAsyncOperation(st, cur) = [st EXCEPT !.reason = reason, !.async = op]
  BY DEF ApplyAsyncOperation
<1> HIDE DEF op, reason
<1>6. /\ ApplyAsyncOperation(st, cur) \in OSOKStatus
      /\ ApplyAsyncOperation(st, cur).ocid = st.ocid
      /\ ApplyAsyncOperation(st, cur).async = op
  BY <1>3, <1>4, <1>5 DEF OSOKStatus
<1> QED
  BY <1>3, <1>6

LEMMA WorkRequestStatus ==
    ASSUME NEW st \in OSOKStatus, NEW phase \in Phases, NEW wr \in WorkRequestIDs \cup {0},
           NEW class \in Classes
    PROVE  /\ SetWorkRequestOperation(st, phase, wr, class) \in OSOKStatus
           /\ SeedOpeningWorkRequestID(st, phase, wr) \in OSOKStatus
           /\ wr # 0 => ResolveTrackedWorkRequest(SeedOpeningWorkRequestID(st, phase, wr)) = wr
<1> DEFINE op(c) == [source |-> "workrequest", phase |-> phase, wr |-> wr, class |-> c]
<1>1. \A c \in Classes : op(c) \in AsyncOperation
  BY DEF AsyncOperation
<1>2. "pending" \in Classes /\ phase # ""
  BY DEF Classes, Phases
<1>3. /\ op("pending").source = "workrequest" /\ op("pending").phase = phase
      /\ op("pending").wr = wr
  OBVIOUS
<1>4. /\ SetWorkRequestOperation(st, phase, wr, class) = ApplyAsyncOperation(st, op(class))
      /\ SeedOpeningWorkRequestID(st, phase, wr) = ApplyAsyncOperation(st, op("pending"))
  BY DEF SetWorkRequestOperation, SeedOpeningWorkRequestID
<1>5. op(class) \in AsyncOperation /\ op("pending") \in AsyncOperation
  BY <1>1, <1>2
<1> HIDE DEF op
<1>6. /\ ApplyAsyncOperation(st, op(class)) \in OSOKStatus
      /\ ApplyAsyncOperation(st, op("pending")) \in OSOKStatus
  BY <1>5, ApplyType
<1>7. ASSUME wr # 0
      PROVE  ResolveTrackedWorkRequest(ApplyAsyncOperation(st, op("pending"))) = wr
  BY <1>2, <1>3, <1>5, <1>7, ApplyType DEF ResolveTrackedWorkRequest
<1> QED
  BY <1>4, <1>6, <1>7

LEMMA MarkType ==
    ASSUME NEW st \in OSOKStatus
    PROVE  /\ MarkFailure(st) \in OSOKStatus
           /\ MarkDeleted(st) \in OSOKStatus
           /\ MarkTerminating(st) \in OSOKStatus
<1>1. MarkFailure(st) \in OSOKStatus
  <2>1. st.async \in AsyncOperation
    BY DEF OSOKStatus
  <2>2. [st.async EXCEPT !.class = "failed"] \in AsyncOperation
    BY <2>1 DEF AsyncOperation, Classes
  <2>3. [st EXCEPT !.reason = "Failed"] \in OSOKStatus
    BY DEF OSOKStatus, Conditions
  <2> QED
    BY <2>2, <2>3, ApplyType DEF MarkFailure
<1>2. MarkDeleted(st) \in OSOKStatus
  <2>1. NoAsync \in AsyncOperation
    BY DEF NoAsync, AsyncOperation
  <2> QED
    BY <2>1 DEF MarkDeleted, ClearAsyncOperation, OSOKStatus, Conditions
<1>3. MarkTerminating(st) \in OSOKStatus
  <2>1. [source |-> "lifecycle", phase |-> "delete", wr |-> 0, class |-> "pending"]
           \in AsyncOperation
    BY DEF AsyncOperation, Phases, Classes
  <2> QED
    BY <2>1, ApplyType DEF MarkTerminating
<1> QED
  BY <1>1, <1>2, <1>3

\* Observing a resource gives a status that tracks it.
LEMMA ApplySuccessType ==
    ASSUME NEW st \in OSOKStatus, NEW id \in OCIDs \cup {0}, NEW state,
           NEW fallbackPhase \in Phases \cup {""}
    PROVE  /\ ApplySuccess(st, id, state, fallbackPhase) \in OSOKStatus
           /\ ApplySuccess(st, id, state, fallbackPhase).ocid = id
<1> DEFINE tracked == [st EXCEPT !.ocid = id]
           op == ClassifyLifecycle(tracked, state, fallbackPhase)
<1>1. tracked \in OSOKStatus /\ tracked.ocid = id
  BY DEF OSOKStatus
<1> HIDE DEF tracked
<1>2. NoAsync \in AsyncOperation
  BY DEF NoAsync, AsyncOperation
<1>3. op \in AsyncOperation
  <2> DEFINE lifecycle(p, c) == [source |-> "lifecycle", phase |-> p, wr |-> 0, class |-> c]
             phase == IF fallbackPhase # "" THEN fallbackPhase ELSE tracked.async.phase
  <2>1. phase \in Phases \cup {""}
    BY <1>1 DEF OSOKStatus, AsyncOperation
  <2>2. \A p \in Phases, c \in Classes : lifecycle(p, c) \in AsyncOperation
    BY DEF AsyncOperation
  <2>3. \/ \E p \in Phases, c \in Classes : op = lifecycle(p, c)
        \/ op = NoAsync
    <3>1. {"create", "update", "delete"} = Phases
          /\ {"pending", "succeeded", "failed", "unknown"} = Classes
      BY DEF Phases, Classes
    <3> QED
      BY <2>1, <3>1 DEF ClassifyLifecycle
  <2> QED
    BY <1>2, <2>2, <2>3
<1>4. ApplySuccess(st, id, state, fallbackPhase) =
        IF op # NoAsync THEN ApplyAsyncOperation(tracked, op)
        ELSE [ClearAsyncOperation(tracked) EXCEPT
                !.reason = IF state = "FAILED" THEN "Failed" ELSE "Active"]
  BY DEF ApplySuccess, tracked
<1> HIDE DEF op
<1>5. /\ [ClearAsyncOperation(tracked) EXCEPT
             !.reason = IF state = "FAILED" THEN "Failed" ELSE "Active"] \in OSOKStatus
      /\ [ClearAsyncOperation(tracked) EXCEPT
             !.reason = IF state = "FAILED" THEN "Failed" ELSE "Active"].ocid = id
  BY <1>1, <1>2 DEF ClearAsyncOperation, OSOKStatus, Conditions
<1> QED
  BY <1>1, <1>3, <1>4, <1>5, ApplyType

\* A requeue always comes with a duration.
LEMMA ResponseType ==
    ASSUME NEW st
    PROVE  /\ ResponseFor(st) \in [ok : BOOLEAN, requeue : BOOLEAN, after : BOOLEAN]
           /\ ResponseFor(st).requeue => ResponseFor(st).after
<1> DEFINE again == st.async # NoAsync
                    /\ ProjectAsyncCondition(st.async.class, st.async.phase).requeue
<1>1. again \in BOOLEAN
  BY ProjectType
<1>2. ResponseFor(st) = [ok |-> st.reason # "Failed", requeue |-> again, after |-> again]
  BY DEF ResponseFor
<1> HIDE DEF again
<1> QED
  BY <1>1, <1>2
=============================================================================
