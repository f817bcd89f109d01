------------------------- MODULE ConfirmationProofs -------------------------
(***************************************************************************)
(* A deletion that WebAppAcceleration confirms is one that has happened,   *)
(* while the object has one incarnation.  Only a resource that cannot be   *)
(* read yet could be taken for one that is gone.  As long as nothing has   *)
(* failed, every status that names such a resource, in the store, on its   *)
(* way to the cache, in a patch or in a call, tracks its create, and       *)
(* Delete waits for that.                                                  *)
(*                                                                         *)
(* And what it reports as Active has been applied, unless a user takes an  *)
(* edit back: a read that agrees with the spec then cannot precede a write *)
(* that OCI has accepted and does not show yet.                            *)
(***************************************************************************)
EXTENDS WebAppAccelerationProofs

-----------------------------------------------------------------------------
(* The versions of the object, and what the reconciler holds. *)

\* The incarnation is being deleted, or is gone.
Ending(v) == v.uid # 0 /\ (v.ex => v.del)

\* Version v may be stored next.
Follows(v) ==
    /\ v.ex => v.uid # 0
    /\ v.ex => (Api.ex /\ Api.gen <= v.gen) \/ (Api.uid = 0 /\ v.gen = 1)
    /\ Ending(Api) => Ending(v)
    /\ \/ v.st \in {Api.st, EmptyStatus}
       \/ pc \in {"patchStatus", "patchDeleteStatus"} /\ v.st = MergeFrom(Api.st, old, obj.st)

\* The cache catches up by d versions, and the last version is a new one or not.
Shifted(d) ==
    /\ d \in Nat
    /\ log'[Len(log')].uid = 0 => Api.uid = 0
    /\ \A k \in 1 .. Len(log') :
          \/ k + d \in 1 .. Len(log) /\ log'[k] = log[k + d]
          \/ k = Len(log') /\ Follows(log'[k])

LEMMA StoreShifts ==
    ASSUME RP!IInv, NEW v \in RP!Version, R!Room, R!Store(v), Follows(v), v.uid # 0
    PROVE  Shifted(0)
<1>1. RP!TypeOK /\ RP!Room /\ RP!Store(v)
  BY DEF RP!IInv, R!Room, RP!Room, R!Store, RP!Store, R!Gone, RP!Gone
<1>2. /\ Len(log') = Len(log) + 1 /\ \A i \in 1 .. Len(log) : log'[i] = log[i]
      /\ RP!Api' = RP!Stored(v)
  BY <1>1, StatusFits, BoundsFit, RP!StoreEffect
<1>3. log'[Len(log')] = RP!Stored(v) /\ Len(log) \in Nat
  BY <1>2, LogFacts DEF RP!Api
<1>7. RP!Stored(v).uid # 0
  BY DEF RP!Stored, RP!Gone
<1>4. Follows(RP!Stored(v))
  <2>1. CASE RP!Stored(v) = v
    BY <2>1
  <2>2. CASE RP!Stored(v) = RP!Gone(v.uid)
    BY <2>2 DEF Follows, Ending, RP!Gone
  <2> QED
    BY <2>1, <2>2 DEF RP!Stored
<1>5. \A k \in 1 .. Len(log') : k \in 1 .. Len(log) \/ k = Len(log')
  BY <1>2, <1>3
<1>6. \A k \in 1 .. Len(log) : k + 0 = k
  BY <1>3
<1> QED
  BY <1>2, <1>3, <1>4, <1>5, <1>6, <1>7 DEF Shifted

LEMMA LogStep ==
    ASSUME MaxUid = 1, RP!IInv, CallOK, WrsType, SpecOK, [Next]_vars
    PROVE  \E d \in Nat : Shifted(d)
<1> DEFINE Goal == \E d \in Nat : Shifted(d)
<1> SUFFICES Goal
  OBVIOUS
<1>l. /\ Len(log) \in Nat /\ Len(log) >= 1 /\ log \in Seq(RP!Version)
      /\ Api \in RP!Version /\ Api.uid \in Nat /\ Api.gen \in Nat /\ Api = log[Len(log)]
      /\ Api.st \in Statuses
  BY LogFacts DEF RP!Version
<1>a. R!Api = Api
  BY DEF Api
<1>s. ASSUME NEW v \in RP!Version, R!Room, R!Store(v), Follows(v), v.uid # 0
      PROVE  Goal
  BY <1>s, StoreShifts
<1>u. UNCHANGED log => Goal
  <2> SUFFICES ASSUME UNCHANGED log PROVE Shifted(0)
    OBVIOUS
  <2>1. \A k \in 1 .. Len(log) : k + 0 = k
    BY <1>l
  <2> QED
    BY <1>l, <2>1 DEF Shifted
<1>g. Api.ex => Api.uid # 0
  BY DEF SpecOK, SpecInLog
<1> HIDE DEF Goal
<1>1. CASE R!UserCreate
  <2> PICK e \in BOOLEAN :
         R!StoreByOther([ex |-> TRUE, uid |-> R!Api.uid + 1, gen |-> 1, fin |-> FALSE,
                         ext |-> e, del |-> FALSE, st |-> EmptyStatus])
    BY <1>1 DEF R!UserCreate
  <2> DEFINE v == [ex |-> TRUE, uid |-> R!Api.uid + 1, gen |-> 1, fin |-> FALSE,
                   ext |-> e, del |-> FALSE, st |-> EmptyStatus]
  <2>1. R!Room /\ R!Store(v) /\ Api.uid < 1
    BY <1>1, <1>a DEF R!UserCreate, R!StoreByOther
  <2>2. v \in RP!Version /\ v.uid = Api.uid + 1 /\ v.st = EmptyStatus /\ v.gen = 1
    BY <1>a, <1>l, MergeIsStatus DEF RP!Version
  <2> HIDE DEF v
  <2>3. v.uid # 0 /\ Api.uid = 0
    BY <1>l, <2>1, <2>2
  <2>4. Follows(v)
    BY <2>2, <2>3 DEF Follows, Ending
  <2> QED
    BY <1>s, <2>1, <2>2, <2>3, <2>4
<1>2. CASE R!UserEditSpec \/ R!UserDelete
  <2>1. PICK del \in BOOLEAN :
          /\ R!StoreByOther([R!Api EXCEPT !.del = del, !.gen = @ + 1])
          /\ Api.ex /\ (Api.del => del)
    <3>1. CASE R!UserEditSpec
      <4>1. [R!Api EXCEPT !.gen = @ + 1] = [R!Api EXCEPT !.del = R!Api.del, !.gen = @ + 1]
        BY <1>a, <1>l DEF RP!Version
      <4>2. R!Api.del \in BOOLEAN
        BY <1>a, <1>l DEF RP!Version
      <4> QED
        BY <1>a, <3>1, <4>1, <4>2 DEF R!UserEditSpec
    <3>2. CASE R!UserDelete
      BY <1>a, <3>2 DEF R!UserDelete
    <3> QED
      BY <1>2, <3>1, <3>2
  <2> DEFINE v == [R!Api EXCEPT !.del = del, !.gen = @ + 1]
  <2>g. Api.gen + 1 \in Nat
    BY <1>l
  <2>2. /\ v \in RP!Version /\ v.uid = Api.uid /\ v.st = Api.st /\ v.del = del
        /\ v.gen = Api.gen + 1
    BY <1>a, <1>l, <2>g DEF RP!Version
  <2>3. R!Room /\ R!Store(v)
    BY <2>1 DEF R!StoreByOther
  <2> HIDE DEF v
  <2>4. Follows(v) /\ v.uid # 0
    BY <1>g, <1>l, <2>1, <2>2 DEF Follows, Ending
  <2> QED
    BY <1>s, <2>2, <2>3, <2>4
<1>3. CASE R!Deliver
  <2>1. log' = Tail(log) /\ Len(log) > 1
    BY <1>3 DEF R!Deliver
  <2>2. /\ Len(log') = Len(log) - 1
        /\ \A k \in 1 .. Len(log) - 1 : log'[k] = log[k + 1]
    BY <1>l, <2>1
  <2>3. \A k \in 1 .. Len(log') : k + 1 \in 1 .. Len(log) /\ log'[k] = log[k + 1]
    BY <1>l, <2>2
  <2>4. log'[Len(log')] = Api
    BY <1>l, <2>1, <2>2
  <2>5. Shifted(1)
    BY <2>3, <2>4 DEF Shifted
  <2> QED
    BY <2>5 DEF Goal
<1>4. CASE R!AddFinalizer
  <2> DEFINE v == [obj EXCEPT !.fin = TRUE]
  <2>1. R!UpdateAccepted(v) /\ R!Store(v) /\ pc = "addFinalizer"
    BY <1>4 DEF R!AddFinalizer
  <2>2. obj = Api /\ obj.ex /\ R!Room
    BY <2>1 DEF SpecOK, SpecHeld, R!UpdateAccepted, RP!IInv, RP!HeldInStep
  <2>3. /\ v \in RP!Version /\ v.uid = Api.uid /\ v.st = Api.st /\ v.del = Api.del
        /\ v.ex = Api.ex /\ v.gen = Api.gen
    BY <1>l, <2>2 DEF RP!Version
  <2> HIDE DEF v
  <2>4. Follows(v) /\ v.uid # 0
    BY <1>g, <1>l, <2>2, <2>3 DEF Follows, Ending
  <2> QED
    BY <1>s, <2>1, <2>2, <2>3, <2>4
<1>5. CASE R!PatchStatus \/ R!PatchDeleteStatus
  <2>1. CASE UNCHANGED log
    BY <1>u, <2>1
  <2>2. CASE R!PatchApplied /\ ~UNCHANGED log
    <3> DEFINE st == MergeFrom(R!Api.st, old, obj.st)
               v == [R!Api EXCEPT !.st = st]
    <3>1. old \in Statuses /\ obj.st \in Statuses
      BY ReconcilerFacts
    <3>2. st \in Statuses /\ st = MergeFrom(Api.st, old, obj.st)
      BY <1>a, <1>l, <3>1, MergeIsStatus
    <3>3. Api.ex /\ R!Room /\ R!Store(v)
      BY <1>a, <2>2 DEF R!PatchApplied
    <3> HIDE DEF st
    <3>4. /\ v \in RP!Version /\ v.uid = Api.uid /\ v.del = Api.del /\ v.st = st
          /\ v.ex = Api.ex /\ v.gen = Api.gen
      BY <1>a, <1>l, <3>2 DEF RP!Version
    <3> HIDE DEF v
    <3>5. pc \in {"patchStatus", "patchDeleteStatus"}
      BY <1>5 DEF R!PatchStatus, R!PatchDeleteStatus
    <3>6. Follows(v) /\ v.uid # 0
      BY <1>g, <1>l, <3>2, <3>3, <3>4, <3>5 DEF Follows, Ending
    <3> QED
      BY <1>s, <3>3, <3>4, <3>6
  <2> QED
    BY <1>5, <2>1, <2>2 DEF R!PatchStatus, R!PatchDeleteStatus
<1>6. CASE R!RemoveFinalizer
  <2> DEFINE v == [R!Api EXCEPT !.fin = FALSE]
  <2>1. fresh /\ R!Room /\ R!Store(v) /\ pc = "removeFinalizer"
    BY <1>6 DEF R!RemoveFinalizer, R!UpdateAccepted
  <2>2. Api.ex
    BY <2>1, LogFacts DEF RP!IInv, RP!HeldIsStored
  <2>3. /\ v \in RP!Version /\ v.uid = Api.uid /\ v.del = Api.del /\ v.st = Api.st
        /\ v.ex = Api.ex /\ v.gen = Api.gen
    BY <1>a, <1>l DEF RP!Version
  <2> HIDE DEF v
  <2>4. Follows(v) /\ v.uid # 0
    BY <1>g, <1>l, <2>2, <2>3 DEF Follows, Ending
  <2> QED
    BY <1>s, <2>1, <2>3, <2>4
<1>7. CASE Restart
  <2>1. log' = <<Api>>
    BY <1>7, <1>a DEF Restart, R!Restart
  <2> DEFINE d == Len(log) - 1
  <2>2. /\ d \in Nat /\ log'[Len(log')] = Api
        /\ \A k \in 1 .. Len(log') : k + d \in 1 .. Len(log) /\ log'[k] = log[k + d]
    BY <1>l, <2>1
  <2>3. Shifted(d)
    BY <2>2 DEF Shifted
  <2> QED
    BY <2>2, <2>3 DEF Goal
<1>8. CASE Manager
  <2>1. CallStep
    BY <1>8, ReconcilerFacts, CreateStepOK, DeleteStepOK DEF Manager
  <2>2. UNCHANGED log
    BY <2>1 DEF CallStep, reconcilerVars, R!CreateOrUpdateReturns, R!DeleteReturns, R!apiVars
  <2> QED
    BY <1>u, <2>2
<1>9. CASE R!TimerFires \/ R!Start \/ R!FinalizerUpdateFails
  BY <1>9, <1>u DEF R!TimerFires, R!Start, R!FinalizerUpdateFails, R!apiVars
<1>10. CASE (Oci /\ UNCHANGED otherVars) \/ UNCHANGED vars
  BY <1>10, <1>u DEF otherVars, vars, reconcilerVars
<1>11. CASE Kubernetes
  BY <1>11, <1>1, <1>2, <1>3, <1>4, <1>5, <1>6, <1>9 DEF Kubernetes, Users, R!Controller
<1> QED
  BY <1>7, <1>8, <1>10, <1>11 DEF Next

\* What the reconciler holds in the steps in which it calls the manager or
\* patches the status.
LEMMA HeldStep ==
    ASSUME RP!IInv, CallOK, SpecOK, [Next]_vars,
           pc' \in {"createOrUpdate", "patchStatus", "delete", "patchDeleteStatus"}
    PROVE  \/ UNCHANGED <<pc, obj, old>>
           \/ /\ pc = "idle" /\ pc' \in {"createOrUpdate", "delete"} /\ UNCHANGED call
              /\ log[1].ex /\ (pc' = "createOrUpdate" => ~log[1].del)
              /\ obj' = log[1] /\ old' = log[1].st
           \/ /\ pc = "addFinalizer" /\ pc' = "createOrUpdate" /\ UNCHANGED call
              /\ Api.ex /\ ~Api.del /\ obj'.st = Api.st /\ old' = Api.st
           \/ Manager
<1>1. CASE R!UserCreate \/ R!UserEditSpec \/ R!UserDelete \/ R!Deliver \/ R!TimerFires
  BY <1>1 DEF R!UserCreate, R!UserEditSpec, R!UserDelete, R!Deliver, R!TimerFires
<1>2. CASE R!Start /\ UNCHANGED call
  BY <1>2 DEF R!Start, R!Cached, R!CallCreateOrUpdate
<1>3. CASE R!AddFinalizer /\ UNCHANGED call
  <2>1. R!UpdateAccepted([obj EXCEPT !.fin = TRUE]) /\ pc = "addFinalizer"
        /\ R!CallCreateOrUpdate([obj EXCEPT !.fin = TRUE])
    BY <1>3 DEF R!AddFinalizer
  <2>2. obj = Api /\ obj.ex /\ ~obj.fin /\ Api \in RP!Version /\ R!Api = Api
    BY <2>1, LogFacts DEF SpecOK, SpecHeld, R!UpdateAccepted, RP!IInv, RP!HeldInStep, Api
  <2>3. ~Api.del
    BY <2>1, <2>2 DEF R!UpdateAccepted, RP!Version
  <2> QED
    BY <1>3, <2>1, <2>2, <2>3 DEF R!CallCreateOrUpdate, RP!Version
<1>4. CASE \/ R!FinalizerUpdateFails \/ R!PatchStatus \/ R!PatchDeleteStatus \/ R!RemoveFinalizer
           \/ Restart
  BY <1>4 DEF R!FinalizerUpdateFails, R!PatchStatus, R!PatchDeleteStatus, R!RemoveFinalizer,
              R!Finish, Restart, R!Restart
<1>5. CASE (Oci /\ UNCHANGED otherVars) \/ UNCHANGED vars
  BY <1>5 DEF otherVars, vars, reconcilerVars
<1>6. CASE Kubernetes
  BY <1>6, <1>1, <1>2, <1>3, <1>4 DEF Kubernetes, Users, R!Controller
<1> QED
  BY <1>4, <1>5, <1>6 DEF Next

-----------------------------------------------------------------------------
(* Deletions: they are never taken back, and Delete runs only in one. *)

EndsInLog ==
    /\ \A k \in 1 .. Len(log) : log[k].ex => log[k].uid # 0
    /\ \A k, m \in 1 .. Len(log) : k <= m /\ Ending(log[k]) => Ending(log[m])
    /\ pc \in {"delete", "patchDeleteStatus"} => Ending(log[1])

LEMMA EndsStep ==
    ASSUME RP!IInv, RP!IInv', EndsInLog, NEW d \in Nat, Shifted(d)
    PROVE  /\ \A k \in 1 .. Len(log') : log'[k].ex => log'[k].uid # 0
           /\ \A k, m \in 1 .. Len(log') : k <= m /\ Ending(log'[k]) => Ending(log'[m])
           /\ Ending(log[1]) => Ending(log'[1])
<1>l. /\ Len(log) \in Nat /\ Len(log) >= 1 /\ Api = log[Len(log)]
      /\ 1 \in 1 .. Len(log) /\ Len(log) \in 1 .. Len(log)
  BY LogFacts
<1>m. Len(log') \in Nat /\ Len(log') >= 1
  <2>1. RP!TypeOK'
    BY DEF RP!IInv
  <2> QED
    BY <2>1, ReconcilerBounds DEF RP!TypeOK
<1>s. \A k \in 1 .. Len(log') :
         \/ k + d \in 1 .. Len(log) /\ log'[k] = log[k + d]
         \/ k = Len(log') /\ Follows(log'[k])
  BY DEF Shifted
<1>e. ASSUME NEW k \in 1 .. Len(log), NEW v, Follows(v), Ending(log[k])
      PROVE  Ending(v)
  <2>1. Ending(Api)
    BY <1>l, <1>e DEF EndsInLog
  <2> QED
    BY <1>e, <2>1 DEF Follows
<1>1. ASSUME NEW k \in 1 .. Len(log') PROVE log'[k].ex => log'[k].uid # 0
  BY <1>1, <1>s DEF EndsInLog, Follows
<1>2. ASSUME NEW k \in 1 .. Len(log'), NEW m \in 1 .. Len(log'), k <= m, Ending(log'[k])
      PROVE  Ending(log'[m])
  <2>1. CASE k = m
    BY <1>2, <2>1
  <2>2. CASE k # m
    <3>1. k + d \in 1 .. Len(log) /\ log'[k] = log[k + d]
      BY <1>2, <1>m, <1>s, <2>2
    <3>2. CASE m + d \in 1 .. Len(log) /\ log'[m] = log[m + d]
      <4>1. k + d <= m + d
        BY <1>2, <1>m
      <4> QED
        BY <1>2, <3>1, <3>2, <4>1 DEF EndsInLog
    <3>3. CASE Follows(log'[m])
      BY <1>2, <1>e, <3>1, <3>3
    <3> QED
      BY <1>s, <3>2, <3>3
  <2> QED
    BY <2>1, <2>2
<1>3. ASSUME Ending(log[1]) PROVE Ending(log'[1])
  <2>1. 1 \in 1 .. Len(log')
    BY <1>m
  <2>2. CASE 1 + d \in 1 .. Len(log) /\ log'[1] = log[1 + d]
    <3>1. 1 <= 1 + d
      OBVIOUS
    <3> QED
      BY <1>l, <1>3, <2>2, <3>1 DEF EndsInLog
  <2>3. CASE Follows(log'[1])
    BY <1>l, <1>e, <1>3, <2>3
  <2> QED
    BY <1>s, <2>1, <2>2, <2>3
<1> QED
  BY <1>1, <1>2, <1>3

LEMMA EndsInductive ==
    ASSUME MaxUid = 1, RP!IInv, RP!IInv', CallOK, WrsType, SpecOK, EndsInLog, [Next]_vars
    PROVE  EndsInLog' /\ (Ending(log[1]) => Ending(log'[1]))
<1>1. PICK d \in Nat : Shifted(d)
  BY LogStep
<1>2. /\ \A k \in 1 .. Len(log') : log'[k].ex => log'[k].uid # 0
      /\ \A k, m \in 1 .. Len(log') : k <= m /\ Ending(log'[k]) => Ending(log'[m])
      /\ Ending(log[1]) => Ending(log'[1])
  BY <1>1, EndsStep
<1>3. ASSUME pc' \in {"delete", "patchDeleteStatus"} PROVE Ending(log[1])
  <2>1. CASE pc \in {"delete", "patchDeleteStatus"}
    BY <2>1 DEF EndsInLog
  <2>2. CASE R!Start
    <3>1. log[1].ex /\ log[1].del
      BY <1>3, <2>2 DEF R!Start, R!Cached, R!CallCreateOrUpdate
    <3>2. 1 \in 1 .. Len(log)
      BY LogFacts
    <3> QED
      BY <3>1, <3>2 DEF EndsInLog, Ending
  <2>3. CASE Manager
    <3>1. CallStep
      BY <2>3, ReconcilerFacts, CreateStepOK, DeleteStepOK DEF Manager
    <3>2. pc \in {"delete", "patchDeleteStatus"}
      BY <1>3, <3>1 DEF CallStep, reconcilerVars, R!CreateOrUpdateReturns, R!DeleteReturns
    <3> QED
      BY <2>1, <3>2
  <2>4. CASE pc \notin {"delete", "patchDeleteStatus"} /\ ~R!Start /\ ~Manager
    <3>1. CASE Kubernetes
      BY <1>3, <2>4, <3>1
         DEF Kubernetes, Users, R!UserCreate, R!UserEditSpec, R!UserDelete, R!Deliver,
             R!TimerFires, R!Controller, R!AddFinalizer, R!CallCreateOrUpdate,
             R!FinalizerUpdateFails, R!PatchStatus, R!PatchDeleteStatus, R!RemoveFinalizer,
             R!Finish
    <3>2. CASE Restart
      BY <1>3, <3>2 DEF Restart, R!Restart
    <3>3. CASE (Oci /\ UNCHANGED otherVars) \/ UNCHANGED vars
      BY <1>3, <2>4, <3>3 DEF otherVars, vars, reconcilerVars
    <3> QED
      BY <2>4, <3>1, <3>2, <3>3 DEF Next
  <2> QED
    BY <2>1, <2>2, <2>3, <2>4
<1> QED
  BY <1>2, <1>3 DEF EndsInLog, Ending

-----------------------------------------------------------------------------
(* The service: one resource at most that cannot be read yet, and one work   *)
(* request at most for its create.                                           *)

Hidden == {i \in OCIDs : res[i].state = "ACCEPTED"}

\* The deletion of resource i has begun.
Ran(i) == ~Remaining(i) \/ res[i].op = "delete"

ResourcesOnce ==
    /\ \A i \in OCIDs : res[i].own = 0 => res[i].state = "NONE"
    /\ \A i \in OCIDs : res[i].own \in {0, 1}
    /\ \A i \in OCIDs : res[i].own # 0 /\ Ran(i) => Ending(log[1]) /\ pc # "createOrUpdate"
    /\ \A i, j \in OCIDs : i \in Hidden /\ res[j].own # 0 => i = j

WorkRequestsOnce ==
    /\ \A w \in WorkRequestIDs :
          wrs[w].op # "" => wrs[w].res \in OCIDs /\ res[wrs[w].res].own # 0
    /\ \A w \in WorkRequestIDs : wrs[w].status = "IN_PROGRESS" => wrs[w].op # ""
    /\ \A v, w \in WorkRequestIDs :
          wrs[v].op = "create" /\ wrs[w].op = "create" /\ wrs[v].res = wrs[w].res => v = w
    /\ troubles = 0 =>
         \A w \in WorkRequestIDs :
            wrs[w].op = "create" /\ wrs[w].res \in Hidden => wrs[w].status = "IN_PROGRESS"

\* No resource gets an owner, comes back or is hidden again.
ResKept ==
    \A i \in OCIDs :
        /\ res'[i].own = res[i].own
        /\ res[i].state = "NONE" => res'[i].state = "NONE"
        /\ res'[i].state = "ACCEPTED" => res[i].state = "ACCEPTED"
        /\ Ran(i)' => Ran(i) \/ pc = "delete"

\* No work request is opened, and that of a hidden resource stays as it is.
WrsKept ==
    \A w \in WorkRequestIDs :
        /\ wrs'[w].op = wrs[w].op /\ wrs'[w].res = wrs[w].res
        /\ wrs'[w].status = "IN_PROGRESS" => wrs[w].status = "IN_PROGRESS"
        /\ troubles' = 0 /\ wrs[w].res \in OCIDs =>
             (res'[wrs[w].res].state = "ACCEPTED" => wrs'[w].status = wrs[w].status)

Opened(op, i, w) ==
    \/ UNCHANGED wrs
    \/ /\ w \in WorkRequestIDs /\ wrs[w].op = ""
       /\ wrs' = [wrs EXCEPT ![w] = [op |-> op, res |-> i, status |-> "IN_PROGRESS"]]

ServiceWrites ==
    /\ ResKept
    /\ \E op \in {"update", "move", "delete"}, i \in OCIDs, w \in WorkRequestIDs \cup {0} :
          res[i].own # 0 /\ Opened(op, i, w)

\* The first resource of the incarnation.
ServiceCreates(i, w) ==
    /\ pc = "createOrUpdate"
    /\ i \in OCIDs /\ \A j \in OCIDs : res[j].own = 0
    /\ res'[i].own = 1 /\ ~Ran(i)' /\ res'[i].state # "NONE"
    /\ \A j \in OCIDs : j # i => res'[j] = res[j]
    /\ Opened("create", i, w) /\ (w = 0 => UNCHANGED wrs)
    /\ w # 0 => w \in WorkRequestIDs /\ wrs'[w].op = "create" /\ wrs'[w].res = i

LEMMA SameService ==
    ASSUME UNCHANGED ociVars
    PROVE  ResKept /\ WrsKept
  BY DEF ociVars, ResKept, WrsKept, Ran, Remaining

LEMMA OciStepKept ==
    ASSUME ResType, WrsType, Owners, troubles \in Nat, Oci
    PROVE  ResKept /\ WrsKept
<1> DEFINE Kept(i) == /\ res'[i].own = res[i].own
                      /\ res[i].state = "NONE" => res'[i].state = "NONE"
                      /\ res'[i].state = "ACCEPTED" => res[i].state = "ACCEPTED"
                      /\ Ran(i)' => Ran(i) \/ pc = "delete"
<1>r. \A i \in OCIDs : res'[i] = res[i] => Kept(i)
  BY DEF Ran, Remaining

\* One resource changes.
<1>k. ASSUME NEW i \in OCIDs, NEW r, res' = [res EXCEPT ![i] = r],
             r.own = res[i].own, Remaining(i), r.state # "ACCEPTED",
             r.state \in {"NONE", "DELETED"} \/ r.op = "delete" => res[i].op = "delete"
      PROVE  ResKept
  <2>1. res'[i] = r /\ \A j \in OCIDs : j # i => res'[j] = res[j]
    BY <1>k DEF ResType
  <2>2. Kept(i)
    BY <1>k, <2>1 DEF Ran, Remaining
  <2>3. \A j \in OCIDs : Kept(j)
    BY <1>r, <2>1, <2>2
  <2> QED
    BY <2>3 DEF ResKept
<1>w. UNCHANGED wrs => WrsKept
  BY DEF WrsKept
<1>u. UNCHANGED res => ResKept
  BY <1>r DEF ResKept
<1>t. Trouble => troubles' # 0
  BY DEF Trouble

\* The work requests of a resource that can be read end.
<1>e. ASSUME NEW i \in OCIDs, NEW status \in {"SUCCEEDED", "FAILED"}, WorkRequestEnds(i, status),
             res'[i].state # "ACCEPTED"
      PROVE  WrsKept
  <2> SUFFICES ASSUME NEW w \in WorkRequestIDs
               PROVE  /\ wrs'[w].op = wrs[w].op /\ wrs'[w].res = wrs[w].res
                      /\ wrs'[w].status = "IN_PROGRESS" => wrs[w].status = "IN_PROGRESS"
                      /\ wrs[w].res # i => wrs'[w].status = wrs[w].status
    BY <1>e DEF WrsKept
  <2>1. wrs'[w] = wrs[w] \/ (wrs[w].res = i /\ wrs'[w] = [wrs[w] EXCEPT !.status = status])
    BY <1>e DEF WorkRequestEnds
  <2>2. wrs[w] \in [op : Operations \cup {""}, res : OCIDs \cup {0},
                    status : {"", "IN_PROGRESS", "SUCCEEDED", "FAILED", "GONE"}]
    BY DEF WrsType
  <2> QED
    BY <2>1, <2>2
<1>g. \A i \in OCIDs : res[i].op # "" => Remaining(i)
  BY DEF Owners, GoneIdle
<1>1. CASE OperationShows /\ NoTrouble
  <2>1. PICK i \in OCIDs :
          \/ /\ res[i].state = "ACCEPTED"
             /\ res' = [res EXCEPT ![i].state = "CREATING"]
          \/ /\ res[i].op \in {"update", "move", "delete"} /\ res[i].state # Busy(res[i].op)
             /\ res' = [res EXCEPT ![i].state = Busy(res[i].op)]
    BY <1>1 DEF OperationShows
  <2>2. PICK s \in {"CREATING", "UPDATING", "DELETING"} : res' = [res EXCEPT ![i].state = s]
    BY <2>1 DEF Busy
  <2> DEFINE r == [res[i] EXCEPT !.state = s]
  <2>3. /\ res' = [res EXCEPT ![i] = r] /\ r.own = res[i].own /\ r.op = res[i].op
        /\ r.state = s
    BY <2>2 DEF ResType
  <2> HIDE DEF r
  <2>4. Remaining(i)
    BY <1>g, <2>1 DEF Remaining
  <2>5. ResKept
    BY <1>k, <2>3, <2>4
  <2> QED
    BY <1>1, <1>w, <2>5 DEF OperationShows
<1>2. CASE OperationSucceeds /\ NoTrouble
  <2>1. PICK i \in OCIDs :
       /\ \/ /\ res[i].op = "delete" /\ res[i].state = "DELETING"
             /\ \E to \in {"DELETED", "NONE"} :
                   res' = [res EXCEPT ![i].state = to, ![i].op = ""]
          \/ /\ res[i].op # "delete" /\ res[i].state \in {"CREATING", "UPDATING"}
             /\ res' = [res EXCEPT ![i].state = "ACTIVE", ![i].op = "",
                                   ![i].spec = res[i].want]
       /\ WorkRequestEnds(i, "SUCCEEDED")
    BY <1>2 DEF OperationSucceeds
  <2>2. PICK r : /\ res' = [res EXCEPT ![i] = r] /\ r.own = res[i].own /\ r.op = ""
                 /\ r.state \in {"DELETED", "NONE", "ACTIVE"}
                 /\ r.state # "ACTIVE" => res[i].op = "delete"
    <3>1. CASE \E to \in {"DELETED", "NONE"} : /\ res[i].op = "delete"
                                              /\ res' = [res EXCEPT ![i].state = to, ![i].op = ""]
      <4>1. PICK to \in {"DELETED", "NONE"} :
              res[i].op = "delete" /\ res' = [res EXCEPT ![i].state = to, ![i].op = ""]
        BY <3>1
      <4> WITNESS [res[i] EXCEPT !.state = to, !.op = ""]
      <4> QED
        BY <4>1 DEF ResType
    <3>2. CASE res' = [res EXCEPT ![i].state = "ACTIVE", ![i].op = "", ![i].spec = res[i].want]
      <4> WITNESS [res[i] EXCEPT !.state = "ACTIVE", !.op = "", !.spec = res[i].want]
      <4> QED
        BY <3>2 DEF ResType
    <3> QED
      BY <2>1, <3>1, <3>2
  <2>3. Remaining(i)
    BY <2>1 DEF Remaining
  <2>4. ResKept
    BY <1>k, <2>2, <2>3
  <2>5. res'[i].state # "ACCEPTED"
    BY <2>2 DEF ResType
  <2> QED
    BY <1>e, <2>1, <2>4, <2>5
<1>3. CASE OperationFails
  <2>1. PICK i \in OCIDs :
          /\ res[i].op # "" /\ WorkRequestEnds(i, "FAILED")
          /\ res' = [res EXCEPT ![i].op = "", ![i].want = res[i].spec,
                       ![i].state = IF res[i].op = "create" THEN "FAILED" ELSE "ACTIVE"]
    BY <1>3 DEF OperationFails
  <2>2. PICK s \in {"FAILED", "ACTIVE"} :
          res' = [res EXCEPT ![i].op = "", ![i].want = res[i].spec, ![i].state = s]
    BY <2>1
  <2> DEFINE r == [res[i] EXCEPT !.op = "", !.want = res[i].spec, !.state = s]
  <2>3. res' = [res EXCEPT ![i] = r] /\ r.own = res[i].own /\ r.op = "" /\ r.state = s
    BY <2>2 DEF ResType
  <2> HIDE DEF r
  <2>4. ResKept
    BY <1>g, <1>k, <2>1, <2>3
  <2>5. res'[i].state # "ACCEPTED"
    BY <2>3 DEF ResType
  <2> QED
    BY <1>e, <2>1, <2>4, <2>5
<1>4. CASE (WorkRequestSucceedsEarly /\ NoTrouble) \/ WorkRequestVanishes
  <2>1. PICK w \in WorkRequestIDs, s \in {"SUCCEEDED", "GONE"} :
          /\ wrs' = [wrs EXCEPT ![w].status = s] /\ UNCHANGED res
          /\ troubles' # 0 \/ (wrs[w].res \in OCIDs => res[wrs[w].res].state # "ACCEPTED")
    BY <1>4, <1>t DEF WorkRequestSucceedsEarly, WorkRequestVanishes
  <2>2. /\ wrs'[w].op = wrs[w].op /\ wrs'[w].res = wrs[w].res /\ wrs'[w].status = s
        /\ \A v \in WorkRequestIDs : v # w => wrs'[v] = wrs[v]
    BY <2>1 DEF WrsType
  <2>3. WrsKept
    BY <2>1, <2>2 DEF WrsKept
  <2> QED
    BY <1>u, <2>1, <2>3
<1> QED
  BY <1>1, <1>2, <1>3, <1>4 DEF Oci

LEMMA FreeIsUnused ==
    ASSUME NEW op, NEW i, NEW w, OpenWorkRequest(op, i, w)
    PROVE  /\ Opened(op, i, w) /\ (w = 0 => UNCHANGED wrs)
           /\ w # 0 => w \in WorkRequestIDs
           /\ w # 0 => wrs' = [wrs EXCEPT ![w] = [op |-> op, res |-> i, status |-> "IN_PROGRESS"]]
<1>1. 0 \notin WorkRequestIDs
  BY WaaAssumption
<1>2. \A v \in FreeWorkRequests : v \in WorkRequestIDs /\ wrs[v].op = ""
  BY DEF FreeWorkRequests, NextFree
<1> QED
  BY <1>1, <1>2 DEF OpenWorkRequest, Opened

LEMMA WriteService ==
    ASSUME ResType, ResourcesOnce, NEW op \in {"update", "move", "delete"}, NEW i \in OCIDs,
           NEW want, NEW w \in WorkRequestIDs \cup {0}, WriteAccepted(op, i, want, w),
           op = "delete" => pc = "delete"
    PROVE  ServiceWrites
<1> DEFINE r == [res[i] EXCEPT !.op = op, !.want = want]
<1>1. /\ res' = [res EXCEPT ![i] = r] /\ r.own = res[i].own /\ r.op = op
      /\ r.state = res[i].state /\ res[i].state \in {"ACTIVE", "FAILED"}
  BY DEF WriteAccepted, ResType
<1> HIDE DEF r
<1>2. res'[i] = r /\ \A j \in OCIDs : j # i => res'[j] = res[j]
  BY <1>1 DEF ResType
<1>3. ResKept
  BY <1>1, <1>2 DEF ResKept, Ran, Remaining
<1>4. res[i].own # 0
  BY <1>1 DEF ResourcesOnce
<1>5. Opened(op, i, w)
  BY FreeIsUnused DEF WriteAccepted
<1> QED
  BY <1>3, <1>4, <1>5 DEF ServiceWrites

LEMMA CreateService ==
    ASSUME ResType, WrsType, ResourcesOnce, pc = "createOrUpdate", NEW gen,
           NEW i \in OCIDs, NEW w \in WorkRequestIDs \cup {0},
           CreateAccepted(1, 1, gen, i, w)
    PROVE  (UNCHANGED ociVars /\ CreateWorkRequest(i, w) /\ res[i].own # 0) \/ ServiceCreates(i, w)
<1>1. CASE i \in CreatedWith(1) /\ CreateWorkRequest(i, w) /\ UNCHANGED ociVars
  BY <1>1 DEF CreatedWith
<1>2. ASSUME CreatedWith(1) = {}, NEW state \in {"ACCEPTED", "CREATING"},
             res' = [res EXCEPT ![i] = [own |-> 1, gen |-> gen, op |-> "create",
                                        spec |-> spec[gen], want |-> spec[gen],
                                        state |-> state]],
             OpenWorkRequest("create", i, w)
      PROVE  ServiceCreates(i, w)
  <2>1. \A j \in OCIDs : res[j].own = 0
    BY <1>2 DEF ResourcesOnce, CreatedWith, Ran
  <2>2. /\ res'[i].own = 1 /\ res'[i].op = "create" /\ res'[i].state = state
        /\ \A j \in OCIDs : j # i => res'[j] = res[j]
    BY <1>2 DEF ResType
  <2>3. /\ Opened("create", i, w) /\ (w = 0 => UNCHANGED wrs)
        /\ w # 0 => w \in WorkRequestIDs
        /\ w # 0 => wrs' = [wrs EXCEPT ![w] = [op |-> "create", res |-> i, status |-> "IN_PROGRESS"]]
    BY <1>2, FreeIsUnused
  <2>4. ASSUME w # 0 PROVE w \in WorkRequestIDs /\ wrs'[w].op = "create" /\ wrs'[w].res = i
    <3>1. /\ wrs' = [wrs EXCEPT ![w] = [op |-> "create", res |-> i, status |-> "IN_PROGRESS"]]
          /\ w \in WorkRequestIDs
      BY <2>3, <2>4
    <3> QED
      BY <3>1 DEF WrsType
  <2> QED
    BY <2>1, <2>2, <2>3, <2>4 DEF ServiceCreates, Ran, Remaining
<1> QED
  BY <1>1, <1>2 DEF CreateAccepted

\* What CreateOrUpdate is called on.
LEMMA OneIncarnation ==
    ASSUME MaxUid = 1, RP!IInv, RP!UidBounded, SpecOK, pc = "createOrUpdate"
    PROVE  obj.uid = 1
<1>1. obj.uid \in Nat /\ Api.uid \in Nat /\ RP!Api = Api
  BY ReconcilerFacts, LogFacts
<1>2. Api.ex /\ Api.uid = obj.uid
  BY <1>1 DEF RP!IInv, RP!Safe, RP!CreateOnGuardedObject
<1>3. Api.uid # 0 /\ Api.uid <= 1
  BY <1>1, <1>2 DEF SpecOK, SpecInLog, RP!UidBounded
<1> QED
  BY <1>1, <1>2, <1>3

LEMMA CallService ==
    ASSUME MaxUid = 1, AInv, RP!UidBounded, ResourcesOnce, Manager
    PROVE  \/ ResKept /\ WrsKept
           \/ ServiceWrites
           \/ \E i \in OCIDs, w \in WorkRequestIDs \cup {0} : ServiceCreates(i, w)
<1>a. RP!IInv /\ CallOK /\ SpecOK /\ ResType /\ WrsType
  BY DEF AInv, StateOK
<1>u. UNCHANGED ociVars => ResKept /\ WrsKept
  BY SameService
<1>c. /\ call.step \in CreateSteps => pc = "createOrUpdate"
      /\ call.step \in DeleteSteps => pc = "delete"
      /\ call.step \in WriteSteps => call.id \in OCIDs
  BY <1>a, CallFacts
<1>1. CASE Create
  <2>1. pc = "createOrUpdate" /\ obj.uid = 1
    BY <1>1, <1>a, <1>c, OneIncarnation DEF Create, At, CreateSteps
  <2>2. \/ UNCHANGED ociVars
        \/ \E i \in OCIDs, w \in WorkRequestIDs \cup {0} : CreateAccepted(1, 1, obj.gen, i, w)
    BY <1>1, <2>1 DEF Create, RetryToken
  <2> QED
    BY <1>a, <1>u, <2>1, <2>2, CreateService
<1>w. ASSUME NEW op \in {"update", "move", "delete"}, NEW want, NEW w \in WorkRequestIDs \cup {0},
             call.id \in OCIDs, op = "delete" => pc = "delete",
             WriteAccepted(op, call.id, want, w)
      PROVE  ServiceWrites
  BY <1>a, <1>w, WriteService
<1>2. CASE MoveCompartment
  <2>1. call.id \in OCIDs
    BY <1>2, <1>c DEF MoveCompartment, At, WriteSteps
  <2> DEFINE want == [res[call.id].spec EXCEPT !.comp = Desired.comp]
  <2>2. \/ UNCHANGED ociVars
        \/ \E w \in WorkRequestIDs \cup {0} : WriteAccepted("move", call.id, want, w)
    BY <1>2 DEF MoveCompartment, CallWrite
  <2> HIDE DEF want
  <2> QED
    BY <1>u, <1>w, <2>1, <2>2
<1>5. CASE Update
  <2>1. call.id \in OCIDs
    BY <1>5, <1>c DEF Update, At, WriteSteps
  <2> DEFINE want == [res[call.id].spec EXCEPT !.body = Desired.body]
  <2>2. \/ UNCHANGED ociVars
        \/ \E w \in WorkRequestIDs \cup {0} : WriteAccepted("update", call.id, want, w)
    BY <1>5 DEF Update, CallWrite
  <2> HIDE DEF want
  <2> QED
    BY <1>u, <1>w, <2>1, <2>2
<1>3. CASE RequestDelete
  <2>1. call.id \in OCIDs /\ pc = "delete"
    BY <1>3, <1>c DEF RequestDelete, At, WriteSteps, DeleteSteps
  <2> DEFINE want == res[call.id].spec
  <2>2. \/ UNCHANGED ociVars
        \/ \E w \in WorkRequestIDs \cup {0} : WriteAccepted("delete", call.id, want, w)
    BY <1>3 DEF RequestDelete
  <2> HIDE DEF want
  <2> QED
    BY <1>u, <1>w, <2>1, <2>2
<1>4. CASE ~(Create \/ MoveCompartment \/ Update \/ RequestDelete)
  <2>1. UNCHANGED ociVars
    BY <1>4 DEF Manager, CreateOrUpdate, ReadCurrent, FindExisting, ReadAfterCreate, ReadAfterMove,
         ReadAfterUpdate, PollPendingWorkRequest, DeleteStep, Delete, GuardPoll,
         GuardLifecycle, GuardSucceeded, PreRead, ConfirmDeleted, PollDelete, ConfirmSucceeded
  <2> QED
    BY <1>u, <2>1
<1> QED
  BY <1>1, <1>2, <1>3, <1>4, <1>5

LEMMA ServiceStep ==
    ASSUME MaxUid = 1, AInv, RP!UidBounded, ResourcesOnce, [Next]_vars
    PROVE  \/ ResKept /\ WrsKept
           \/ ServiceWrites
           \/ \E i \in OCIDs, w \in WorkRequestIDs \cup {0} : ServiceCreates(i, w)
<1>a. ResType /\ WrsType /\ Owners /\ troubles \in Nat /\ CallOK
  BY WaaAssumption DEF AInv, StateOK
<1>1. CASE Kubernetes \/ Restart \/ UNCHANGED vars
  BY <1>1, SameService DEF Kubernetes, Restart, vars, ociVars
<1>2. CASE Oci
  BY <1>2, <1>a, OciStepKept
<1>3. CASE Manager
  BY <1>3, CallService
<1> QED
  BY <1>1, <1>2, <1>3 DEF Next

LEMMA TroublesGrow ==
    ASSUME troubles \in Nat, [Next]_vars, troubles' = 0
    PROVE  troubles = 0
<1>t. Trouble \/ NoTrouble => troubles = 0
  BY DEF Trouble, NoTrouble
<1>1. CASE Kubernetes \/ Restart
  BY <1>1, <1>t DEF Kubernetes, Restart
<1>2. CASE Manager
  BY <1>2, <1>t, CallTroubles DEF Manager
<1>3. CASE Oci
  BY <1>3, <1>t DEF Oci, OperationFails, WorkRequestVanishes
<1>4. CASE UNCHANGED vars
  BY <1>4 DEF vars
<1> QED
  BY <1>1, <1>2, <1>3, <1>4 DEF Next

\* Once the cache shows the deletion, CreateOrUpdate is not called any more.
LEMMA NoCreateAtEnd ==
    ASSUME RP!IInv, CallOK, WrsType, SpecOK, EndsInLog, [Next]_vars, Ending(log[1]),
           pc # "createOrUpdate"
    PROVE  pc' # "createOrUpdate"
<1> SUFFICES ASSUME pc' = "createOrUpdate" PROVE FALSE
  OBVIOUS
<1>1. Ending(Api)
  BY LogFacts DEF EndsInLog
<1>2. ~Manager
  <2> SUFFICES ASSUME Manager PROVE FALSE
    OBVIOUS
  <2>1. CallStep
    BY ReconcilerFacts, CreateStepOK, DeleteStepOK DEF Manager
  <2> QED
    BY <2>1 DEF CallStep, reconcilerVars, R!CreateOrUpdateReturns, R!DeleteReturns, R!Finish
<1> QED
  BY <1>1, <1>2, HeldStep DEF Ending

LEMMA ResourcesInductive ==
    ASSUME MaxUid = 1, AInv, AInv', RP!UidBounded, EndsInLog, ResourcesOnce, [Next]_vars
    PROVE  ResourcesOnce'
<1>a. RP!IInv /\ CallOK /\ SpecOK /\ ResType /\ WrsType /\ RP!IInv'
  BY DEF AInv, StateOK
<1>e. Ending(log[1]) => Ending(log'[1])
  BY <1>a, EndsInductive
<1>1. CASE ResKept
  <2>1. \A i \in OCIDs : res'[i].own = 0 => res'[i].state = "NONE"
    BY <1>1 DEF ResKept, ResourcesOnce
  <2>2. \A i \in OCIDs : res'[i].own \in {0, 1}
    BY <1>1 DEF ResKept, ResourcesOnce
  <2>3. ASSUME NEW i \in OCIDs, res'[i].own # 0, Ran(i)'
        PROVE  Ending(log'[1]) /\ pc' # "createOrUpdate"
    <3>1. Ending(log[1]) /\ pc # "createOrUpdate"
      BY <1>1, <2>3 DEF ResKept, ResourcesOnce, EndsInLog
    <3> QED
      BY <1>a, <1>e, <3>1, NoCreateAtEnd
  <2>4. \A i, j \in OCIDs : i \in Hidden' /\ res'[j].own # 0 => i = j
    BY <1>1 DEF ResKept, ResourcesOnce, Hidden
  <2> QED
    BY <2>1, <2>2, <2>3, <2>4 DEF ResourcesOnce, Ending
<1>2. ASSUME NEW i \in OCIDs, NEW w, ServiceCreates(i, w)
      PROVE  ResourcesOnce'
  <2>1. /\ res'[i].own = 1 /\ ~Ran(i)' /\ res'[i].state # "NONE"
        /\ \A j \in OCIDs : j # i => /\ res'[j] = res[j] /\ res[j].own = 0
                                     /\ res[j].state = "NONE"
    BY <1>2 DEF ServiceCreates, ResourcesOnce
  <2> QED
    BY <2>1 DEF ResourcesOnce, Hidden
<1> QED
  BY <1>1, <1>2, ServiceStep DEF ServiceWrites

LEMMA WorkRequestsInductive ==
    ASSUME MaxUid = 1, AInv, RP!UidBounded, ResourcesOnce, WorkRequestsOnce, [Next]_vars
    PROVE  WorkRequestsOnce'
<1>a. ResType /\ WrsType /\ troubles \in Nat
  BY WaaAssumption DEF AInv, StateOK
<1>t. troubles' = 0 => troubles = 0
  BY <1>a, TroublesGrow
<1>1. CASE ResKept /\ WrsKept
  <2>1. ASSUME NEW w \in WorkRequestIDs, wrs'[w].op # ""
        PROVE  wrs'[w].res \in OCIDs /\ res'[wrs'[w].res].own # 0
    <3>1. wrs'[w].op = wrs[w].op /\ wrs'[w].res = wrs[w].res
      BY <1>1 DEF WrsKept
    <3>2. wrs[w].res \in OCIDs /\ res[wrs[w].res].own # 0
      BY <2>1, <3>1 DEF WorkRequestsOnce
    <3>3. res'[wrs[w].res].own = res[wrs[w].res].own
      BY <1>1, <3>2 DEF ResKept
    <3> QED
      BY <3>1, <3>2, <3>3
  <2>2. \A w \in WorkRequestIDs : wrs'[w].status = "IN_PROGRESS" => wrs'[w].op # ""
    BY <1>1 DEF WrsKept, WorkRequestsOnce
  <2>3. \A v, w \in WorkRequestIDs :
          wrs'[v].op = "create" /\ wrs'[w].op = "create" /\ wrs'[v].res = wrs'[w].res => v = w
    BY <1>1 DEF WrsKept, WorkRequestsOnce
  <2>4. ASSUME troubles' = 0, NEW w \in WorkRequestIDs, wrs'[w].op = "create",
               wrs'[w].res \in Hidden'
        PROVE  wrs'[w].status = "IN_PROGRESS"
    BY <1>1, <1>t, <2>4 DEF ResKept, WrsKept, WorkRequestsOnce, Hidden
  <2> QED
    BY <2>1, <2>2, <2>3, <2>4 DEF WorkRequestsOnce

\* A work request is opened, for a create only of a resource that has none.
<1>2. ASSUME NEW op \in {"create", "update", "move", "delete"}, NEW i \in OCIDs, NEW w,
             Opened(op, i, w),
             \A j \in OCIDs : j # i \/ op # "create" => res'[j].own = res[j].own,
             \A j \in Hidden' : j \in Hidden \/ (j = i /\ op = "create"),
             res'[i].own # 0, op = "create" => res[i].own = 0
      PROVE  WorkRequestsOnce'
  <2> DEFINE Old(v) == UNCHANGED wrs \/ v # w
  <2>1. /\ \A v \in WorkRequestIDs : Old(v) => wrs'[v] = wrs[v]
        /\ \A v \in WorkRequestIDs : ~Old(v) =>
              /\ v = w /\ wrs'[v].op = op /\ wrs'[v].res = i /\ wrs'[v].status = "IN_PROGRESS"
    <3>1. CASE UNCHANGED wrs
      BY <3>1
    <3>2. CASE w \in WorkRequestIDs
               /\ wrs' = [wrs EXCEPT ![w] = [op |-> op, res |-> i, status |-> "IN_PROGRESS"]]
      BY <1>a, <3>2 DEF WrsType
    <3> QED
      BY <1>2, <3>1, <3>2 DEF Opened
  <2>2. \A v \in WorkRequestIDs : wrs[v].op = "create" /\ op = "create" => wrs[v].res # i
    BY <1>2 DEF WorkRequestsOnce
  <2>3. \A j \in OCIDs : res[j].own # 0 => res'[j].own # 0
    BY <1>2
  <2> HIDE DEF Old
  <2>4. \A v \in WorkRequestIDs :
          wrs'[v].op # "" => wrs'[v].res \in OCIDs /\ res'[wrs'[v].res].own # 0
    BY <1>2, <2>1, <2>3 DEF WorkRequestsOnce
  <2>5. \A v \in WorkRequestIDs : wrs'[v].status = "IN_PROGRESS" => wrs'[v].op # ""
    BY <1>2, <2>1 DEF WorkRequestsOnce
  <2>6. \A v, u \in WorkRequestIDs :
          wrs'[v].op = "create" /\ wrs'[u].op = "create" /\ wrs'[v].res = wrs'[u].res => v = u
    BY <2>1, <2>2 DEF WorkRequestsOnce
  <2>7. ASSUME troubles' = 0, NEW v \in WorkRequestIDs, wrs'[v].op = "create",
               wrs'[v].res \in Hidden'
        PROVE  wrs'[v].status = "IN_PROGRESS"
    <3>1. CASE ~Old(v)
      BY <2>1, <3>1
    <3>2. CASE Old(v)
      <4>1. wrs'[v] = wrs[v] /\ wrs[v].op = "create"
        BY <2>1, <2>7, <3>2
      <4>2. wrs[v].res \in Hidden
        BY <1>2, <2>2, <2>7, <4>1
      <4> QED
        BY <1>t, <2>7, <4>1, <4>2 DEF WorkRequestsOnce
    <3> QED
      BY <3>1, <3>2
  <2> QED
    BY <2>4, <2>5, <2>6, <2>7 DEF WorkRequestsOnce
<1>3. CASE ServiceWrites
  <2>1. PICK op \in {"update", "move", "delete"}, i \in OCIDs, w \in WorkRequestIDs \cup {0} :
          res[i].own # 0 /\ Opened(op, i, w)
    BY <1>3 DEF ServiceWrites
  <2>2. /\ \A j \in OCIDs : res'[j].own = res[j].own
        /\ \A j \in Hidden' : j \in Hidden
    BY <1>3 DEF ServiceWrites, ResKept, Hidden
  <2> QED
    BY <1>2, <2>1, <2>2
<1>4. ASSUME NEW i \in OCIDs, NEW w, ServiceCreates(i, w)
      PROVE  WorkRequestsOnce'
  <2>1. /\ Opened("create", i, w) /\ res[i].own = 0 /\ res'[i].own # 0
        /\ \A j \in OCIDs : j # i => res'[j] = res[j]
    BY <1>4 DEF ServiceCreates
  <2>2. \A j \in Hidden' : j \in Hidden \/ j = i
    BY <2>1 DEF Hidden
  <2>3. \A j \in OCIDs : j # i => res'[j].own = res[j].own
    BY <2>1
  <2> QED
    BY <1>2, <2>1, <2>2, <2>3
<1> QED
  BY <1>1, <1>3, <1>4, ServiceStep

-----------------------------------------------------------------------------
(* The running Delete is about the resource of the status it was called on. *)

DeleteOfTracked ==
    /\ call.step \in DeleteSteps => call.id = obj.st.ocid /\ call.st.ocid = obj.st.ocid
    /\ call.step \in {"guardPoll", "guardLifecycle"} => call.st = obj.st
    /\ call.step = "guardLifecycle" => call.st.async.wr = 0

LEMMA KubernetesKeepsHeld ==
    ASSUME Kubernetes, pc \in {"createOrUpdate", "delete"}
    PROVE  UNCHANGED <<pc, obj, old, call, confirmed>>
<1>1. CASE Users \/ R!Deliver \/ R!TimerFires
  BY <1>1 DEF Kubernetes, Users, R!UserCreate, R!UserEditSpec, R!UserDelete, R!Deliver,
              R!TimerFires, R!histVars
<1>2. CASE R!Controller
  BY <1>2 DEF R!Controller, R!Start, R!AddFinalizer, R!FinalizerUpdateFails, R!PatchStatus,
              R!PatchDeleteStatus, R!RemoveFinalizer
<1> QED
  BY <1>1, <1>2 DEF Kubernetes

LEMMA DeleteCallTracked ==
    ASSUME RP!IInv, CallOK, DeleteOfTracked, DeleteStep, pc = "delete"
    PROVE  DeleteOfTracked'
<1>n. call' = NoCall => DeleteOfTracked'
  BY DEF NoCall, DeleteOfTracked, DeleteSteps
<1>r. ASSUME NEW st, NEW out, DeleteReturns(st, out) PROVE DeleteOfTracked'
  BY <1>r, <1>n DEF DeleteReturns
<1>c. ASSUME NEW step, NEW st, NEW w, NEW i, Continue(step, st, i, w), i = obj.st.ocid,
             st.ocid = obj.st.ocid, step \notin {"guardPoll", "guardLifecycle"}
      PROVE  DeleteOfTracked'
  BY <1>c DEF Continue, reconcilerVars, DeleteOfTracked
<1>d. ASSUME NEW st, DeleteUnguarded(st), st.ocid = obj.st.ocid
      PROVE  DeleteOfTracked'
  BY <1>d, <1>c, <1>r DEF DeleteUnguarded
<1>f. /\ call.st \in Statuses /\ obj.st \in Statuses
      /\ ClearAsyncOperation(call.st).ocid = call.st.ocid
  BY CallFacts, ReconcilerFacts DEF ClearAsyncOperation, Statuses
<1>1. CASE Delete
  <2>1. CASE PendingWriteBeforeDelete(obj.st)
    <3>1. Continue(IF obj.st.async.wr # 0 THEN "guardPoll" ELSE "guardLifecycle",
                   obj.st, obj.st.ocid, 0)
      BY <1>1, <2>1 DEF Delete
    <3> QED
      BY <3>1 DEF Continue, reconcilerVars, DeleteOfTracked
  <2>2. CASE ~PendingWriteBeforeDelete(obj.st)
    BY <1>1, <1>d, <2>2 DEF Delete
  <2> QED
    BY <2>1, <2>2
<1>2. CASE GuardPoll
  <2>1. call.id = obj.st.ocid /\ call.st.ocid = obj.st.ocid
    BY <1>2 DEF GuardPoll, At, DeleteOfTracked, DeleteSteps
  <2>2. \/ PollEndsDelete(call.st)
        \/ DeleteUnguarded(ClearAsyncOperation(call.st))
        \/ Continue("guardSucceeded", call.st, call.id, 0)
    BY <1>2 DEF GuardPoll
  <2>3. PollEndsDelete(call.st) => DeleteOfTracked'
    BY <1>r DEF PollEndsDelete
  <2> QED
    BY <1>c, <1>d, <1>f, <2>1, <2>2, <2>3
<1>g. ASSUME NEW settled, NEW i, GuardReadback(call.st, i, settled), settled.ocid = obj.st.ocid
      PROVE  DeleteOfTracked'
  BY <1>g, <1>d, <1>r DEF GuardReadback
<1>3. CASE GuardLifecycle
  <2>1. call.id = obj.st.ocid /\ call.st.ocid = obj.st.ocid
    BY <1>3 DEF GuardLifecycle, At, DeleteOfTracked, DeleteSteps
  <2>2. \/ DeleteReturns(call.st, "error") \/ DeleteReturns(MarkWithoutReadback(call.st), "pending")
        \/ GuardReadback(call.st, call.id, call.st)
    BY <1>3 DEF GuardLifecycle
  <2> QED
    BY <1>g, <1>r, <2>1, <2>2
<1>4. CASE GuardSucceeded
  <2>1. call.id = obj.st.ocid /\ call.st.ocid = obj.st.ocid
    BY <1>4 DEF GuardSucceeded, At, DeleteOfTracked, DeleteSteps
  <2>2. \/ DeleteReturns(FailWorkRequest(call.st, Succeeded(call.st.async.wr)), "error")
        \/ DeleteUnguarded(ClearAsyncOperation(call.st))
        \/ GuardReadback(call.st, call.id, ClearAsyncOperation(call.st))
    BY <1>4 DEF GuardSucceeded
  <2> QED
    BY <1>d, <1>f, <1>g, <1>r, <2>1, <2>2
<1>5. CASE PreRead
  <2>1. call.id = obj.st.ocid /\ call.st.ocid = obj.st.ocid
    BY <1>5 DEF PreRead, At, DeleteOfTracked, DeleteSteps
  <2>2. \/ \E st, out : DeleteReturns(st, out)
        \/ Continue("delete", call.st, call.id, 0)
    BY <1>5 DEF PreRead, HandleDeleteReadState
  <2> QED
    BY <1>c, <1>r, <2>1, <2>2
<1>6. CASE RequestDelete
  <2>1. call.id = obj.st.ocid /\ call.st.ocid = obj.st.ocid
    BY <1>6 DEF RequestDelete, At, DeleteOfTracked, DeleteSteps
  <2>2. ASSUME NEW w \in WorkRequestIDs \cup {0}
        PROVE  Seed(call.st, "delete", w).ocid = call.st.ocid
    BY <1>f DEF Seed, A!ApplyAsyncOperation, Statuses
  <2>3. \/ \E w \in WorkRequestIDs \cup {0} :
              Continue(IF w # 0 THEN "pollDelete" ELSE "confirm", Seed(call.st, "delete", w), call.id, w)
        \/ DeleteReturns(call.st, "error") \/ DeleteReturns(call.st, "409 IncorrectState")
        \/ DeleteReturns(Confirmed(call.st), "deleted")
    BY <1>6 DEF RequestDelete
  <2> QED
    BY <1>c, <1>r, <2>1, <2>2, <2>3
<1>7. CASE ConfirmDeleted
  <2>1. \E st, out : DeleteReturns(st, out)
    BY <1>7 DEF ConfirmDeleted, HandleDeleteReadState
  <2> QED
    BY <1>r, <2>1
<1>8. CASE PollDelete
  <2>1. call.id = obj.st.ocid /\ call.st.ocid = obj.st.ocid
    BY <1>8 DEF PollDelete, At, DeleteOfTracked, DeleteSteps
  <2>2. PollEndsDelete(call.st) => DeleteOfTracked'
    BY <1>r DEF PollEndsDelete
  <2> QED
    BY <1>8, <1>c, <2>1, <2>2 DEF PollDelete
<1>9. CASE ConfirmSucceeded
  BY <1>9, <1>r DEF ConfirmSucceeded
<1> QED
  BY <1>1, <1>2, <1>3, <1>4, <1>5, <1>6, <1>7, <1>8, <1>9 DEF DeleteStep

\* Where a step of CreateOrUpdate or of Delete can be taken.
LEMMA StepInCall ==
    ASSUME CallOK
    PROVE  /\ CreateOrUpdate => pc = "createOrUpdate"
           /\ DeleteStep => pc = "delete"
<1>c. /\ call.step \in CreateSteps => pc = "createOrUpdate"
      /\ call.step \in DeleteSteps => pc = "delete"
  BY CallFacts
<1>1. CreateOrUpdate => pc = "createOrUpdate"
  BY <1>c DEF CreateOrUpdate, ReadCurrent, FindExisting, Create, ReadAfterCreate, MoveCompartment,
              ReadAfterMove, Update, ReadAfterUpdate, PollPendingWorkRequest, At, CreateSteps
<1>2. DeleteStep => pc = "delete"
  BY <1>c DEF DeleteStep, Delete, GuardPoll, GuardLifecycle, GuardSucceeded, PreRead,
              RequestDelete, ConfirmDeleted, PollDelete, ConfirmSucceeded, At, DeleteSteps
<1> QED
  BY <1>1, <1>2

LEMMA TrackedInductive ==
    ASSUME RP!IInv, CallOK, WrsType, DeleteOfTracked, [Next]_vars
    PROVE  DeleteOfTracked'
<1>n. call' = NoCall => DeleteOfTracked'
  BY DEF NoCall, DeleteOfTracked, DeleteSteps
<1>u. UNCHANGED <<call, obj>> => DeleteOfTracked'
  BY DEF DeleteOfTracked
<1>1. CASE Kubernetes
  <2>1. UNCHANGED call
    BY <1>1 DEF Kubernetes
  <2>2. CASE call.step \in DeleteSteps
    BY <1>1, <1>u, <2>2, KubernetesKeepsHeld DEF CallOK
  <2>3. CASE call.step \notin DeleteSteps
    BY <2>1, <2>3 DEF DeleteOfTracked, DeleteSteps
  <2> QED
    BY <2>2, <2>3
<1>2. CASE Restart
  BY <1>2, <1>n DEF Restart
<1>3. CASE DeleteStep
  BY <1>3, StepInCall, DeleteCallTracked
<1>4. CASE CreateOrUpdate
  <2>1. pc = "createOrUpdate" /\ CallStep
    BY <1>4, StepInCall, CreateStepOK, ReconcilerFacts
  <2>2. CASE UNCHANGED reconcilerVars /\ CallOK'
    <3>1. call'.step \notin DeleteSteps
      BY <2>1, <2>2 DEF CallOK, reconcilerVars
    <3> QED
      BY <3>1 DEF DeleteOfTracked, DeleteSteps
  <2> QED
    BY <1>n, <2>1, <2>2 DEF CallStep
<1>5. CASE (Oci /\ UNCHANGED otherVars) \/ UNCHANGED vars
  BY <1>5, <1>u DEF otherVars, vars, reconcilerVars
<1> QED
  BY <1>1, <1>2, <1>3, <1>4, <1>5 DEF Next, Manager

-----------------------------------------------------------------------------
(* Statuses while no resource can be read yet. *)

Young == \A i \in OCIDs : res[i].own = 0 \/ i \in Hidden

\* How CreateOrUpdate tracks the create that work request w, or none, runs.
TrackerOf(w) ==
    IF w = 0 THEN LifecycleOperation("create", "pending") ELSE PendingOperation("create", w)

\* The creates in flight: a resource and the work request of its create.
Creates ==
    {c \in OCIDs \X (WorkRequestIDs \cup {0}) : c[1] \in Hidden /\ CreateWorkRequest(c[1], c[2])}

TracksCreate(st) == <<st.ocid, st.async.wr>> \in Creates

Unnamed(st) == st.ocid = 0 /\ st.async = NoTracker
Named(st)   == TracksCreate(st) /\ st.async = TrackerOf(st.async.wr)

\* Delete names the operation of a create without a work request.
Guarded(st) ==
    /\ TracksCreate(st)
    /\ st.async \in {TrackerOf(st.async.wr), PendingOperation("create", st.async.wr)}

\* The statuses that CreateOrUpdate leaves, and those that Delete finds.
CreateKind(st) == Unnamed(st) \/ Named(st)

DeleteKind(st) == (st.ocid = 0 /\ st.async.phase = "") \/ Guarded(st)

LEMMA TrackerFacts ==
    ASSUME NEW w \in WorkRequestIDs \cup {0}
    PROVE  /\ TrackerOf(w) \in Trackers /\ PendingOperation("create", w) \in Trackers
           /\ TrackerOf(w).wr = w /\ PendingOperation("create", w).wr = w
           /\ TrackerOf(w).phase = "create" /\ PendingOperation("create", w).phase = "create"
           /\ TrackerOf(w).class = "pending" /\ PendingOperation("create", w).class = "pending"
           /\ TrackerOf(w).source = PendingOperation("create", w).source
           /\ TrackerOf(w).op \in {"", "create"} /\ PendingOperation("create", w).op = "create"
           /\ w # 0 => TrackerOf(w) = PendingOperation("create", w)
<1>1. "create" \in Operations
  BY DEF Operations
<1>2. /\ PendingOperation("create", w) \in Trackers
      /\ PendingOperation("create", w).wr = w /\ PendingOperation("create", w).phase = "create"
      /\ PendingOperation("create", w).class = "pending"
      /\ PendingOperation("create", w).op = "create"
      /\ PendingOperation("create", w).source = IF w = 0 THEN "lifecycle" ELSE "workrequest"
  BY <1>1, PendingType DEF PendingOperation, WorkRequestPhase
<1> DEFINE plain == LifecycleOperation("create", "pending")
<1>3. /\ plain \in Trackers /\ plain.wr = 0 /\ plain.phase = "create" /\ plain.class = "pending"
      /\ plain.op = "" /\ plain.source = "lifecycle"
  BY DEF LifecycleOperation, Trackers, A!Phases, A!Classes
<1>4. TrackerOf(w) = IF w = 0 THEN plain ELSE PendingOperation("create", w)
  BY DEF TrackerOf
<1> HIDE DEF plain
<1> QED
  BY <1>2, <1>3, <1>4

LEMMA NoTrackerFacts ==
    /\ NoTracker \in Trackers /\ NoTracker.wr = 0 /\ NoTracker.phase = "" /\ NoTracker.op = ""
    /\ NoTracker.source = "" /\ NoTracker.class = ""
  BY DEF NoTracker, Trackers

LEMMA CreateIsDeleteKind ==
    ASSUME NEW st, CreateKind(st)
    PROVE  DeleteKind(st)
  BY NoTrackerFacts DEF CreateKind, DeleteKind, Unnamed, Named, Guarded

\* There is one create to track.
LEMMA OneCreate ==
    ASSUME ResourcesOnce, WorkRequestsOnce, NEW a \in Statuses, NEW b \in Statuses,
           TracksCreate(a), TracksCreate(b)
    PROVE  a.ocid = b.ocid /\ a.async.wr = b.async.wr
<1> DEFINE i == a.ocid  j == b.ocid  v == a.async.wr  w == b.async.wr
<1>1. /\ i \in Hidden /\ CreateWorkRequest(i, v) /\ v \in WorkRequestIDs \cup {0}
      /\ j \in Hidden /\ CreateWorkRequest(j, w) /\ w \in WorkRequestIDs \cup {0}
  BY DEF TracksCreate, Creates
<1>2. \A x \in Hidden : x \in OCIDs /\ res[x].own # 0
  BY DEF ResourcesOnce, Hidden
<1> HIDE DEF i, j, v, w
<1>3. i = j
  BY <1>1, <1>2 DEF ResourcesOnce
<1>4. \A x, y \in WorkRequestIDs :
          wrs[x].op = "create" /\ wrs[y].op = "create" /\ wrs[x].res = wrs[y].res => x = y
  BY DEF WorkRequestsOnce
<1>5. v = w
  BY <1>1, <1>3, <1>4 DEF CreateWorkRequest
<1> QED
  BY <1>3, <1>5 DEF i, j, v, w

\* A leaf of the stored, the earlier and the later status.
Merged(s, b, a) == IF a = b THEN s ELSE a

LEMMA MergeLeaves ==
    ASSUME NEW s \in Statuses, NEW b \in Statuses, NEW a \in Statuses, NEW m,
           m = MergeFrom(s, b, a)
    PROVE  /\ m \in Statuses /\ m.async \in Trackers
           /\ m.ocid = Merged(s.ocid, b.ocid, a.ocid)
           /\ \/ a.async = NoTracker /\ b.async # NoTracker /\ m.async = NoTracker
              \/ /\ a.async # NoTracker \/ b.async = NoTracker
                 /\ m.async.source = Merged(s.async.source, b.async.source, a.async.source)
                 /\ m.async.phase = Merged(s.async.phase, b.async.phase, a.async.phase)
                 /\ m.async.op = Merged(s.async.op, b.async.op, a.async.op)
                 /\ m.async.wr = Merged(s.async.wr, b.async.wr, a.async.wr)
                 /\ m.async.class = Merged(s.async.class, b.async.class, a.async.class)
<1> DEFINE leaf(x, y, z) == IF z = y THEN x ELSE z
           merged == [f \in DOMAIN NoTracker |-> leaf(s.async[f], b.async[f], a.async[f])]
<1>1. m = [ocid |-> leaf(s.ocid, b.ocid, a.ocid), reason |-> leaf(s.reason, b.reason, a.reason),
           async |-> IF a.async = NoTracker /\ b.async # NoTracker THEN NoTracker ELSE merged]
  BY DEF MergeFrom
<1>2. /\ merged.source = Merged(s.async.source, b.async.source, a.async.source)
      /\ merged.phase = Merged(s.async.phase, b.async.phase, a.async.phase)
      /\ merged.op = Merged(s.async.op, b.async.op, a.async.op)
      /\ merged.wr = Merged(s.async.wr, b.async.wr, a.async.wr)
      /\ merged.class = Merged(s.async.class, b.async.class, a.async.class)
  BY DEF NoTracker, Merged
<1> HIDE DEF merged
<1>3. /\ m.ocid = Merged(s.ocid, b.ocid, a.ocid)
      /\ m.async = IF a.async = NoTracker /\ b.async # NoTracker THEN NoTracker ELSE merged
  BY <1>1 DEF Merged
<1>4. m \in Statuses /\ m.async \in Trackers
  BY MergeIsStatus, StatusType
<1> QED
  BY <1>2, <1>3, <1>4

\* Trackers with the same leaves.
LEMMA SameLeaves ==
    ASSUME NEW x \in Trackers, NEW y \in Trackers,
           x.source = y.source, x.phase = y.phase, x.op = y.op, x.wr = y.wr, x.class = y.class
    PROVE  x = y
<1>1. ASSUME NEW z \in Trackers
      PROVE  z = [source |-> z.source, phase |-> z.phase, op |-> z.op, wr |-> z.wr,
                  class |-> z.class]
  BY <1>1 DEF Trackers
<1>2. /\ x = [source |-> x.source, phase |-> x.phase, op |-> x.op, wr |-> x.wr, class |-> x.class]
      /\ y = [source |-> y.source, phase |-> y.phase, op |-> y.op, wr |-> y.wr, class |-> y.class]
  BY <1>1
<1> QED
  BY <1>2

LEMMA NamedFacts ==
    ASSUME NEW x \in Statuses, Guarded(x) \/ Named(x)
    PROVE  /\ x.async.phase = "create" /\ x.async.class = "pending"
           /\ x.async # NoTracker /\ x.ocid # 0 /\ x.ocid \in Hidden
           /\ x.async.op \in {"", "create"} /\ TracksCreate(x)
<1>1. x.async.wr \in WorkRequestIDs \cup {0}
  BY StatusType
<1>2. /\ x.async \in {TrackerOf(x.async.wr), PendingOperation("create", x.async.wr)}
      /\ TracksCreate(x)
  BY DEF Guarded, Named
<1>3. /\ x.async.phase = "create" /\ x.async.class = "pending"
      /\ x.async.op \in {"", "create"}
  <2> DEFINE w == x.async.wr  y == x.async
  <2>1. w \in WorkRequestIDs \cup {0} /\ (y = TrackerOf(w) \/ y = PendingOperation("create", w))
    BY <1>1, <1>2
  <2> HIDE DEF w, y
  <2>w. w \in WorkRequestIDs \cup {0}
    BY <2>1
  <2>a. /\ TrackerOf(w).phase = "create" /\ PendingOperation("create", w).phase = "create"
        /\ TrackerOf(w).class = "pending" /\ PendingOperation("create", w).class = "pending"
        /\ TrackerOf(w).op \in {"", "create"} /\ PendingOperation("create", w).op = "create"
    BY ONLY <2>w, TrackerFacts
  <2>2. y.phase = "create" /\ y.class = "pending" /\ y.op \in {"", "create"}
    <3>1. CASE y = TrackerOf(w)
      BY <2>a, <3>1
    <3>2. CASE y = PendingOperation("create", w)
      BY <2>a, <3>2
    <3> QED
      BY <2>1, <3>1, <3>2
  <2> QED
    BY <2>2 DEF y
<1>4. x.async # NoTracker
  BY <1>3, NoTrackerFacts
<1>5. x.ocid \in Hidden /\ x.ocid # 0
  BY <1>2, WaaAssumption DEF TracksCreate, Creates, Hidden
<1> QED
  BY <1>2, <1>3, <1>4, <1>5

LEMMA MergeCreate ==
    ASSUME ResourcesOnce, WorkRequestsOnce, NEW s \in Statuses, NEW b \in Statuses,
           NEW a \in Statuses, CreateKind(s), CreateKind(b), CreateKind(a)
    PROVE  CreateKind(MergeFrom(s, b, a))
<1> SUFFICES ASSUME NEW m, m = MergeFrom(s, b, a) PROVE CreateKind(m)
  OBVIOUS
<1>t. s.async \in Trackers /\ b.async \in Trackers /\ a.async \in Trackers /\ m.async \in Trackers
  BY StatusType, MergeLeaves
<1>u. \A x, y \in Statuses : Named(x) /\ Named(y) => x.ocid = y.ocid /\ x.async = y.async
  BY OneCreate DEF Named
<1>s. ASSUME NEW x, CreateKind(x), m.ocid = x.ocid, m.async = x.async PROVE CreateKind(m)
  BY <1>s DEF CreateKind, Unnamed, Named, TracksCreate
<1>1. CASE a.ocid = b.ocid /\ a.async = b.async
  <2>1. /\ m.ocid = s.ocid /\ m.async.source = s.async.source /\ m.async.phase = s.async.phase
        /\ m.async.op = s.async.op /\ m.async.wr = s.async.wr /\ m.async.class = s.async.class
    BY <1>1, MergeLeaves DEF Merged
  <2>2. m.async = s.async
    BY <1>t, <2>1, SameLeaves
  <2> QED
    BY <1>s, <2>1, <2>2
<1>2. CASE Unnamed(a) /\ Named(b)
  <2>1. m.ocid = 0 /\ m.async = NoTracker
    <3>1. b.ocid # 0 /\ b.async # NoTracker
      BY <1>2, NamedFacts
    <3>2. a.ocid = 0 /\ a.async = NoTracker
      BY <1>2 DEF Unnamed
    <3> QED
      BY <3>1, <3>2, MergeLeaves DEF Merged
  <2> QED
    BY <2>1 DEF CreateKind, Unnamed
<1>3. CASE Named(a) /\ Unnamed(b)
  <2>1. a.ocid # 0 /\ b.ocid = 0 /\ b.async = NoTracker
    BY <1>3, NamedFacts DEF Unnamed
  <2>2. s.async = b.async \/ s.async = a.async
    BY <1>3, <1>u DEF CreateKind, Unnamed
  <2>3. /\ m.ocid = a.ocid /\ m.async.source = a.async.source /\ m.async.phase = a.async.phase
        /\ m.async.op = a.async.op /\ m.async.wr = a.async.wr /\ m.async.class = a.async.class
    BY <2>1, <2>2, MergeLeaves DEF Merged
  <2>4. m.async = a.async
    BY <1>t, <2>3, SameLeaves
  <2> QED
    BY <1>s, <2>3, <2>4
<1>4. CASE (Unnamed(a) /\ Unnamed(b)) \/ (Named(a) /\ Named(b))
  BY <1>1, <1>4, <1>u DEF Unnamed
<1> QED
  BY <1>2, <1>3, <1>4 DEF CreateKind

LEMMA MergeDelete ==
    ASSUME ResourcesOnce, WorkRequestsOnce, NEW s \in Statuses, NEW b \in Statuses,
           NEW a \in Statuses, DeleteKind(s), Guarded(b), Guarded(a)
    PROVE  DeleteKind(MergeFrom(s, b, a))
<1> SUFFICES ASSUME NEW m, m = MergeFrom(s, b, a) PROVE DeleteKind(m)
  OBVIOUS
<1>t. s.async \in Trackers /\ b.async \in Trackers /\ a.async \in Trackers /\ m.async \in Trackers
  BY StatusType, MergeLeaves

\* Guarded trackers of one work request differ in the operation only.
<1>g. ASSUME NEW x \in Statuses, NEW y \in Statuses, Guarded(x), Guarded(y)
      PROVE  /\ x.ocid = y.ocid /\ x.async.wr = y.async.wr /\ x.async.source = y.async.source
             /\ x.async.phase = y.async.phase /\ x.async.class = y.async.class
  <2>1. x.ocid = y.ocid /\ x.async.wr = y.async.wr
    BY <1>g, OneCreate DEF Guarded
  <2> DEFINE w == x.async.wr
  <2>2. w \in WorkRequestIDs \cup {0}
    BY <1>g, StatusType
  <2>3. /\ x.async \in {TrackerOf(w), PendingOperation("create", w)}
        /\ y.async \in {TrackerOf(w), PendingOperation("create", w)}
    BY <1>g, <2>1 DEF Guarded
  <2> HIDE DEF w
  <2>5. ASSUME NEW z, z = TrackerOf(w) \/ z = PendingOperation("create", w)
        PROVE  /\ z.source = TrackerOf(w).source /\ z.phase = TrackerOf(w).phase
               /\ z.class = TrackerOf(w).class
    <3>1. CASE z = TrackerOf(w)
      BY <3>1
    <3>2. CASE z = PendingOperation("create", w)
      BY <2>2, <3>2, TrackerFacts
    <3> QED
      BY <2>5, <3>1, <3>2
  <2>6. /\ x.async = TrackerOf(w) \/ x.async = PendingOperation("create", w)
        /\ y.async = TrackerOf(w) \/ y.async = PendingOperation("create", w)
    BY <2>3
  <2>4. /\ x.async.source = y.async.source /\ x.async.phase = y.async.phase
        /\ x.async.class = y.async.class
    BY <2>5, <2>6
  <2> QED
    BY <2>1, <2>4
<1>a. /\ a.ocid = b.ocid /\ a.async.wr = b.async.wr /\ a.async.source = b.async.source
      /\ a.async.phase = b.async.phase /\ a.async.class = b.async.class /\ a.async # NoTracker
  BY <1>g, NamedFacts
<1>f. /\ m.ocid = s.ocid /\ m.async.source = s.async.source /\ m.async.phase = s.async.phase
      /\ m.async.wr = s.async.wr /\ m.async.class = s.async.class
      /\ m.async.op \in {s.async.op, a.async.op}
  BY <1>a, MergeLeaves DEF Merged
<1>1. CASE s.ocid = 0 /\ s.async.phase = ""
  BY <1>1, <1>f DEF DeleteKind
<1>2. CASE Guarded(s)
  <2>1. /\ s.ocid = a.ocid /\ s.async.wr = a.async.wr /\ s.async.source = a.async.source
        /\ s.async.phase = a.async.phase /\ s.async.class = a.async.class
    BY <1>2, <1>g
  <2>2. m.async = s.async \/ m.async = a.async
    BY <1>f, <1>t, <2>1, SameLeaves
  <2> QED
    BY <1>2, <1>f, <2>1, <2>2 DEF DeleteKind, Guarded, TracksCreate
<1> QED
  BY <1>1, <1>2 DEF DeleteKind

-----------------------------------------------------------------------------
(* As long as nothing has failed and no resource can be read, the statuses   *)
(* everywhere are of these kinds.                                            *)

CreateStatuses == {st \in Statuses : CreateKind(st)}

DeleteStatuses == {st \in Statuses : DeleteKind(st)}
GuardStatuses  == {st \in Statuses : Guarded(st)}

YoungLog ==
    /\ \A k \in 1 .. Len(log) : log[k].st \in DeleteStatuses
    /\ pc \in {"createOrUpdate", "patchStatus"} \/ ~Ending(log[1]) =>
         \A k \in 1 .. Len(log) : log[k].st \in CreateStatuses

YoungHeld ==
    /\ pc \in {"createOrUpdate", "patchStatus"} =>
         obj.st \in CreateStatuses /\ old \in CreateStatuses
    /\ pc = "delete" => obj.st \in DeleteStatuses /\ old = obj.st
    /\ pc = "patchDeleteStatus" => obj.st \in GuardStatuses /\ old \in GuardStatuses

YoungCall ==
    /\ call.step \in {"none", "list", "create", "readCreated", "poll", "guardPoll",
                      "guardLifecycle"}
    /\ call.step \in {"list", "create"} => Unnamed(call.st)
    /\ call.step = "readCreated" =>
         /\ <<call.id, call.wr>> \in Creates
         /\ call.st.async = IF call.wr = 0 THEN NoTracker ELSE PendingOperation("create", call.wr)
    /\ call.step = "poll" =>
         /\ <<call.id, call.st.async.wr>> \in Creates
         /\ call.st.async = PendingOperation("create", call.st.async.wr)
    /\ call.step \in {"guardPoll", "guardLifecycle"} => obj.st \in GuardStatuses

YoungInv == troubles = 0 /\ Young => YoungLog /\ YoungHeld /\ YoungCall

LEMMA Kinds ==
    ASSUME NEW st \in Statuses
    PROVE  /\ st.ocid = 0 /\ st.async = NoTracker => st \in CreateStatuses /\ st \in CreateStatuses'
           /\ st.async \in {TrackerOf(st.async.wr), PendingOperation("create", st.async.wr)} =>
                (<<st.ocid, st.async.wr>> \in Creates' => st \in GuardStatuses')
           /\ st.async = TrackerOf(st.async.wr) =>
                (<<st.ocid, st.async.wr>> \in Creates' => st \in CreateStatuses')
<1>1. st.ocid = 0 /\ st.async = NoTracker => st \in CreateStatuses /\ st \in CreateStatuses'
  BY DEF CreateStatuses, CreateKind, Unnamed
<1>2. ASSUME st.async = TrackerOf(st.async.wr), <<st.ocid, st.async.wr>> \in Creates'
      PROVE  st \in CreateStatuses'
  BY <1>2 DEF CreateStatuses, CreateKind, Named, TracksCreate
<1>3. ASSUME st.async \in {TrackerOf(st.async.wr), PendingOperation("create", st.async.wr)},
             <<st.ocid, st.async.wr>> \in Creates'
      PROVE  st \in GuardStatuses'
  BY <1>3 DEF GuardStatuses, Guarded, TracksCreate
<1> QED
  BY <1>1, <1>2, <1>3

LEMMA KindsGrow ==
    ASSUME Creates \subseteq Creates'
    PROVE  /\ CreateStatuses \subseteq CreateStatuses' /\ DeleteStatuses \subseteq DeleteStatuses'
           /\ GuardStatuses \subseteq GuardStatuses' /\ CreateStatuses' \subseteq DeleteStatuses'
<1>1. \A st : TracksCreate(st) => TracksCreate(st)'
  BY DEF TracksCreate
<1>2. CreateStatuses \subseteq CreateStatuses'
  BY <1>1 DEF CreateStatuses, CreateKind, Named, Unnamed, TracksCreate
<1>3. DeleteStatuses \subseteq DeleteStatuses'
  BY <1>1 DEF DeleteStatuses, DeleteKind, Guarded, TracksCreate
<1>4. GuardStatuses \subseteq GuardStatuses'
  BY <1>1 DEF GuardStatuses, Guarded, TracksCreate
<1>5. CreateStatuses' \subseteq DeleteStatuses'
  BY NoTrackerFacts DEF CreateStatuses, DeleteStatuses, CreateKind, DeleteKind, Unnamed, Named,
                        Guarded, TracksCreate
<1> QED
  BY <1>2, <1>3, <1>4, <1>5

\* Nobody but the first Create starts a create, and none ends while no
\* resource can be read.
LEMMA CreatesKept ==
    ASSUME MaxUid = 1, AInv, RP!UidBounded, ResourcesOnce, WorkRequestsOnce, [Next]_vars, Young'
    PROVE  /\ Young /\ Creates \subseteq Creates'
           /\ \A i, w : ServiceCreates(i, w) /\ w \in WorkRequestIDs \cup {0} =>
                <<i, w>> \in Creates'
<1>y. \A i \in OCIDs : res'[i].own = 0 \/ i \in Hidden'
  BY DEF Young
<1>1. CASE ResKept
  <2>1. Young
    BY <1>1, <1>y DEF Young, ResKept, Hidden
  <2>2. Hidden \subseteq Hidden'
    <3>1. \A i \in Hidden : i \in OCIDs /\ res[i].own # 0
      BY DEF ResourcesOnce, Hidden
    <3> QED
      BY <1>1, <1>y, <3>1 DEF ResKept
  <2>o. ASSUME NEW i, NEW w, ServiceCreates(i, w) PROVE FALSE
    BY <1>1, <2>o DEF ResKept, ServiceCreates
  <2> DEFINE Made(i, w) == CreateWorkRequest(i, w)
             MadeAfter(i, w) == \/ w # 0 /\ wrs'[w].op = "create" /\ wrs'[w].res = i
                                \/ w = 0 /\ \A v \in WorkRequestIDs : wrs'[v].res = i => wrs'[v].op # "create"
  <2>3. ASSUME NEW i \in OCIDs, NEW w \in WorkRequestIDs \cup {0}, Made(i, w)
        PROVE  MadeAfter(i, w)
    <3>1. CASE WrsKept
      BY <2>3, <3>1 DEF WrsKept, CreateWorkRequest
    <3>2. CASE ServiceWrites
      <4>1. PICK op \in {"update", "move", "delete"}, j \in OCIDs, u \in WorkRequestIDs \cup {0} :
              Opened(op, j, u)
        BY <3>2 DEF ServiceWrites
      <4>2. CASE UNCHANGED wrs
        BY <2>3, <4>2 DEF CreateWorkRequest
      <4>3. CASE /\ u \in WorkRequestIDs /\ wrs[u].op = ""
                 /\ wrs' = [wrs EXCEPT ![u] = [op |-> op, res |-> j, status |-> "IN_PROGRESS"]]
        <5>1. wrs'[u].op = op /\ \A v \in WorkRequestIDs : v # u => wrs'[v] = wrs[v]
          BY <4>3 DEF AInv, StateOK, WrsType
        <5> QED
          BY <2>3, <4>3, <5>1 DEF CreateWorkRequest
      <4> QED
        BY <4>1, <4>2, <4>3 DEF Opened
    <3> QED
      BY <2>o, <3>1, <3>2, ServiceStep
  <2>4. Creates \subseteq Creates'
    BY <2>2, <2>3 DEF Creates, CreateWorkRequest
  <2> QED
    BY <2>1, <2>4, <2>o
<1>2. ASSUME NEW i, NEW w, ServiceCreates(i, w)
      PROVE  /\ Young /\ Creates \subseteq Creates'
             /\ w \in WorkRequestIDs \cup {0} => <<i, w>> \in Creates'
  <2>1. \A j \in OCIDs : res[j].own = 0
    BY <1>2 DEF ServiceCreates
  <2>2. Young /\ Hidden = {}
    BY <2>1 DEF Young, Hidden, ResourcesOnce
  <2>3. Creates = {}
    BY <2>2 DEF Creates
  <2>4. i \in OCIDs /\ i \in Hidden'
    BY <1>2, <1>y DEF ServiceCreates
  <2>5. ASSUME w \in WorkRequestIDs \cup {0}
        PROVE  \/ w # 0 /\ wrs'[w].op = "create" /\ wrs'[w].res = i
               \/ w = 0 /\ \A v \in WorkRequestIDs : wrs'[v].res = i => wrs'[v].op # "create"
    <3>1. CASE w # 0
      BY <1>2, <3>1 DEF ServiceCreates
    <3>2. CASE w = 0
      <4>1. UNCHANGED wrs
        BY <1>2, <3>2 DEF ServiceCreates
      <4> QED
        BY <2>1, <3>2, <4>1 DEF WorkRequestsOnce
    <3> QED
      BY <3>1, <3>2
  <2>6. w \in WorkRequestIDs \cup {0} => <<i, w>> \in Creates'
    BY <2>4, <2>5 DEF Creates, CreateWorkRequest
  <2> QED
    BY <2>2, <2>3, <2>6
<1> QED
  BY <1>1, <1>2, ServiceStep DEF ServiceWrites

LEMMA MergedKinds ==
    ASSUME ResourcesOnce, WorkRequestsOnce
    PROVE  /\ \A s, b, a \in CreateStatuses : MergeFrom(s, b, a) \in CreateStatuses
           /\ \A s \in DeleteStatuses : \A b, a \in GuardStatuses :
                MergeFrom(s, b, a) \in DeleteStatuses
<1>1. ASSUME NEW s \in CreateStatuses, NEW b \in CreateStatuses, NEW a \in CreateStatuses
      PROVE  MergeFrom(s, b, a) \in CreateStatuses
  <2>1. /\ s \in Statuses /\ b \in Statuses /\ a \in Statuses
        /\ CreateKind(s) /\ CreateKind(b) /\ CreateKind(a)
    BY DEF CreateStatuses
  <2>2. CreateKind(MergeFrom(s, b, a)) /\ MergeFrom(s, b, a) \in Statuses
    BY <2>1, MergeCreate, MergeIsStatus
  <2> QED
    BY <2>2 DEF CreateStatuses
<1>2. ASSUME NEW s \in DeleteStatuses, NEW b \in GuardStatuses, NEW a \in GuardStatuses
      PROVE  MergeFrom(s, b, a) \in DeleteStatuses
  <2>1. /\ s \in Statuses /\ b \in Statuses /\ a \in Statuses
        /\ DeleteKind(s) /\ Guarded(b) /\ Guarded(a)
    BY DEF DeleteStatuses, GuardStatuses
  <2>2. DeleteKind(MergeFrom(s, b, a)) /\ MergeFrom(s, b, a) \in Statuses
    BY <2>1, MergeDelete, MergeIsStatus
  <2> QED
    BY <2>2 DEF DeleteStatuses
<1> QED
  BY <1>1, <1>2

\* What the cache shows when CreateOrUpdate is called.
LEMMA CalledBeforeEnd ==
    ASSUME RP!IInv, CallOK, WrsType, SpecOK, EndsInLog, [Next]_vars,
           pc' \in {"createOrUpdate", "patchStatus"}
    PROVE  pc \in {"createOrUpdate", "patchStatus"} \/ ~Ending(log[1])
<1>1. CASE Manager
  <2>1. CallStep
    BY <1>1, ReconcilerFacts, CreateStepOK, DeleteStepOK DEF Manager
  <2> QED
    BY <2>1 DEF CallStep, reconcilerVars, R!CreateOrUpdateReturns, R!DeleteReturns, R!Finish
<1>2. Ending(log[1]) => Ending(Api)
  BY LogFacts DEF EndsInLog
<1> QED
  BY <1>1, <1>2, HeldStep DEF Ending

LEMMA YoungLogStep ==
    ASSUME MaxUid = 1, AInv, AInv', EndsInLog, ResourcesOnce, WorkRequestsOnce, [Next]_vars,
           Creates \subseteq Creates', YoungLog, YoungHeld
    PROVE  YoungLog'
<1>a. RP!IInv /\ CallOK /\ SpecOK /\ ResType /\ WrsType /\ RP!IInv'
  BY DEF AInv, StateOK
<1>e. Ending(log[1]) => Ending(log'[1])
  BY <1>a, EndsInductive
<1>d. PICK d \in Nat : Shifted(d)
  BY <1>a, LogStep
<1>s. \A k \in 1 .. Len(log') :
         \/ k + d \in 1 .. Len(log) /\ log'[k] = log[k + d]
         \/ Follows(log'[k])
  BY <1>d DEF Shifted
<1>l. Api = log[Len(log)] /\ Len(log) \in 1 .. Len(log)
  BY <1>a, LogFacts
<1>m. EmptyStatus \in CreateStatuses'
  <2>1. EmptyStatus \in Statuses /\ EmptyStatus.ocid = 0 /\ EmptyStatus.async = NoTracker
    BY MergeIsStatus DEF EmptyStatus
  <2> QED
    BY <2>1, Kinds
<1>f. ASSUME NEW v, Follows(v)
      PROVE  \/ v.st = Api.st \/ v.st = EmptyStatus
             \/ pc \in {"patchStatus", "patchDeleteStatus"} /\ v.st = MergeFrom(Api.st, old, obj.st)
  BY <1>f DEF Follows
<1>1. ASSUME NEW k \in 1 .. Len(log') PROVE log'[k].st \in DeleteStatuses'
  <2>1. CASE k + d \in 1 .. Len(log) /\ log'[k] = log[k + d]
    BY <2>1, KindsGrow DEF YoungLog
  <2>2. CASE Follows(log'[k])
    <3>1. Api.st \in DeleteStatuses
      BY <1>l DEF YoungLog
    <3>2. pc = "patchStatus" => MergeFrom(Api.st, old, obj.st) \in CreateStatuses
      BY <1>l, MergedKinds DEF YoungLog, YoungHeld
    <3>3. pc = "patchDeleteStatus" => MergeFrom(Api.st, old, obj.st) \in DeleteStatuses
      BY <3>1, MergedKinds DEF YoungHeld
    <3> QED
      BY <1>f, <1>m, <2>2, <3>1, <3>2, <3>3, KindsGrow
  <2> QED
    BY <1>s, <2>1, <2>2
<1>2. ASSUME pc' \in {"createOrUpdate", "patchStatus"} \/ ~Ending(log'[1]),
             NEW k \in 1 .. Len(log')
      PROVE  log'[k].st \in CreateStatuses'
  <2>0. pc \in {"createOrUpdate", "patchStatus"} \/ ~Ending(log[1])
    BY <1>2, <1>a, <1>e, CalledBeforeEnd
  <2>1. CASE k + d \in 1 .. Len(log) /\ log'[k] = log[k + d]
    BY <2>0, <2>1, KindsGrow DEF YoungLog
  <2>2. CASE Follows(log'[k])
    <3>1. Api.st \in CreateStatuses
      BY <1>l, <2>0 DEF YoungLog
    <3>2. pc = "patchStatus" => MergeFrom(Api.st, old, obj.st) \in CreateStatuses
      BY <3>1, MergedKinds DEF YoungHeld
    <3>3. pc # "patchDeleteStatus"
      BY <2>0 DEF EndsInLog
    <3> QED
      BY <1>f, <1>m, <2>2, <3>1, <3>2, <3>3, KindsGrow
  <2> QED
    BY <1>s, <2>1, <2>2
<1> QED
  BY <1>1, <1>2 DEF YoungLog, Ending

\* What the tracker shows after an observation that brings its own work
\* request, or that follows none.
LEMMA ApplyFacts ==
    ASSUME NEW st \in Statuses, NEW cur \in Trackers,
           cur.wr # 0 \/ st.async.wr = 0
    PROVE  /\ A!ApplyAsyncOperation(st, cur) \in Statuses
           /\ A!ApplyAsyncOperation(st, cur).ocid = st.ocid
           /\ A!ApplyAsyncOperation(st, cur).async = cur
<1> DEFINE wr == IF cur.wr # 0 THEN cur.wr ELSE A!PreservedInFlightWorkRequestID(st.async, cur)
           reason == A!ProjectAsyncCondition(cur.class, cur.phase).condition
           op == [cur EXCEPT !.wr = wr]
<1>1. wr = cur.wr
  BY DEF A!PreservedInFlightWorkRequestID
<1>2. op = cur
  BY <1>1 DEF Trackers
<1>3. A!ApplyAsyncOperation(st, cur) = [st EXCEPT !.reason = reason, !.async = op]
  BY DEF A!ApplyAsyncOperation
<1> HIDE DEF op, reason
<1>4. A!ApplyAsyncOperation(st, cur).ocid = st.ocid /\ A!ApplyAsyncOperation(st, cur).async = op
  BY <1>3 DEF Statuses
<1> QED
  BY <1>2, <1>4, ApplyType

LEMMA NamedStatus ==
    ASSUME NEW st \in Statuses, NEW i \in OCIDs
    PROVE  /\ [st EXCEPT !.ocid = i] \in Statuses
           /\ [st EXCEPT !.ocid = i].ocid = i /\ [st EXCEPT !.ocid = i].async = st.async
  BY StatusType DEF Statuses

\* The status after the answer of Create, and after a read that finds nothing.
LEMMA CreatedStatus ==
    ASSUME NEW st \in Statuses, NEW w \in WorkRequestIDs \cup {0}, NEW i \in OCIDs
    PROVE  /\ Unnamed(st) =>
                /\ Seed(st, "create", w) \in Statuses
                /\ Seed(st, "create", w).async
                     = IF w = 0 THEN NoTracker ELSE PendingOperation("create", w)
           /\ st.async = NoTracker =>
                /\ ApplySuccess(st, i, "CREATING", "Provisioning") \in Statuses
                /\ ApplySuccess(st, i, "CREATING", "Provisioning").ocid = i
                /\ ApplySuccess(st, i, "CREATING", "Provisioning").async = TrackerOf(0)
<1>1. ASSUME Unnamed(st)
      PROVE  /\ Seed(st, "create", w) \in Statuses
             /\ Seed(st, "create", w).async
                  = IF w = 0 THEN NoTracker ELSE PendingOperation("create", w)
  <2>1. PendingOperation("create", w) \in Trackers /\ PendingOperation("create", w).wr = w
    BY TrackerFacts
  <2>2. CASE w = 0
    BY <1>1, <2>2 DEF Seed, Unnamed
  <2>3. CASE w # 0
    BY <2>1, <2>3, ApplyFacts DEF Seed
  <2> QED
    BY <2>2, <2>3
<1>2. ASSUME st.async = NoTracker
      PROVE  /\ ApplySuccess(st, i, "CREATING", "Provisioning") \in Statuses
             /\ ApplySuccess(st, i, "CREATING", "Provisioning").ocid = i
             /\ ApplySuccess(st, i, "CREATING", "Provisioning").async = TrackerOf(0)
  <2> DEFINE seen == [st EXCEPT !.ocid = i]
  <2>1. seen \in Statuses /\ seen.ocid = i /\ seen.async.wr = 0
    BY <1>2, NamedStatus, NoTrackerFacts
  <2>2. ApplySuccess(st, i, "CREATING", "Provisioning")
          = A!ApplyAsyncOperation(seen, LifecycleOperation("create", "pending"))
    BY DEF ApplySuccess
  <2>3. TrackerOf(0) = LifecycleOperation("create", "pending") /\ TrackerOf(0) \in Trackers
    BY TrackerFacts DEF TrackerOf
  <2> HIDE DEF seen
  <2> QED
    BY <2>1, <2>2, <2>3, ApplyFacts
<1> QED
  BY <1>1, <1>2

\* The work request of a create that nothing has disturbed.
LEMMA CreatePolled ==
    ASSUME WrsType, WorkRequestsOnce, troubles = 0, troubles' = 0, NEW st \in Statuses,
           NEW i \in OCIDs, <<i, st.async.wr>> \in Creates, st.async.wr # 0,
           st.async.phase = "create"
    PROVE  /\ ~PollFails(st) /\ ~PollGives404(st) /\ ~PollShows(st, "failed")
           /\ ~PollShows(st, "succeeded")
           /\ MarkObservedWorkRequest(st, Observed(st.async.wr)) \in Statuses
           /\ MarkObservedWorkRequest(st, Observed(st.async.wr)).ocid = st.ocid
           /\ MarkObservedWorkRequest(st, Observed(st.async.wr)).async
                = PendingOperation("create", st.async.wr)
<1> DEFINE w == st.async.wr
<1>1. w \in WorkRequestIDs
  BY StatusType
<1>2. wrs[w].op = "create" /\ wrs[w].res = i /\ i \in Hidden
  BY DEF Creates, CreateWorkRequest
<1>3. wrs[w].status = "IN_PROGRESS"
  BY <1>1, <1>2 DEF WorkRequestsOnce
<1>4. ~Trouble /\ ~PhaseConflicts(st)
  BY <1>2 DEF Trouble, PhaseConflicts, WorkRequestPhase
<1>5. PendingOperation("create", w) \in Trackers /\ PendingOperation("create", w).wr = w
  BY <1>1, TrackerFacts
<1>6. Observed(w) = PendingOperation("create", w) /\ Observed(w).class = "pending"
  BY <1>1, <1>2, <1>3 DEF Observed, PendingOperation, WorkRequestPhase, A!Normalize
<1>7. [Observed(w) EXCEPT !.class = "pending"] = PendingOperation("create", w)
  BY <1>5, <1>6 DEF Trackers
<1>8. MarkObservedWorkRequest(st, Observed(w))
        = A!ApplyAsyncOperation(st, PendingOperation("create", w))
  BY <1>7 DEF MarkObservedWorkRequest
<1>9. ~PollFails(st) /\ ~PollGives404(st)
  BY <1>3, <1>4 DEF PollFails, PollGives404
<1>10. ~PollShows(st, "failed") /\ ~PollShows(st, "succeeded")
  BY <1>6 DEF PollShows
<1> QED
  BY <1>5, <1>8, <1>9, <1>10, ApplyFacts

\* The operation that Delete names.
LEMMA WithoutReadback ==
    ASSUME NEW st \in GuardStatuses, st.async.wr = 0
    PROVE  /\ MarkWithoutReadback(st) \in Statuses /\ MarkWithoutReadback(st).ocid = st.ocid
           /\ MarkWithoutReadback(st).async = PendingOperation("create", 0)
<1>1. /\ st \in Statuses /\ st.async.phase = "create" /\ st.async.op \in {"", "create"}
      /\ st.async.class = "pending" /\ st.async \in Trackers
  BY NamedFacts, StatusType DEF GuardStatuses
<1>2. st.async \in {TrackerOf(0), PendingOperation("create", 0)}
  BY DEF GuardStatuses, Guarded
<1>3. /\ PendingOperation("create", 0) \in Trackers /\ PendingOperation("create", 0).wr = 0
      /\ PendingOperation("create", 0).phase = "create"
      /\ PendingOperation("create", 0).class = "pending"
      /\ PendingOperation("create", 0).op = "create"
      /\ TrackerOf(0).source = PendingOperation("create", 0).source
  BY TrackerFacts
<1>4. st.async.source = PendingOperation("create", 0).source
  BY <1>2, <1>3
<1> DEFINE named == [st.async EXCEPT !.op = IF @ = "" THEN st.async.phase ELSE @]
           cur == [named EXCEPT !.class = "pending"]
<1>5. named = [st.async EXCEPT !.op = "create"]
  BY <1>1
<1>6. cur = [st.async EXCEPT !.op = "create", !.class = "pending"]
  BY <1>1, <1>5 DEF Trackers
<1>7. /\ cur \in Trackers /\ cur.source = st.async.source /\ cur.phase = "create"
      /\ cur.op = "create" /\ cur.wr = 0 /\ cur.class = "pending"
  BY <1>1, <1>6 DEF Trackers, Operations, A!Classes
<1>8. MarkWithoutReadback(st) = A!ApplyAsyncOperation(st, cur)
  BY DEF MarkWithoutReadback, MarkObservedWorkRequest
<1> HIDE DEF cur
<1>9. cur = PendingOperation("create", 0)
  BY <1>3, <1>4, <1>7, SameLeaves
<1> QED
  BY <1>1, <1>3, <1>8, <1>9, ApplyFacts

LEMMA YoungCallStep ==
    ASSUME MaxUid = 1, AInv, AInv', RP!UidBounded, ResourcesOnce, WorkRequestsOnce, DeleteOfTracked,
           troubles = 0, troubles' = 0, Young, Young', Creates \subseteq Creates',
           \A i, w : ServiceCreates(i, w) /\ w \in WorkRequestIDs \cup {0} => <<i, w>> \in Creates',
           YoungHeld, YoungCall, Manager
    PROVE  YoungHeld' /\ YoungCall'
<1> DEFINE Goal == YoungHeld' /\ YoungCall'
<1> SUFFICES Goal
  OBVIOUS
<1>a. RP!IInv /\ CallOK /\ SpecOK /\ ResType /\ WrsType
  BY DEF AInv, StateOK
<1>t. ~Trouble
  BY DEF Trouble
<1>b. \A i \in OCIDs : ~Readable(i)
  BY DEF Young, Hidden, ResourcesOnce, Readable, LifecycleStates
<1>c. /\ call.st \in Statuses /\ call.id \in OCIDs \cup {0} /\ call.wr \in WorkRequestIDs \cup {0}
      /\ call.st.async.wr \in WorkRequestIDs \cup {0}
      /\ call.step \in PollSteps => call.st.async.wr \in WorkRequestIDs
      /\ obj.st \in Statuses /\ old \in Statuses /\ obj \in R!Version
      /\ EmptyStatus \in Statuses /\ 0 \notin WorkRequestIDs /\ 0 \notin OCIDs
  BY <1>a, CallFacts, ReconcilerFacts, MergeIsStatus, WaaAssumption
<1>g. /\ CreateStatuses \subseteq CreateStatuses' /\ DeleteStatuses \subseteq DeleteStatuses'
      /\ GuardStatuses \subseteq GuardStatuses'
  BY KindsGrow
<1>k. \A c \in Creates : c[1] \in OCIDs
  BY DEF Creates
<1>w. ASSUME NEW w \in WorkRequestIDs \cup {0}, NEW x, x = PendingOperation("create", w)
      PROVE  x.wr = w /\ x.phase = "create"
  BY <1>w, TrackerFacts

\* CreateOrUpdate returns.
<1>r. ASSUME NEW st, Returns(st), st \in CreateStatuses' PROVE Goal
  <2>1. /\ pc = "createOrUpdate" /\ pc' = "patchStatus" /\ obj'.st = st /\ old' = old
        /\ call' = NoCall
    BY <1>c, <1>r DEF Returns, R!CreateOrUpdateReturns, R!Version
  <2>2. old' \in CreateStatuses'
    BY <1>g, <2>1 DEF YoungHeld
  <2>3. call'.step = "none"
    BY <2>1 DEF NoCall
  <2> QED
    BY <1>r, <2>1, <2>2, <2>3 DEF YoungHeld, YoungCall

\* Delete returns.
<1>d. ASSUME NEW st, NEW out, DeleteReturns(st, out),
             \/ R!DeleteResourceResult(out) = "deleted"
             \/ st \in GuardStatuses' /\ obj.st \in GuardStatuses
      PROVE  Goal
  <2>1. /\ pc = "delete" /\ call' = NoCall /\ pc' \in {"removeFinalizer", "patchDeleteStatus", "idle"}
        /\ pc' = "patchDeleteStatus" =>
             obj'.st = st /\ old' = old /\ R!DeleteResourceResult(out) # "deleted"
    BY <1>c, <1>d DEF DeleteReturns, R!DeleteReturns, R!Version, R!Finish
  <2>2. old = obj.st
    BY <2>1 DEF YoungHeld
  <2>3. call'.step = "none"
    BY <2>1 DEF NoCall
  <2>4. YoungHeld'
    BY <1>d, <1>g, <2>1, <2>2 DEF YoungHeld
  <2> QED
    BY <2>3, <2>4 DEF YoungCall

\* The call goes on.
<1>n. ASSUME NEW step, NEW st, NEW i, NEW w, Continue(step, st, i, w)
      PROVE  /\ YoungHeld' /\ call'.step = step /\ call'.st = st /\ call'.id = i /\ call'.wr = w
             /\ obj' = obj
  <2>1. UNCHANGED <<pc, obj, old>>
    BY <1>n DEF Continue, reconcilerVars
  <2>2. YoungHeld'
    BY <1>g, <2>1 DEF YoungHeld
  <2> QED
    BY <1>n, <2>1, <2>2 DEF Continue
<1>f. ASSUME NEW st \in Statuses, Unnamed(st) PROVE Failure(st) \in CreateStatuses'
  <2>1. Failure(st) \in Statuses /\ Failure(st).ocid = 0 /\ Failure(st).async = NoTracker
    BY <1>f, StatusType DEF Failure, Unnamed, Statuses
  <2> QED
    BY <2>1, Kinds
<1> HIDE DEF Goal
<1>1. CASE ReadCurrent
  <2>1. obj.st.ocid \in OCIDs
    BY <1>1, <1>c, StatusType DEF ReadCurrent
  <2>2. Continue("list", EmptyStatus, 0, 0)
    BY <1>1, <1>b, <1>t, <2>1 DEF ReadCurrent, Found
  <2>3. Unnamed(EmptyStatus)
    BY DEF Unnamed, EmptyStatus
  <2> QED
    BY <1>n, <2>2, <2>3 DEF Goal, YoungCall, Unnamed
<1>2. CASE FindExisting
  <2> DEFINE st == IF At("list") THEN call.st ELSE obj.st
             matches == {i \in OCIDs : Found(i) /\ res[i].spec = Desired}
  <2>1. matches = {}
    BY <1>b DEF Found
  <2>2. st \in Statuses /\ Unnamed(st)
    <3>1. CASE At("list")
      BY <1>c, <3>1 DEF YoungCall, At
    <3>2. CASE ~At("list") /\ pc = "createOrUpdate" /\ obj.st.ocid = 0
      <4>1. CreateKind(obj.st)
        BY <3>2 DEF YoungHeld, CreateStatuses
      <4> QED
        BY <1>c, <3>2, <4>1, NamedFacts DEF CreateKind
    <3> QED
      BY <1>2, <3>1, <3>2 DEF FindExisting
  <2>3. Returns(Failure(st)) \/ Continue("create", st, 0, 0)
    BY <1>2, <2>1 DEF FindExisting
  <2> HIDE DEF st, matches
  <2>4. CASE Returns(Failure(st))
    BY <1>f, <1>r, <2>2, <2>4
  <2>5. CASE Continue("create", st, 0, 0)
    BY <1>n, <2>2, <2>5 DEF Goal, YoungCall, Unnamed
  <2> QED
    BY <2>3, <2>4, <2>5
<1>3. CASE Create
  <2>1. Unnamed(call.st) /\ pc = "createOrUpdate"
    BY <1>3, <1>a, CallFacts DEF Create, At, YoungCall, CreateSteps
  <2>2. obj.uid = 1
    BY <1>a, <2>1, OneIncarnation
  <2>3. CASE Returns(Failure(call.st))
    BY <1>c, <1>f, <1>r, <2>1, <2>3
  <2>4. CASE ~Returns(Failure(call.st))
    <3>1. PICK i \in OCIDs, w \in WorkRequestIDs \cup {0} :
            /\ CreateAccepted(1, 1, obj.gen, i, w)
            /\ Continue("readCreated", Seed(call.st, "create", w), i, w)
      BY <1>3, <2>2, <2>4 DEF Create, RetryToken
    <3>2. <<i, w>> \in Creates'
      <4>1. CASE ServiceCreates(i, w)
        BY <4>1
      <4>2. CASE CreateWorkRequest(i, w) /\ res[i].own # 0
        <5>1. <<i, w>> \in Creates
          BY <4>2 DEF Creates, Young
        <5> QED
          BY <5>1
      <4> QED
        BY <1>a, <2>1, <3>1, <4>1, <4>2, CreateService
    <3>3. Seed(call.st, "create", w).async
            = IF w = 0 THEN NoTracker ELSE PendingOperation("create", w)
      BY <1>c, <2>1, CreatedStatus
    <3> QED
      BY <1>n, <3>1, <3>2, <3>3 DEF Goal, YoungCall
  <2> QED
    BY <2>3, <2>4
<1>4. CASE ReadAfterCreate
  <2>1. /\ <<call.id, call.wr>> \in Creates /\ call.id \in OCIDs
        /\ call.st.async = IF call.wr = 0 THEN NoTracker ELSE PendingOperation("create", call.wr)
    BY <1>4, <1>k DEF ReadAfterCreate, At, YoungCall, Creates
  <2>2. ~Readable(call.id)
    BY <1>b, <2>1
  <2>3. IF call.wr # 0 THEN HandlePendingWrite(call.st, call.id, call.st.async)
        ELSE Returns(ApplySuccess(call.st, call.id, "CREATING", "Provisioning"))
    BY <1>4, <1>t, <2>2 DEF ReadAfterCreate
  <2>4. CASE call.wr # 0
    <3>1. call.st.async = PendingOperation("create", call.wr) /\ call.st.async.wr = call.wr
      BY <1>c, <1>w, <2>1, <2>4
    <3>2. Continue("poll", call.st, call.id, 0)
      BY <2>3, <2>4, <3>1 DEF HandlePendingWrite
    <3> QED
      BY <1>n, <2>1, <3>1, <3>2 DEF Goal, YoungCall
  <2>5. CASE call.wr = 0
    <3> DEFINE new == ApplySuccess(call.st, call.id, "CREATING", "Provisioning")
    <3>1. new \in Statuses /\ new.ocid = call.id /\ new.async = TrackerOf(0)
      BY <1>c, <2>1, <2>5, CreatedStatus
    <3> HIDE DEF new
    <3>2. new.async.wr = 0
      BY <3>1, TrackerFacts
    <3>3. new \in CreateStatuses'
      BY <2>1, <2>5, <3>1, <3>2, Kinds
    <3> QED
      BY <1>r, <2>3, <2>5, <3>3 DEF new
  <2> QED
    BY <2>4, <2>5
<1>5. CASE PollPendingWorkRequest
  <2> DEFINE st == [call.st EXCEPT !.ocid = call.id]
             w == call.st.async.wr
  <2>1. /\ <<call.id, w>> \in Creates /\ call.id \in OCIDs /\ w \in WorkRequestIDs
        /\ call.st.async = PendingOperation("create", w)
    BY <1>5, <1>c, <1>k DEF PollPendingWorkRequest, At, YoungCall, PollSteps, Creates
  <2>2. call.st.async.phase = "create" /\ w # 0
    BY <1>c, <1>w, <2>1
  <2>3. /\ ~PollFails(call.st) /\ ~PollGives404(call.st) /\ ~PollShows(call.st, "failed")
    BY <1>a, <1>c, <2>1, <2>2, CreatePolled
  <2>4. st \in Statuses /\ st.ocid = call.id /\ st.async = call.st.async
    BY <1>c, <2>1, NamedStatus
  <2> DEFINE new == MarkObservedWorkRequest(st, Observed(w))
  <2>5. Returns(new)
    BY <1>5, <2>3 DEF PollPendingWorkRequest
  <2> HIDE DEF st
  <2>6. new \in Statuses /\ new.ocid = call.id /\ new.async = PendingOperation("create", w)
    <3>1. <<call.id, st.async.wr>> \in Creates /\ st.async.wr # 0 /\ st.async.phase = "create"
          /\ st.async.wr = w
      BY <2>1, <2>2, <2>4
    <3> QED
      BY <1>a, <2>1, <2>4, <3>1, CreatePolled
  <2> HIDE DEF new
  <2>7. new.async.wr = w /\ new.async = TrackerOf(w)
    BY <2>1, <2>2, <2>6, TrackerFacts
  <2>8. new \in CreateStatuses'
    BY <2>1, <2>6, <2>7, Kinds
  <2> QED
    BY <1>r, <2>5, <2>8
<1>6. CASE Delete
  <2>1. pc = "delete" /\ DeleteKind(obj.st)
    BY <1>6 DEF Delete, YoungHeld, DeleteStatuses
  <2>2. CASE obj.st.ocid = 0 /\ obj.st.async.phase = ""
    <3>1. ~PendingWriteBeforeDelete(obj.st)
      BY <2>2 DEF PendingWriteBeforeDelete, IsPending
    <3>2. DeleteReturns(Confirmed(obj.st), "deleted")
      BY <1>6, <2>2, <3>1 DEF Delete, DeleteUnguarded
    <3>3. R!DeleteResourceResult("deleted") = "deleted"
      BY DEF R!DeleteResourceResult
    <3> QED
      BY <1>d, <3>2, <3>3
  <2>3. CASE Guarded(obj.st)
    <3>1. PendingWriteBeforeDelete(obj.st)
      BY <1>c, <2>3, NamedFacts DEF PendingWriteBeforeDelete, IsPending
    <3>2. PICK step \in {"guardPoll", "guardLifecycle"} : Continue(step, obj.st, obj.st.ocid, 0)
      BY <1>6, <3>1 DEF Delete
    <3>3. obj.st \in GuardStatuses'
      BY <1>c, <1>g, <2>3 DEF GuardStatuses
    <3> QED
      BY <1>n, <3>2, <3>3 DEF Goal, YoungCall
  <2> QED
    BY <2>1, <2>2, <2>3 DEF DeleteKind

\* What the guard returns.
<1>p. ASSUME NEW new \in Statuses, obj.st \in GuardStatuses, new.ocid = obj.st.ocid,
             new.async = PendingOperation("create", obj.st.async.wr), NEW out, DeleteReturns(new, out)
      PROVE  Goal
  <2>1. new.async.wr = obj.st.async.wr
    <3>1. obj.st.async.wr \in WorkRequestIDs \cup {0}
      BY <1>c, StatusType
    <3> QED
      BY <1>p, <1>w, <3>1
  <2>2. <<obj.st.ocid, obj.st.async.wr>> \in Creates
    BY <1>p DEF GuardStatuses, Guarded, TracksCreate
  <2>3. new \in GuardStatuses'
    BY <1>p, <2>1, <2>2, Kinds
  <2> QED
    BY <1>d, <1>p, <2>3
<1>7. CASE GuardPoll
  <2>1. call.st = obj.st /\ obj.st \in GuardStatuses /\ call.st.async.wr \in WorkRequestIDs
    BY <1>7, <1>c DEF GuardPoll, At, YoungCall, DeleteOfTracked, PollSteps
  <2>2. /\ <<call.st.ocid, call.st.async.wr>> \in Creates /\ call.st.async.phase = "create"
        /\ call.st.ocid \in OCIDs /\ call.st.async.wr # 0
    BY <1>c, <1>k, <2>1, NamedFacts DEF GuardStatuses, Guarded, TracksCreate, Hidden
  <2> DEFINE new == MarkObservedWorkRequest(call.st, Observed(call.st.async.wr))
  <2>3. /\ ~PollFails(call.st) /\ ~PollGives404(call.st) /\ ~PollShows(call.st, "failed")
        /\ ~PollShows(call.st, "succeeded")
        /\ new \in Statuses /\ new.ocid = call.st.ocid
        /\ new.async = PendingOperation("create", call.st.async.wr)
    BY <1>a, <1>c, <2>2, CreatePolled
  <2>4. DeleteReturns(new, "pending")
    BY <1>7, <2>3 DEF GuardPoll, PollEndsDelete
  <2> HIDE DEF new
  <2> QED
    BY <1>p, <2>1, <2>3, <2>4
<1>8. CASE GuardLifecycle
  <2>1. /\ call.st = obj.st /\ obj.st \in GuardStatuses /\ call.id = obj.st.ocid
        /\ call.st.async.wr = 0
    BY <1>8 DEF GuardLifecycle, At, YoungCall, DeleteOfTracked, DeleteSteps
  <2>2. call.id \in OCIDs
    BY <1>c, <2>1, NamedFacts DEF GuardStatuses, Hidden
  <2> DEFINE new == MarkWithoutReadback(call.st)
  <2>3. DeleteReturns(new, "pending")
    BY <1>8, <1>b, <1>t, <2>2 DEF GuardLifecycle
  <2>4. new \in Statuses /\ new.ocid = call.st.ocid /\ new.async = PendingOperation("create", 0)
    BY <2>1, WithoutReadback
  <2> HIDE DEF new
  <2> QED
    BY <1>p, <2>1, <2>3, <2>4
<1>9. CASE \/ MoveCompartment \/ ReadAfterMove \/ Update \/ ReadAfterUpdate \/ GuardSucceeded
           \/ PreRead \/ RequestDelete \/ ConfirmDeleted \/ PollDelete \/ ConfirmSucceeded
  BY <1>9 DEF MoveCompartment, ReadAfterMove, Update, ReadAfterUpdate, GuardSucceeded, PreRead,
              RequestDelete, ConfirmDeleted, PollDelete, ConfirmSucceeded, At, YoungCall
<1> QED
  BY <1>1, <1>2, <1>3, <1>4, <1>5, <1>6, <1>7, <1>8, <1>9 DEF Manager, CreateOrUpdate, DeleteStep

LEMMA YoungHeldStep ==
    ASSUME AInv, EndsInLog, [Next]_vars, ~Manager, Creates \subseteq Creates', YoungLog, YoungHeld
    PROVE  YoungHeld'
<1>a. RP!IInv /\ CallOK /\ SpecOK
  BY DEF AInv
<1>g. /\ CreateStatuses \subseteq CreateStatuses' /\ DeleteStatuses \subseteq DeleteStatuses'
      /\ GuardStatuses \subseteq GuardStatuses'
  BY KindsGrow
<1>l. Api = log[Len(log)] /\ Len(log) \in 1 .. Len(log) /\ 1 \in 1 .. Len(log)
  BY <1>a, LogFacts
<1>1. CASE pc' \notin {"createOrUpdate", "patchStatus", "delete", "patchDeleteStatus"}
  BY <1>1 DEF YoungHeld
<1>2. CASE UNCHANGED <<pc, obj, old>>
  BY <1>2, <1>g DEF YoungHeld
<1>3. CASE /\ pc' \in {"createOrUpdate", "delete"} /\ log[1].ex
           /\ pc' = "createOrUpdate" => ~log[1].del
           /\ obj' = log[1] /\ old' = log[1].st
  <2>1. log[1].st \in DeleteStatuses' /\ (pc' = "createOrUpdate" => log[1].st \in CreateStatuses')
    BY <1>3, <1>g, <1>l DEF YoungLog, Ending
  <2> QED
    BY <1>3, <2>1 DEF YoungHeld
<1>4. CASE pc' = "createOrUpdate" /\ Api.ex /\ ~Api.del /\ obj'.st = Api.st /\ old' = Api.st
  <2>1. ~Ending(log[1])
    BY <1>4, <1>l DEF EndsInLog, Ending
  <2>2. Api.st \in CreateStatuses'
    BY <1>g, <1>l, <2>1 DEF YoungLog
  <2> QED
    BY <1>4, <2>2 DEF YoungHeld
<1> QED
  BY <1>1, <1>2, <1>3, <1>4, <1>a, HeldStep

LEMMA YoungInductive ==
    ASSUME MaxUid = 1, AInv, AInv', RP!UidBounded, EndsInLog, ResourcesOnce, WorkRequestsOnce,
           DeleteOfTracked, YoungInv, [Next]_vars
    PROVE  YoungInv'
<1> SUFFICES ASSUME troubles' = 0, Young' PROVE YoungLog' /\ YoungHeld' /\ YoungCall'
  BY DEF YoungInv
<1>t. troubles = 0
  BY TroublesGrow, WaaAssumption DEF AInv, StateOK
<1>c. /\ Young /\ Creates \subseteq Creates'
      /\ \A i, w : ServiceCreates(i, w) /\ w \in WorkRequestIDs \cup {0} => <<i, w>> \in Creates'
  BY CreatesKept
<1>y. YoungLog /\ YoungHeld /\ YoungCall
  BY <1>c, <1>t DEF YoungInv
<1>1. YoungLog'
  BY <1>c, <1>y, YoungLogStep
<1>2. CASE Manager
  BY <1>1, <1>2, <1>c, <1>t, <1>y, YoungCallStep
<1>3. CASE ~Manager
  <2>1. YoungHeld'
    BY <1>3, <1>c, <1>y, YoungHeldStep
  <2>2. CASE call' = NoCall \/ (UNCHANGED call /\ call.step = "none")
    BY <1>1, <2>1, <2>2 DEF YoungCall, NoCall
  <2>3. CASE UNCHANGED <<call, obj>>
    BY <1>1, <1>c, <1>y, <2>1, <2>3, KindsGrow DEF YoungCall, Unnamed
  <2>4. CASE Kubernetes
    <3>1. UNCHANGED call
      BY <2>4 DEF Kubernetes
    <3>2. CASE call.step # "none"
      <4>1. pc \in {"createOrUpdate", "delete"}
        BY <1>y, <3>2, CallFacts DEF AInv, YoungCall, CreateSteps, DeleteSteps
      <4> QED
        BY <2>3, <2>4, <4>1, KubernetesKeepsHeld
    <3> QED
      BY <2>2, <3>1, <3>2
  <2>5. CASE Restart
    BY <2>2, <2>5 DEF Restart
  <2>6. CASE (Oci /\ UNCHANGED otherVars) \/ UNCHANGED vars
    BY <2>3, <2>6 DEF otherVars, vars, reconcilerVars
  <2> QED
    BY <1>1, <1>3, <2>1, <2>4, <2>5, <2>6 DEF Next
<1> QED
  BY <1>2, <1>3

-----------------------------------------------------------------------------
(* The invariant, and what a confirmed deletion means. *)

CInv ==
    /\ AInv /\ RP!UidBounded /\ EndsInLog /\ ResourcesOnce /\ WorkRequestsOnce
    /\ DeleteOfTracked /\ YoungInv

LEMMA InitCInv == MaxUid = 1 /\ Init => CInv
<1> SUFFICES ASSUME MaxUid = 1, Init PROVE CInv
  OBVIOUS
<1>1. AInv /\ RP!UidBounded
  BY InitAInv, SameInit, RP!InitBounded, StatusFits, BoundsFit DEF Init
<1>2. /\ Len(log) = 1 /\ log[1].uid = 0 /\ ~log[1].ex /\ log[1].st = EmptyStatus
      /\ pc = "idle" /\ call = NoCall
  BY DEF Init, R!Init, R!Gone
<1>3. EndsInLog
  BY <1>2 DEF EndsInLog, Ending
<1>4. \A i \in OCIDs : res[i].own = 0 /\ res[i].state = "NONE"
  BY DEF Init
<1>5. \A w \in WorkRequestIDs : wrs[w].op = "" /\ wrs[w].status = ""
  BY DEF Init
<1>6. ResourcesOnce /\ WorkRequestsOnce
  BY <1>4, <1>5 DEF ResourcesOnce, WorkRequestsOnce, Hidden
<1>7. call.step = "none"
  BY <1>2 DEF NoCall
<1>8. DeleteOfTracked
  BY <1>7 DEF DeleteOfTracked, DeleteSteps
<1>9. YoungLog
  <2>1. EmptyStatus \in Statuses /\ EmptyStatus.ocid = 0 /\ EmptyStatus.async = NoTracker
    BY MergeIsStatus DEF EmptyStatus
  <2>2. EmptyStatus \in CreateStatuses
    BY <2>1, Kinds
  <2>3. EmptyStatus \in DeleteStatuses
    BY <2>1, NoTrackerFacts DEF DeleteStatuses, DeleteKind
  <2>4. \A k \in 1 .. Len(log) : log[k].st = EmptyStatus
    BY <1>2
  <2> QED
    BY <2>2, <2>3, <2>4 DEF YoungLog
<1>10. YoungHeld /\ YoungCall
  BY <1>2, <1>7 DEF YoungHeld, YoungCall
<1> QED
  BY <1>1, <1>3, <1>6, <1>8, <1>9, <1>10 DEF CInv, YoungInv

LEMMA CInvInductive == MaxUid = 1 /\ CInv /\ [Next]_vars => CInv'
<1> SUFFICES ASSUME MaxUid = 1, CInv, [Next]_vars PROVE CInv'
  OBVIOUS
<1>1. AInv'
  BY AInvInductive DEF CInv
<1>2. RP!UidBounded'
  <2>1. RP!IInv /\ [RP!Next]_(RP!vars)
    BY StepRefines, NamedStep, SameReconcilerVars, SameNext, SameVars DEF CInv, AInv, StateOK
  <2> QED
    BY <2>1, StatusFits, BoundsFit, RP!BoundedInductive DEF CInv
<1>3. EndsInLog' /\ ResourcesOnce' /\ WorkRequestsOnce'
  BY <1>1, EndsInductive, ResourcesInductive, WorkRequestsInductive DEF CInv, AInv, StateOK
<1>4. DeleteOfTracked'
  BY TrackedInductive DEF CInv, AInv, StateOK
<1>5. YoungInv'
  BY <1>1, YoungInductive DEF CInv
<1> QED
  BY <1>1, <1>2, <1>3, <1>4, <1>5 DEF CInv

\* A resource that is not gone but cannot be read is one that was just accepted.
LEMMA UnreadMeansAccepted ==
    ASSUME ResType, NEW i \in OCIDs, ~Readable(i) \/ res[i].state = "DELETED"
    PROVE  ~Remaining(i) \/ res[i].state = "ACCEPTED"
<1>1. res[i].state \in LifecycleStates \cup {"NONE", "ACCEPTED"}
  BY DEF ResType
<1> QED
  BY <1>1 DEF Readable, Remaining, LifecycleStates

\* Which results of Delete count as a deletion.
LEMMA CountsAsDeleted ==
    /\ \A out \in {"error", "pending", "409 IncorrectState"} :
          R!DeleteResourceResult(out) # "deleted"
    /\ \A st : DeleteReturns(st, "error") \/ DeleteReturns(st, "pending")
                 \/ DeleteReturns(st, "409 IncorrectState") => UNCHANGED confirmed
<1>1. \A out \in {"error", "pending", "409 IncorrectState"} : R!DeleteResourceResult(out) # "deleted"
  BY DEF R!DeleteResourceResult
<1> QED
  BY <1>1 DEF DeleteReturns, R!DeleteReturns

\* The steps that confirm the deletion of a resource.
LEMMA ConfirmingStep ==
    ASSUME CallOK, WrsType, ResType, DeleteOfTracked, DeleteStep, confirmed' # confirmed,
           obj.st \in Statuses, obj.st.ocid # 0, \A w \in WorkRequestIDs : wrs[w].status # "GONE"
    PROVE  /\ obj.st.ocid \in OCIDs
           /\ call.step \in {"preRead", "delete", "confirm", "confirmSucceeded"}
           /\ ~Remaining(obj.st.ocid) \/ res[obj.st.ocid].state = "ACCEPTED"
<1> DEFINE i == obj.st.ocid
           Goal == /\ call.step \in {"preRead", "delete", "confirm", "confirmSucceeded"}
                   /\ ~Remaining(i) \/ res[i].state = "ACCEPTED"
<1>i. i \in OCIDs
  BY StatusType
<1> SUFFICES Goal
  BY <1>i
<1>c. /\ call.step \in DeleteSteps => call.id = i /\ call.st.ocid = i
      /\ call.step \in PollSteps => call.st.async.wr \in WorkRequestIDs
      /\ call.st \in Statuses
  BY CallFacts DEF DeleteOfTracked
<1>n. \A step, st, w, k : ~Continue(step, st, k, w)
  BY DEF Continue, reconcilerVars
<1>e. \A st : /\ ~DeleteReturns(st, "error") /\ ~DeleteReturns(st, "pending")
              /\ ~DeleteReturns(st, "409 IncorrectState")
  BY CountsAsDeleted
<1>u. ASSUME NEW st, st.ocid = i PROVE ~DeleteUnguarded(st)
  BY <1>u, <1>n DEF DeleteUnguarded
<1>x. ClearAsyncOperation(call.st).ocid = call.st.ocid
  BY <1>c DEF ClearAsyncOperation, Statuses
<1>p. ASSUME call.step \in PollSteps PROVE ~PollEndsDelete(call.st)
  BY <1>p, <1>c, <1>e DEF PollEndsDelete, PollGives404
<1>g. ASSUME NEW st, NEW settled, settled.ocid = i, NEW k PROVE ~GuardReadback(st, k, settled)
  BY <1>g, <1>e, <1>u DEF GuardReadback
<1>r. ~Readable(i) \/ res[i].state = "DELETED" => ~Remaining(i) \/ res[i].state = "ACCEPTED"
  BY <1>i, UnreadMeansAccepted
<1> HIDE DEF i
<1>1. CASE Delete
  <2>1. obj.st.ocid = i
    BY DEF i
  <2> QED
    BY <1>1, <1>n, <1>u, <2>1 DEF Delete
<1>2. CASE GuardPoll
  <2>1. call.id = i /\ call.st.ocid = i /\ call.step \in PollSteps
    BY <1>2, <1>c DEF GuardPoll, At, DeleteSteps, PollSteps
  <2> QED
    BY <1>2, <1>n, <1>p, <1>u, <1>x, <2>1 DEF GuardPoll
<1>3. CASE GuardLifecycle
  <2>1. call.st.ocid = i
    BY <1>3, <1>c DEF GuardLifecycle, At, DeleteSteps
  <2> QED
    BY <1>3, <1>e, <1>g, <2>1 DEF GuardLifecycle
<1>4. CASE GuardSucceeded
  <2>1. call.st.ocid = i
    BY <1>4, <1>c DEF GuardSucceeded, At, DeleteSteps
  <2> QED
    BY <1>4, <1>e, <1>g, <1>u, <1>x, <2>1 DEF GuardSucceeded
<1>5. CASE PreRead
  <2>1. call.step = "preRead" /\ call.id = i
    BY <1>5, <1>c DEF PreRead, At, DeleteSteps
  <2>2. ~Readable(i) \/ res[i].state = "DELETED"
    BY <1>5, <1>e, <1>n, <2>1 DEF PreRead, HandleDeleteReadState
  <2> QED
    BY <1>r, <2>1, <2>2
<1>6. CASE RequestDelete
  <2>1. call.step = "delete" /\ call.id = i
    BY <1>6, <1>c DEF RequestDelete, At, DeleteSteps
  <2>2. ~Remaining(i)
    BY <1>6, <1>e, <1>n, <2>1 DEF RequestDelete
  <2> QED
    BY <2>1, <2>2
<1>7. CASE ConfirmDeleted
  <2>1. call.step = "confirm" /\ call.id = i
    BY <1>7, <1>c DEF ConfirmDeleted, At, DeleteSteps
  <2>2. ~Readable(i) \/ res[i].state = "DELETED"
    BY <1>7, <1>e, <2>1 DEF ConfirmDeleted, HandleDeleteReadState
  <2> QED
    BY <1>r, <2>1, <2>2
<1>8. CASE PollDelete
  <2>1. call.step \in PollSteps
    BY <1>8 DEF PollDelete, At, PollSteps
  <2> QED
    BY <1>8, <1>n, <1>p, <2>1 DEF PollDelete
<1>9. CASE ConfirmSucceeded
  <2>1. call.step = "confirmSucceeded" /\ call.id = i
    BY <1>9, <1>c DEF ConfirmSucceeded, At, DeleteSteps
  <2>2. ~Readable(i) \/ res[i].state = "DELETED"
    BY <1>9, <1>e, <2>1 DEF ConfirmSucceeded
  <2> QED
    BY <1>r, <2>1, <2>2
<1> QED
  BY <1>1, <1>2, <1>3, <1>4, <1>5, <1>6, <1>7, <1>8, <1>9 DEF DeleteStep

LEMMA ConfirmedStep ==
    ASSUME MaxUid = 1, CInv, [Next]_vars, confirmed' # confirmed, obj.st.ocid # 0,
           \A w \in WorkRequestIDs : wrs[w].status # "GONE"
    PROVE  \/ ~Remaining(obj.st.ocid)
           \/ troubles > 0 /\ res[obj.st.ocid].state = "ACCEPTED"
<1>a. /\ RP!IInv /\ CallOK /\ WrsType /\ ResType /\ DeleteOfTracked /\ ResourcesOnce /\ YoungInv
      /\ troubles \in Nat /\ obj.st \in Statuses
  BY ReconcilerFacts, WaaAssumption DEF CInv, AInv, StateOK
<1>1. DeleteStep
  <2>1. CASE Kubernetes
    BY <2>1 DEF Kubernetes, Users, R!UserCreate, R!UserEditSpec, R!UserDelete, R!Deliver,
                R!TimerFires, R!Controller, R!Start, R!AddFinalizer, R!FinalizerUpdateFails,
                R!PatchStatus, R!PatchDeleteStatus, R!RemoveFinalizer, R!histVars,
                R!CallCreateOrUpdate
  <2>2. CASE Restart
    BY <2>2 DEF Restart, R!Restart, R!histVars
  <2>3. CASE (Oci /\ UNCHANGED otherVars) \/ UNCHANGED vars
    BY <2>3 DEF otherVars, vars, reconcilerVars
  <2>4. CASE CreateOrUpdate
    <3>1. CallStep /\ pc = "createOrUpdate"
      BY <1>a, <2>4, CreateStepOK, StepInCall
    <3> QED
      BY <3>1 DEF CallStep, R!CreateOrUpdateReturns, R!DeleteReturns, R!histVars, reconcilerVars
  <2> QED
    BY <2>1, <2>2, <2>3, <2>4 DEF Next, Manager
<1> DEFINE i == obj.st.ocid
<1>2. /\ i \in OCIDs /\ call.step \in {"preRead", "delete", "confirm", "confirmSucceeded"}
      /\ ~Remaining(i) \/ res[i].state = "ACCEPTED"
  BY <1>1, <1>a, ConfirmingStep
<1> HIDE DEF i
<1>3. ASSUME res[i].state = "ACCEPTED" PROVE troubles > 0
  <2>1. i \in Hidden
    BY <1>2, <1>3 DEF Hidden
  <2>2. Young
    <3>1. \A j \in OCIDs : res[j].own # 0 => j = i
      BY <1>2, <1>a, <2>1 DEF ResourcesOnce
    <3> QED
      BY <2>1, <3>1 DEF Young
  <2>3. ~YoungCall
    BY <1>2 DEF YoungCall
  <2>4. troubles # 0
    BY <1>a, <2>2, <2>3 DEF YoungInv
  <2> QED
    BY <1>a, <2>4
<1> QED
  BY <1>2, <1>3 DEF i

\* While an object is created once, a Delete that reports the resource of its
\* status gone is right, for any number of resources, work requests, edits,
\* restarts and undelivered events: neither an early success of a work request, a
\* lost answer nor a write that is not visible yet makes it say so too early.
\* What is left out is in ConfirmedMeansGone: a work request that OCI has forgotten,
\* and a create that is not readable yet once something has failed.  The second
\* incarnation may adopt what the first left behind, and is outside.
THEOREM ConfirmedAccelerationGone == MaxUid = 1 => (Spec => ConfirmedMeansGone)
<1> SUFFICES ASSUME MaxUid = 1 PROVE Spec => ConfirmedMeansGone
  OBVIOUS
<1>1. Init => CInv
  BY InitCInv
<1>2. CInv /\ [Next]_vars => CInv'
  BY CInvInductive
<1>3. CInv /\ [Next]_vars =>
        [/\ confirmed' # confirmed /\ obj.st.ocid # 0
         /\ \A w \in WorkRequestIDs : wrs[w].status # "GONE"
         => \/ ~Remaining(obj.st.ocid)
            \/ troubles > 0 /\ res[obj.st.ocid].state = "ACCEPTED"]_vars
  BY ConfirmedStep
<1> QED
  BY <1>1, <1>2, <1>3, PTL DEF Spec, ConfirmedMeansGone

-----------------------------------------------------------------------------
(* What Active means.  Generations only grow along the log, and the one that *)
(* CreateOrUpdate is called on is no newer than what is on its way.          *)

\* Generation n is no newer than any version of the object in the log.
AllLater(n) == \A k \in 1 .. Len(log) : log[k].ex => n <= log[k].gen

GensInLog ==
    /\ \A k, m \in 1 .. Len(log) :
          k <= m /\ log[k].ex /\ log[m].ex => log[k].gen <= log[m].gen
    /\ AllLater(tried.gen)
    /\ pc = "addFinalizer" => AllLater(obj.gen) /\ tried.gen <= obj.gen
    /\ Api.uid = 0 => tried.gen = 0 /\ pc # "addFinalizer"

\* The specs that CreateOrUpdate has seen stay as they are.
GensHeld ==
    /\ tried.gen <= Len(spec)
    /\ pc \in {"createOrUpdate", "patchStatus"} => obj.gen = tried.gen /\ tried.gen >= 1

LEMMA GenTypes ==
    ASSUME RP!IInv
    PROVE  /\ tried.gen \in Nat /\ obj.gen \in Nat
           /\ \A k \in 1 .. Len(log) : log[k].gen \in Nat /\ log[k].uid \in Nat
<1>1. R!TypeOK /\ log \in Seq(RP!Version) /\ obj.gen \in Nat
  BY LogFacts, ReconcilerFacts
<1>2. tried.gen \in Nat
  BY <1>1 DEF R!TypeOK
<1>3. ASSUME NEW k \in 1 .. Len(log) PROVE log[k].gen \in Nat /\ log[k].uid \in Nat
  <2>1. log[k] \in RP!Version
    BY <1>1, <1>3
  <2> QED
    BY <2>1 DEF RP!Version
<1> QED
  BY <1>1, <1>2, <1>3

LEMMA NextGenTypes ==
    ASSUME RP!IInv'
    PROVE  /\ Len(log') \in Nat /\ Len(log') >= 1 /\ tried'.gen \in Nat
           /\ \A k \in 1 .. Len(log') : log'[k].gen \in Nat
<1>1. RP!TypeOK'
  BY DEF RP!IInv
<1>2. /\ log' \in Seq(RP!Version) /\ Len(log') \in Nat /\ Len(log') >= 1
      /\ tried' \in [uid : Nat, gen : Nat]
  BY <1>1, ReconcilerBounds DEF RP!TypeOK
<1>3. ASSUME NEW k \in 1 .. Len(log') PROVE log'[k].gen \in Nat
  <2>1. log'[k] \in RP!Version
    BY <1>2, <1>3
  <2> QED
    BY <2>1 DEF RP!Version
<1> QED
  BY <1>2, <1>3

\* A generation that is no newer than the log stays so.
LEMMA LaterStep ==
    ASSUME RP!IInv, RP!IInv', NEW d \in Nat, Shifted(d), NEW n \in Nat, AllLater(n),
           Api.uid = 0 => n <= 1
    PROVE  AllLater(n)'
<1> SUFFICES ASSUME NEW k \in 1 .. Len(log'), log'[k].ex PROVE n <= log'[k].gen
  BY DEF AllLater
<1>l. /\ Len(log) \in 1 .. Len(log) /\ Api = log[Len(log)] /\ Api.gen \in Nat
      /\ log'[k].gen \in Nat
  BY LogFacts, NextGenTypes
<1>1. CASE k + d \in 1 .. Len(log) /\ log'[k] = log[k + d]
  BY <1>1 DEF AllLater
<1>2. CASE Follows(log'[k])
  <2>1. CASE Api.ex /\ Api.gen <= log'[k].gen
    <3>1. n <= Api.gen
      BY <1>l, <2>1 DEF AllLater
    <3> QED
      BY <1>l, <2>1, <3>1
  <2>2. CASE Api.uid = 0 /\ log'[k].gen = 1
    BY <2>2
  <2> QED
    BY <1>2, <2>1, <2>2 DEF Follows
<1> QED
  BY <1>1, <1>2 DEF Shifted

\* The generations of the versions in the log stay ordered.
LEMMA OrderStep ==
    ASSUME RP!IInv, RP!IInv', EndsInLog, GensInLog, NEW d \in Nat, Shifted(d)
    PROVE  \A k, m \in 1 .. Len(log') :
              k <= m /\ log'[k].ex /\ log'[m].ex => log'[k].gen <= log'[m].gen
<1> SUFFICES ASSUME NEW k \in 1 .. Len(log'), NEW m \in 1 .. Len(log'), k <= m,
                    log'[k].ex, log'[m].ex
             PROVE  log'[k].gen <= log'[m].gen
  OBVIOUS
<1>l. /\ Len(log) \in 1 .. Len(log) /\ Len(log) \in Nat /\ Api = log[Len(log)] /\ Api.gen \in Nat
      /\ log'[k].gen \in Nat /\ log'[m].gen \in Nat /\ Len(log') \in Nat
  BY LogFacts, NextGenTypes
<1>1. CASE k = m
  BY <1>l, <1>1
<1>2. CASE k # m
  <2>1. k + d \in 1 .. Len(log) /\ log'[k] = log[k + d]
    BY <1>l, <1>2 DEF Shifted
  <2>2. CASE m + d \in 1 .. Len(log) /\ log'[m] = log[m + d]
    <3>1. k + d <= m + d
      BY <1>l
    <3> QED
      BY <2>1, <2>2, <3>1 DEF GensInLog
  <2>3. CASE Follows(log'[m])
    <3>1. CASE Api.ex /\ Api.gen <= log'[m].gen
      <4>1. log'[k].gen <= Api.gen
        BY <1>l, <2>1, <3>1 DEF GensInLog
      <4> QED
        BY <1>l, <3>1, <4>1
    <3>2. CASE Api.uid = 0
      <4>1. log[k + d].uid # 0
        BY <2>1 DEF EndsInLog
      <4>2. log[k + d].uid \in Nat /\ log[k + d].uid <= Api.uid
        BY <1>l, <2>1, GenTypes DEF RP!IInv, RP!LogOrdered, RP!Indices
      <4> QED
        BY <3>2, <4>1, <4>2
    <3> QED
      BY <2>3, <3>1, <3>2 DEF Follows
  <2> QED
    BY <2>2, <2>3 DEF Shifted
<1> QED
  BY <1>1, <1>2

\* Where CreateOrUpdate is called, and what is then held.
Calls ==
    /\ pc' = "createOrUpdate" /\ tried'.gen = obj'.gen
    /\ \/ pc = "idle" /\ obj' = log[1] /\ log[1].ex /\ UNCHANGED log
       \/ pc = "addFinalizer" /\ obj'.gen = obj.gen

\* No other step changes what was tried.
KeepsTried ==
    /\ UNCHANGED tried
    /\ \/ pc' = "addFinalizer" /\ obj' = log[1] /\ log[1].ex /\ UNCHANGED log
       \/ /\ pc' = "addFinalizer" => UNCHANGED <<pc, obj>>
          /\ pc' \in {"createOrUpdate", "patchStatus"} =>
                pc \in {"createOrUpdate", "patchStatus"} /\ obj'.gen = obj.gen

LEMMA TriedStep ==
    ASSUME RP!IInv, CallOK, WrsType, SpecOK, [Next]_vars
    PROVE  Calls \/ KeepsTried
<1>o. obj \in RP!Version
  BY DEF RP!IInv, RP!TypeOK
<1>1. CASE R!UserCreate \/ R!UserEditSpec \/ R!UserDelete \/ R!Deliver \/ R!TimerFires
  BY <1>1 DEF R!UserCreate, R!UserEditSpec, R!UserDelete, R!Deliver, R!TimerFires, R!histVars,
              KeepsTried
<1>2. CASE R!Start
  BY <1>2 DEF R!Start, R!Cached, R!CallCreateOrUpdate, R!apiVars, Calls, KeepsTried
<1>3. CASE R!AddFinalizer
  <2>1. pc = "addFinalizer" /\ R!CallCreateOrUpdate([obj EXCEPT !.fin = TRUE])
    BY <1>3 DEF R!AddFinalizer
  <2> QED
    BY <1>o, <2>1 DEF R!CallCreateOrUpdate, Calls, RP!Version
<1>4. CASE \/ R!FinalizerUpdateFails \/ R!PatchStatus \/ R!PatchDeleteStatus \/ R!RemoveFinalizer
           \/ Restart
  BY <1>4 DEF R!FinalizerUpdateFails, R!PatchStatus, R!PatchDeleteStatus, R!RemoveFinalizer,
              R!Finish, Restart, R!Restart, R!histVars, KeepsTried
<1>5. CASE (Oci /\ UNCHANGED otherVars) \/ UNCHANGED vars
  BY <1>5 DEF otherVars, vars, reconcilerVars, KeepsTried
<1>6. CASE Kubernetes
  BY <1>6, <1>1, <1>2, <1>3, <1>4 DEF Kubernetes, Users, R!Controller
<1>7. CASE Manager
  <2>1. CallStep
    BY <1>7, ReconcilerFacts, CreateStepOK, DeleteStepOK DEF Manager
  <2>2. CASE UNCHANGED reconcilerVars
    BY <2>2 DEF reconcilerVars, KeepsTried
  <2>3. ASSUME NEW st, NEW r, R!CreateOrUpdateReturns(st, r)
        PROVE  KeepsTried
    BY <1>o, <2>3 DEF R!CreateOrUpdateReturns, R!histVars, KeepsTried, RP!Version
  <2>4. ASSUME NEW st, NEW out, R!DeleteReturns(st, out)
        PROVE  KeepsTried
    BY <2>4 DEF R!DeleteReturns, R!Finish, KeepsTried
  <2> QED
    BY <2>1, <2>2, <2>3, <2>4 DEF CallStep
<1> QED
  BY <1>4, <1>5, <1>6, <1>7 DEF Next

LEMMA GensInductive ==
    ASSUME MaxUid = 1, RP!IInv, RP!IInv', CallOK, WrsType, SpecOK, EndsInLog, GensInLog, [Next]_vars
    PROVE  GensInLog' /\ tried.gen <= tried'.gen
<1>d. PICK d \in Nat : Shifted(d)
  BY LogStep
<1>l. /\ 1 \in 1 .. Len(log) /\ Len(log) \in 1 .. Len(log) /\ Api = log[Len(log)]
      /\ Len(log') \in Nat /\ Len(log') >= 1 /\ Api' = log'[Len(log')] /\ Api.uid \in Nat
      /\ tried.gen \in Nat /\ tried'.gen \in Nat /\ obj.gen \in Nat
  BY LogFacts, GenTypes, NextGenTypes DEF Api, R!Api
<1>1. \A k, m \in 1 .. Len(log') :
         k <= m /\ log'[k].ex /\ log'[m].ex => log'[k].gen <= log'[m].gen
  BY <1>d, OrderStep
<1>u. Api'.uid = 0 => Api.uid = 0
  BY <1>d, <1>l DEF Shifted
<1>s. ASSUME NEW n \in Nat, AllLater(n), Api.uid = 0 => n <= 1
      PROVE  AllLater(n)'
  BY <1>s, <1>d, LaterStep

\* The cached version is the oldest in the log.
<1>c. ASSUME log[1].ex
      PROVE  /\ log[1].gen \in Nat /\ AllLater(log[1].gen) /\ Api.uid # 0
             /\ tried.gen <= log[1].gen
  <2>1. log[1].uid # 0 /\ log[1].uid \in Nat /\ log[1].gen \in Nat
    BY <1>c, <1>l, GenTypes DEF EndsInLog
  <2>2. log[1].uid <= Api.uid
    BY <1>l DEF RP!IInv, RP!LogOrdered, RP!Indices
  <2>3. \A k \in 1 .. Len(log) : log[k].ex => log[1].gen <= log[k].gen
    BY <1>c, <1>l DEF GensInLog
  <2> QED
    BY <1>c, <1>l, <2>1, <2>2, <2>3 DEF GensInLog, AllLater
<1>2. CASE Calls
  <2>1. PICK n \in Nat : /\ tried'.gen = n /\ AllLater(n) /\ Api.uid # 0 /\ tried.gen <= n
    <3>1. CASE obj' = log[1] /\ log[1].ex
      BY <1>2, <1>c, <3>1 DEF Calls
    <3>2. CASE pc = "addFinalizer" /\ obj'.gen = obj.gen
      BY <1>2, <1>l, <3>2 DEF Calls, GensInLog
    <3> QED
      BY <1>2, <3>1, <3>2 DEF Calls
  <2>2. AllLater(n)'
    BY <1>s, <2>1
  <2>3. AllLater(tried.gen)'
    BY <2>1, <2>2 DEF AllLater
  <2> QED
    BY <1>1, <1>2, <1>u, <2>1, <2>3 DEF GensInLog, Calls
<1>3. CASE KeepsTried
  <2>1. UNCHANGED tried /\ tried.gen <= tried'.gen
    BY <1>3, <1>l DEF KeepsTried
  <2>2. AllLater(tried.gen)'
    <3>1. AllLater(tried.gen) /\ (Api.uid = 0 => tried.gen <= 1)
      BY DEF GensInLog
    <3>2. PICK n \in Nat : n = tried.gen
      BY <1>l
    <3>3. AllLater(n)'
      BY <1>s, <3>1, <3>2
    <3> QED
      BY <2>1, <3>2, <3>3 DEF AllLater
  <2>3. Api'.uid = 0 => tried'.gen = 0
    BY <1>u, <2>1 DEF GensInLog
  <2>4. CASE pc' # "addFinalizer"
    BY <1>1, <2>1, <2>2, <2>3, <2>4 DEF GensInLog
  <2>5. CASE pc' = "addFinalizer" /\ obj' = log[1] /\ log[1].ex /\ UNCHANGED log
    <3>1. AllLater(obj.gen)' /\ tried'.gen <= obj'.gen
      BY <1>c, <2>1, <2>5 DEF AllLater
    <3>2. Api'.uid # 0
      BY <1>c, <1>u, <2>5
    <3> QED
      BY <1>1, <2>1, <2>2, <2>3, <3>1, <3>2 DEF GensInLog
  <2>6. CASE pc' = "addFinalizer" /\ UNCHANGED <<pc, obj>>
    <3>1. AllLater(obj.gen) /\ tried.gen <= obj.gen /\ Api.uid # 0
      BY <2>6 DEF GensInLog
    <3>2. \A k \in 1 .. Len(log') : log'[k].ex => obj.gen <= log'[k].gen
      <4>1. PICK n \in Nat : n = obj.gen
        BY <1>l
      <4>2. AllLater(n)'
        BY <1>s, <3>1, <4>1
      <4> QED
        BY <4>1, <4>2 DEF AllLater
    <3>3. AllLater(obj.gen)' /\ tried'.gen <= obj'.gen
      BY <2>1, <2>6, <3>1, <3>2 DEF AllLater
    <3> QED
      BY <1>1, <1>u, <2>1, <2>2, <2>3, <3>1, <3>3 DEF GensInLog
  <2> QED
    BY <1>3, <2>4, <2>5, <2>6 DEF KeepsTried
<1> QED
  BY <1>2, <1>3, TriedStep

\* What CreateOrUpdate has seen of the specs, users no longer change.
LEMMA SeenSpecs ==
    ASSUME MaxUid = 1, RP!IInv, RP!IInv', CallOK, WrsType, SpecOK, SpecOK', EndsInLog,
           GensInLog, GensHeld, [Next]_vars
    PROVE  /\ \A k \in 1 .. tried.gen : spec'[k] = spec[k]
           /\ GensHeld'
<1>l. /\ tried.gen \in Nat /\ tried'.gen \in Nat /\ Len(spec) \in Nat /\ Len(spec') \in Nat
      /\ MaxGen \in Nat /\ Api.uid \in Nat
  BY GenTypes, NextGenTypes, LogFacts, ReconcilerBounds DEF SpecOK, SpecInLog
<1>1. (\A k \in 1 .. tried.gen : spec'[k] = spec[k]) /\ tried.gen <= Len(spec')
  <2>1. CASE UNCHANGED spec
    BY <2>1 DEF GensHeld
  <2>2. CASE R!UserCreate
    <3>1. Api.uid = 0
      BY <1>l, <2>2 DEF R!UserCreate, Api
    <3> QED
      BY <1>l, <3>1 DEF GensInLog
  <2>3. ASSUME NEW next \in Written(Len(spec) + 1), SubSeq(next, 1, Len(spec)) = spec,
               spec' = next
        PROVE  (\A k \in 1 .. tried.gen : spec'[k] = spec[k]) /\ tried.gen <= Len(spec')
    <3>1. next \in SpecsWritten /\ Len(next) = Len(spec) + 1
      BY DEF Written
    <3>2. next \in Seq(Specs)
      <4>1. PICK e \in Edits, m \in 1 .. MaxGen : next = SubSeq(e, 1, m)
        BY <3>1 DEF SpecsWritten
      <4>2. e \in Seq(Specs) /\ Len(e) = MaxGen
        BY WaaAssumption
      <4> QED
        BY <1>l, <4>1, <4>2
    <3>3. \A k \in 1 .. Len(spec) : SubSeq(next, 1, Len(spec))[k] = next[k]
      BY <1>l, <3>1, <3>2
    <3>4. \A k \in 1 .. Len(spec) : spec[k] = next[k]
      BY <2>3, <3>3
    <3> QED
      BY <1>l, <2>3, <3>1, <3>4 DEF GensHeld
  <2>4. CASE Kubernetes
    BY <2>1, <2>2, <2>3, <2>4 DEF Kubernetes, Users
  <2> QED
    BY <2>1, <2>4 DEF Next, Restart, Manager, otherVars, vars
<1>2. CASE Calls
  <2>1. obj'.gen \in 1 .. Len(spec')
    BY <1>2 DEF Calls, SpecOK, SpecHeld
  <2> QED
    BY <1>1, <1>2, <1>l, <2>1 DEF Calls, GensHeld
<1>3. CASE KeepsTried
  BY <1>1, <1>3 DEF KeepsTried, GensHeld
<1> QED
  BY <1>1, <1>2, <1>3, TriedStep

-----------------------------------------------------------------------------
(* What a resource looks like, and will look like once the operation on it   *)
(* is done: in compartment and fields as two generations had it, the second  *)
(* not before the first, and neither older than the one it was created from. *)

\* A user who changes the compartment or the fields does not change them back.
NoneTakenBack ==
    \A e \in Edits : \A h, g, k \in 1 .. MaxGen :
        h <= g /\ g <= k =>
            /\ e[h].comp = e[k].comp => e[g].comp = e[k].comp
            /\ e[h].body = e[k].body => e[g].body = e[k].body

Seen(i) == res[i].gen .. tried.gen

Formed(i) ==
    /\ res[i].gen >= 1 /\ res[i].gen <= tried.gen
    /\ res[i].spec.lb = spec[res[i].gen].lb /\ res[i].want.lb = res[i].spec.lb
    /\ \E h, g \in Seen(i) :
          h <= g /\ res[i].spec.comp = spec[h].comp /\ res[i].want.comp = spec[g].comp
    /\ \E h, g \in Seen(i) :
          h <= g /\ res[i].spec.body = spec[h].body /\ res[i].want.body = spec[g].body
    /\ res[i].op \in {"", "create", "delete"} => res[i].want = res[i].spec

FormsOK == \A i \in OCIDs : res[i].own # 0 => Formed(i)

\* A read of the resource shows what the spec wants, and so will every later one.
Applied(i) == res[i].own # 0 /\ res[i].spec = Desired /\ res[i].want = Desired

\* A step of the service: an operation is left alone, or ends one way or another.
KeepsForm(i) ==
    /\ res'[i].own = res[i].own /\ res'[i].gen = res[i].gen
    /\ \/ /\ res'[i].spec = res[i].spec /\ res'[i].want = res[i].want
          /\ res'[i].op = res[i].op
       \/ res'[i].spec = res'[i].want /\ res'[i].spec \in {res[i].spec, res[i].want}

LEMMA FormKept ==
    ASSUME RP!IInv, RP!IInv', ResType, NEW i \in OCIDs, Formed(i), KeepsForm(i),
           \A k \in 1 .. tried.gen : spec'[k] = spec[k], tried.gen <= tried'.gen
    PROVE  Formed(i)'
<1>l. /\ tried.gen \in Nat /\ tried'.gen \in Nat /\ res[i].gen \in Nat
  BY GenTypes, NextGenTypes DEF ResType
<1>f. /\ res[i].gen >= 1 /\ res[i].gen <= tried.gen /\ res'[i].gen = res[i].gen
      /\ res[i].spec.lb = spec[res[i].gen].lb /\ res[i].want.lb = res[i].spec.lb
  BY DEF Formed, KeepsForm
<1>s. \A k \in Seen(i) : k \in Nat /\ k \in Seen(i)' /\ spec'[k] = spec[k]
  BY <1>l, <1>f DEF Seen
<1>1. /\ res'[i].gen >= 1 /\ res'[i].gen <= tried'.gen
      /\ res'[i].spec.lb = spec'[res'[i].gen].lb /\ res'[i].want.lb = res'[i].spec.lb
  <2>1. res[i].gen \in Seen(i)
    BY <1>l, <1>f DEF Seen
  <2> QED
    BY <1>l, <1>f, <1>s, <2>1 DEF KeepsForm
<1>2. \E h, g \in Seen(i)' :
         h <= g /\ res'[i].spec.comp = spec'[h].comp /\ res'[i].want.comp = spec'[g].comp
  <2>1. PICK h \in Seen(i), g \in Seen(i) :
          h <= g /\ res[i].spec.comp = spec[h].comp /\ res[i].want.comp = spec[g].comp
    BY DEF Formed
  <2>2. /\ h \in Seen(i)' /\ g \in Seen(i)' /\ h <= h /\ g <= g /\ h <= g
        /\ spec'[h] = spec[h] /\ spec'[g] = spec[g]
    BY <1>s, <2>1
  <2> QED
    BY <2>1, <2>2 DEF KeepsForm
<1>3. \E h, g \in Seen(i)' :
         h <= g /\ res'[i].spec.body = spec'[h].body /\ res'[i].want.body = spec'[g].body
  <2>1. PICK h \in Seen(i), g \in Seen(i) :
          h <= g /\ res[i].spec.body = spec[h].body /\ res[i].want.body = spec[g].body
    BY DEF Formed
  <2>2. /\ h \in Seen(i)' /\ g \in Seen(i)' /\ h <= h /\ g <= g /\ h <= g
        /\ spec'[h] = spec[h] /\ spec'[g] = spec[g]
    BY <1>s, <2>1
  <2> QED
    BY <2>1, <2>2 DEF KeepsForm
<1>4. res'[i].op \in {"", "create", "delete"} => res'[i].want = res'[i].spec
  BY DEF Formed, KeepsForm
<1> QED
  BY <1>1, <1>2, <1>3, <1>4 DEF Formed

\* A read that shows the spec shows it for good.
LEMMA ReadIsApplied ==
    ASSUME NoneTakenBack, RP!IInv, SpecOK, ResType, GensHeld, NEW i \in OCIDs, Formed(i),
           res[i].own # 0, pc = "createOrUpdate", res[i].spec = Desired
    PROVE  Applied(i)
<1>l. /\ tried.gen \in Nat /\ tried.gen = obj.gen /\ tried.gen <= Len(spec)
      /\ Len(spec) \in Nat /\ Len(spec) <= MaxGen /\ MaxGen \in Nat /\ tried.gen >= 1
      /\ res[i].gen \in Nat /\ res[i].gen >= 1
  <2>1. res[i].gen >= 1
    BY DEF Formed
  <2>2. Len(spec) \in 1 .. MaxGen /\ MaxGen \in Nat
    BY ReconcilerBounds DEF SpecOK, SpecInLog
  <2>3. res[i].gen \in Nat
    BY DEF ResType
  <2> QED
    BY <2>1, <2>2, <2>3, GenTypes DEF GensHeld
<1>1. PICK e \in Edits, m \in 1 .. MaxGen : spec = SubSeq(e, 1, m)
  BY DEF SpecOK, SpecInLog, SpecsWritten
<1>2. e \in Seq(Specs) /\ Len(e) = MaxGen
  BY WaaAssumption
<1>3. \A k \in 1 .. Len(spec) : spec[k] = e[k]
  BY <1>l, <1>1, <1>2
<1>4. \A k \in Seen(i) : k \in 1 .. tried.gen /\ k \in 1 .. Len(spec) /\ k \in 1 .. MaxGen /\ k <= tried.gen
  BY <1>l DEF Seen
<1>5. tried.gen \in 1 .. Len(spec) /\ tried.gen \in 1 .. MaxGen
  BY <1>l
<1>6. Desired = e[tried.gen]
  BY <1>3, <1>5, <1>l DEF Desired
<1>7. res[i].want.comp = Desired.comp
  <2>1. PICK h \in Seen(i), g \in Seen(i) :
          h <= g /\ res[i].spec.comp = spec[h].comp /\ res[i].want.comp = spec[g].comp
    BY DEF Formed
  <2>2. spec[h] = e[h] /\ spec[g] = e[g] /\ h \in 1 .. MaxGen /\ g \in 1 .. MaxGen /\ g <= tried.gen
    BY <1>3, <1>4
  <2> QED
    BY <1>5, <1>6, <2>1, <2>2 DEF NoneTakenBack
<1>8. res[i].want.body = Desired.body
  <2>1. PICK h \in Seen(i), g \in Seen(i) :
          h <= g /\ res[i].spec.body = spec[h].body /\ res[i].want.body = spec[g].body
    BY DEF Formed
  <2>2. spec[h] = e[h] /\ spec[g] = e[g] /\ h \in 1 .. MaxGen /\ g \in 1 .. MaxGen /\ g <= tried.gen
    BY <1>3, <1>4
  <2> QED
    BY <1>5, <1>6, <2>1, <2>2 DEF NoneTakenBack
<1>9. res[i].want.lb = Desired.lb
  BY DEF Formed
<1>10. res[i].want \in Specs /\ Desired \in Specs
  BY DesiredType DEF ResType
<1> QED
  BY <1>7, <1>8, <1>9, <1>10 DEF Applied, Specs

\* What the service does by itself.
LEMMA OciForms ==
    ASSUME ResType, ResourcesOnce, FormsOK, Oci
    PROVE  \A i \in OCIDs : res[i].own # 0 => KeepsForm(i)
<1>r. \A i \in OCIDs : res'[i] = res[i] => KeepsForm(i)
  BY DEF KeepsForm

\* One resource changes.
<1>k. ASSUME NEW i \in OCIDs, NEW r, res' = [res EXCEPT ![i] = r],
             r.own = res[i].own, r.gen = res[i].gen,
             res[i].own # 0 =>
               \/ r.spec = res[i].spec /\ r.want = res[i].want /\ r.op = res[i].op
               \/ r.spec = r.want /\ r.spec \in {res[i].spec, res[i].want}
      PROVE  \A j \in OCIDs : res[j].own # 0 => KeepsForm(j)
  <2>1. res'[i] = r /\ \A j \in OCIDs : j # i => res'[j] = res[j]
    BY <1>k DEF ResType
  <2>2. res[i].own # 0 => KeepsForm(i)
    BY <1>k, <2>1 DEF KeepsForm
  <2> QED
    BY <1>r, <2>1, <2>2
<1>1. CASE OperationShows
  <2>1. PICK i \in OCIDs, s \in {"CREATING", "UPDATING", "DELETING"} :
          res' = [res EXCEPT ![i].state = s]
    BY <1>1 DEF OperationShows, Busy
  <2> DEFINE r == [res[i] EXCEPT !.state = s]
  <2>2. /\ res' = [res EXCEPT ![i] = r] /\ r.own = res[i].own /\ r.gen = res[i].gen
        /\ r.spec = res[i].spec /\ r.want = res[i].want /\ r.op = res[i].op
    BY <2>1 DEF ResType
  <2> HIDE DEF r
  <2> QED
    BY <1>k, <2>2
<1>2. CASE OperationSucceeds
  <2>1. PICK i \in OCIDs :
          \/ /\ res[i].op = "delete"
             /\ \E to \in {"DELETED", "NONE"} : res' = [res EXCEPT ![i].state = to, ![i].op = ""]
          \/ res' = [res EXCEPT ![i].state = "ACTIVE", ![i].op = "", ![i].spec = res[i].want]
    BY <1>2 DEF OperationSucceeds
  <2>2. CASE res[i].op = "delete" /\ \E to \in {"DELETED", "NONE"} :
               res' = [res EXCEPT ![i].state = to, ![i].op = ""]
    <3>1. PICK to : res' = [res EXCEPT ![i].state = to, ![i].op = ""]
      BY <2>2
    <3> DEFINE r == [res[i] EXCEPT !.state = to, !.op = ""]
    <3>2. /\ res' = [res EXCEPT ![i] = r] /\ r.own = res[i].own /\ r.gen = res[i].gen
          /\ r.spec = res[i].spec /\ r.want = res[i].want
      BY <3>1 DEF ResType
    <3> HIDE DEF r
    <3>3. res[i].own # 0 => res[i].want = res[i].spec
      BY <2>2 DEF FormsOK, Formed
    <3> QED
      BY <1>k, <3>2, <3>3
  <2>3. CASE res' = [res EXCEPT ![i].state = "ACTIVE", ![i].op = "", ![i].spec = res[i].want]
    <3> DEFINE r == [res[i] EXCEPT !.state = "ACTIVE", !.op = "", !.spec = res[i].want]
    <3>2. /\ res' = [res EXCEPT ![i] = r] /\ r.own = res[i].own /\ r.gen = res[i].gen
          /\ r.spec = res[i].want /\ r.want = res[i].want
      BY <2>3 DEF ResType
    <3> HIDE DEF r
    <3> QED
      BY <1>k, <3>2
  <2> QED
    BY <2>1, <2>2, <2>3
<1>3. CASE OperationFails
  <2>1. PICK i \in OCIDs, s \in {"FAILED", "ACTIVE"} :
          res' = [res EXCEPT ![i].op = "", ![i].want = res[i].spec, ![i].state = s]
    BY <1>3 DEF OperationFails
  <2> DEFINE r == [res[i] EXCEPT !.op = "", !.want = res[i].spec, !.state = s]
  <2>2. /\ res' = [res EXCEPT ![i] = r] /\ r.own = res[i].own /\ r.gen = res[i].gen
        /\ r.spec = res[i].spec /\ r.want = res[i].spec
    BY <2>1 DEF ResType
  <2> HIDE DEF r
  <2> QED
    BY <1>k, <2>2
<1>4. CASE UNCHANGED res
  BY <1>r, <1>4
<1> QED
  BY <1>1, <1>2, <1>3, <1>4 DEF Oci, WorkRequestSucceedsEarly, WorkRequestVanishes

\* A write asks for the compartment or the fields of the generation that
\* CreateOrUpdate was called on, or for nothing new.
LEMMA WriteForms ==
    ASSUME RP!IInv, ResType, SpecOK, ResourcesOnce, GensHeld, FormsOK, UNCHANGED <<spec, tried>>,
           NEW op \in {"update", "move", "delete"}, NEW i \in OCIDs, NEW want, NEW w,
           WriteAccepted(op, i, want, w),
           \/ op = "delete" /\ want = res[i].spec
           \/ /\ pc = "createOrUpdate"
              /\ \/ op = "move" /\ want = [res[i].spec EXCEPT !.comp = Desired.comp]
                 \/ op = "update" /\ want = [res[i].spec EXCEPT !.body = Desired.body]
    PROVE  /\ FormsOK'
           /\ \A j \in OCIDs : /\ res'[j].own = res[j].own /\ res'[j].gen = res[j].gen
                               /\ res'[j].spec = res[j].spec
<1> DEFINE r == [res[i] EXCEPT !.op = op, !.want = want]
<1>1. /\ res' = [res EXCEPT ![i] = r] /\ r.own = res[i].own /\ r.op = op /\ r.gen = res[i].gen
      /\ r.spec = res[i].spec /\ r.want = want
      /\ res[i].state \in {"ACTIVE", "FAILED"} /\ res[i].op = ""
  BY DEF WriteAccepted, ResType
<1> HIDE DEF r
<1>2. res'[i] = r /\ \A j \in OCIDs : j # i => res'[j] = res[j]
  BY <1>1 DEF ResType
<1>3. \A j \in OCIDs : /\ res'[j].own = res[j].own /\ res'[j].gen = res[j].gen
                       /\ res'[j].spec = res[j].spec
  BY <1>1, <1>2
<1>4. res[i].own # 0 /\ Formed(i)
  BY <1>1 DEF ResourcesOnce, FormsOK
<1>5. /\ res[i].want = res[i].spec /\ res[i].spec \in Specs /\ res[i].gen >= 1
      /\ res[i].gen <= tried.gen /\ res[i].spec.lb = spec[res[i].gen].lb
  BY <1>1, <1>4 DEF Formed, ResType
<1>g. res[i].gen \in Nat /\ tried.gen \in Nat /\ Seen(i)' = Seen(i)
  BY <1>3, GenTypes DEF ResType, Seen
<1>6. PICK c \in Seen(i) : res[i].spec.comp = spec[c].comp
  BY <1>4 DEF Formed
<1>7. PICK b \in Seen(i) : res[i].spec.body = spec[b].body
  BY <1>4 DEF Formed
<1>n. /\ tried.gen \in Seen(i) /\ c \in Nat /\ b \in Nat /\ c <= tried.gen /\ b <= tried.gen
      /\ c <= c /\ b <= b
  BY <1>5, <1>g DEF Seen
<1>8. /\ want.lb = res[i].spec.lb
      /\ want.comp = spec[c].comp \/ want.comp = spec[tried.gen].comp
      /\ want.body = spec[b].body \/ want.body = spec[tried.gen].body
      /\ op = "delete" => want = res[i].spec
  <2>1. CASE op = "delete" /\ want = res[i].spec
    BY <1>6, <1>7, <2>1
  <2>2. CASE pc = "createOrUpdate"
    <3>1. Desired = spec[tried.gen]
      BY <2>2 DEF Desired, GensHeld
    <3>2. CASE op = "move" /\ want = [res[i].spec EXCEPT !.comp = Desired.comp]
      <4>1. want.lb = res[i].spec.lb /\ want.comp = Desired.comp /\ want.body = res[i].spec.body
        BY <1>5, <3>2 DEF Specs
      <4> QED
        BY <1>7, <3>1, <3>2, <4>1
    <3>3. CASE op = "update" /\ want = [res[i].spec EXCEPT !.body = Desired.body]
      <4>1. want.lb = res[i].spec.lb /\ want.body = Desired.body /\ want.comp = res[i].spec.comp
        BY <1>5, <3>3 DEF Specs
      <4> QED
        BY <1>6, <3>1, <3>3, <4>1
    <3> QED
      BY <2>1, <2>2, <3>2, <3>3
  <2> QED
    BY <2>1, <2>2
<1>9. Formed(i)'
  <2>1. /\ res'[i].gen = res[i].gen /\ res'[i].spec = res[i].spec /\ res'[i].want = want
        /\ res'[i].op = op
    BY <1>1, <1>2
  <2>2. /\ res'[i].gen >= 1 /\ res'[i].gen <= tried'.gen
        /\ res'[i].spec.lb = spec'[res'[i].gen].lb /\ res'[i].want.lb = res'[i].spec.lb
    BY <1>5, <1>8, <2>1
  <2>3. \E h, g \in Seen(i)' :
           h <= g /\ res'[i].spec.comp = spec'[h].comp /\ res'[i].want.comp = spec'[g].comp
    BY <1>6, <1>8, <1>g, <1>n, <2>1
  <2>4. \E h, g \in Seen(i)' :
           h <= g /\ res'[i].spec.body = spec'[h].body /\ res'[i].want.body = spec'[g].body
    BY <1>7, <1>8, <1>g, <1>n, <2>1
  <2>5. res'[i].op \in {"", "create", "delete"} => res'[i].want = res'[i].spec
    BY <1>8, <2>1
  <2> QED
    BY <2>2, <2>3, <2>4, <2>5 DEF Formed
<1>10. ASSUME NEW j \in OCIDs, j # i, res'[j].own # 0 PROVE Formed(j)'
  <2>1. res'[j] = res[j] /\ Formed(j)
    BY <1>2, <1>10 DEF FormsOK
  <2>2. Seen(j)' = Seen(j) /\ spec' = spec /\ tried' = tried
    BY <2>1 DEF Seen
  <2> QED
    BY <2>1, <2>2 DEF Formed
<1> QED
  BY <1>3, <1>9, <1>10 DEF FormsOK

\* A new resource is created from the generation that CreateOrUpdate was
\* called on; the token answers only for one of that generation.
LEMMA CreateForms ==
    ASSUME RP!IInv, ResType, SpecOK, GensHeld, FormsOK, UNCHANGED <<spec, tried>>,
           pc = "createOrUpdate", NEW i \in OCIDs, NEW w, CreateAccepted(1, 1, obj.gen, i, w)
    PROVE  /\ FormsOK' /\ res'[i].own # 0 /\ res'[i].gen = obj.gen
<1>g. tried.gen \in Nat /\ tried.gen = obj.gen /\ tried.gen >= 1 /\ Desired = spec[tried.gen]
  BY GenTypes DEF GensHeld, Desired
<1>u. ASSUME NEW j \in OCIDs, res'[j] = res[j], res'[j].own # 0 PROVE Formed(j)'
  <2>1. Formed(j)
    BY <1>u DEF FormsOK
  <2>2. Seen(j)' = Seen(j) /\ spec' = spec /\ tried' = tried
    BY <1>u DEF Seen
  <2> QED
    BY <1>u, <2>1, <2>2 DEF Formed
<1>1. CASE i \in CreatedWith(1) /\ res[i].gen = obj.gen /\ UNCHANGED ociVars
  <2>1. res[i].own = 1 /\ UNCHANGED res
    BY <1>1 DEF CreatedWith, ociVars
  <2> QED
    BY <1>1, <1>u, <2>1 DEF FormsOK
<1>2. ASSUME NEW state,
             res' = [res EXCEPT ![i] = [own |-> 1, gen |-> obj.gen, op |-> "create",
                                        spec |-> spec[obj.gen], want |-> spec[obj.gen],
                                        state |-> state]]
      PROVE  FormsOK' /\ res'[i].own # 0 /\ res'[i].gen = obj.gen
  <2>1. /\ res'[i].own = 1 /\ res'[i].gen = obj.gen /\ res'[i].spec = spec[obj.gen]
        /\ res'[i].want = spec[obj.gen]
        /\ \A j \in OCIDs : j # i => res'[j] = res[j]
    BY <1>2 DEF ResType
  <2>2. tried.gen \in Seen(i)' /\ tried.gen <= tried.gen
    BY <1>g, <2>1 DEF Seen
  <2>3. Formed(i)'
    <3>1. /\ res'[i].gen >= 1 /\ res'[i].gen <= tried'.gen
          /\ res'[i].spec.lb = spec'[res'[i].gen].lb /\ res'[i].want.lb = res'[i].spec.lb
          /\ res'[i].want = res'[i].spec
      BY <1>g, <2>1
    <3>2. \E h, g \in Seen(i)' :
             h <= g /\ res'[i].spec.comp = spec'[h].comp /\ res'[i].want.comp = spec'[g].comp
      BY <1>g, <2>1, <2>2
    <3>3. \E h, g \in Seen(i)' :
             h <= g /\ res'[i].spec.body = spec'[h].body /\ res'[i].want.body = spec'[g].body
      BY <1>g, <2>1, <2>2
    <3> QED
      BY <3>1, <3>2, <3>3 DEF Formed
  <2> QED
    BY <1>u, <2>1, <2>3 DEF FormsOK
<1> QED
  BY <1>1, <1>2 DEF CreateAccepted

-----------------------------------------------------------------------------
(* The calls: what the next step of CreateOrUpdate may rely on, and when it  *)
(* reports Active.                                                           *)

KnownSteps == {"readCreated", "move", "readMoved", "update", "readUpdated"}

\* Step s of a CreateOrUpdate with status st is about a resource i that was
\* created.  The read after Create is about one of the held generation; a move
\* has found the load balancer as it should be; a move or an update that has a
\* work request is tracked.
Ready(s, st, i, w) ==
    /\ s \in KnownSteps => i \in OCIDs /\ res[i].own # 0
    /\ s = "readCreated" => res[i].gen = obj.gen
    /\ s \in {"move", "readMoved"} => res[i].spec.lb = Desired.lb
    /\ s = "readMoved" /\ w # 0 => PendingMove(st)
    /\ s = "readUpdated" /\ w # 0 => st.async.class = "pending"

Reading == Ready(call.step, call.st, call.id, call.wr)

\* A status that says Active is right.
Shows(st) == st.reason = "Active" => st.ocid \in OCIDs /\ Applied(st.ocid)

\* CreateOrUpdate returns with such a status, unless it waits for a move without
\* a work request, or goes on.
ReadStep ==
    \/ \E st \in Statuses : Returns(st) /\ (Shows(st) \/ UntrackedMove)
    \/ UNCHANGED reconcilerVars /\ Reading'

\* What the helpers of CreateOrUpdate work on.
ReadContext ==
    /\ AInv /\ ResourcesOnce /\ GensHeld /\ FormsOK /\ Reading
    /\ pc = "createOrUpdate" /\ NoneTakenBack

LEMMA ContextFacts ==
    ASSUME ReadContext
    PROVE  /\ RP!IInv /\ CallOK /\ SpecOK /\ ResType /\ WrsType /\ Owners
           /\ call.st \in Statuses /\ obj.st \in Statuses /\ Desired \in Specs
           /\ 0 \notin OCIDs /\ 0 \notin WorkRequestIDs
<1>1. RP!IInv /\ CallOK /\ SpecOK /\ ResType /\ WrsType /\ Owners
  BY DEF ReadContext, AInv, StateOK
<1> QED
  BY <1>1, CallFacts, ReconcilerFacts, DesiredType, WaaAssumption DEF ReadContext

LEMMA ContinueReads ==
    ASSUME NEW s, NEW st, NEW i, NEW w, Continue(s, st, i, w), UNCHANGED spec,
           s \in KnownSteps => i \in OCIDs /\ res'[i].own # 0,
           s = "readCreated" => res'[i].gen = obj.gen,
           s \in {"move", "readMoved"} => res'[i].spec.lb = Desired.lb,
           s = "readMoved" /\ w # 0 => PendingMove(st),
           s = "readUpdated" /\ w # 0 => st.async.class = "pending"
    PROVE  ReadStep
<1>1. /\ call'.step = s /\ call'.st = st /\ call'.id = i /\ call'.wr = w
      /\ UNCHANGED reconcilerVars /\ UNCHANGED obj
  BY DEF Continue, reconcilerVars
<1>2. Desired' = Desired
  BY <1>1 DEF Desired
<1>3. PendingMove(st) => (call'.step = "readMoved" => PendingMove(call.st)')
  BY <1>1 DEF PendingMove, IsPending
<1> QED
  BY <1>1, <1>2, <1>3 DEF ReadStep, Reading, Ready

\* An operation that has not succeeded does not make a resource Active.
LEMMA NotActive ==
    ASSUME NEW st \in Statuses
    PROVE  /\ Failure(st).reason # "Active"
           /\ \A cur \in Trackers : cur.class \in {"pending", "failed"} =>
                 A!ApplyAsyncOperation(st, cur).reason # "Active"
           /\ \A cur \in Trackers : A!ApplyAsyncOperation(st, cur).ocid = st.ocid
<1>1. Failure(st).reason = "Failed"
  BY DEF Failure, Statuses
<1>2. ASSUME NEW cur \in Trackers
      PROVE  /\ A!ApplyAsyncOperation(st, cur).reason
                  = A!ProjectAsyncCondition(cur.class, cur.phase).condition
             /\ A!ApplyAsyncOperation(st, cur).ocid = st.ocid
  <2> DEFINE c == A!ProjectAsyncCondition(cur.class, cur.phase).condition
             a == [cur EXCEPT !.wr = IF cur.wr # 0 THEN cur.wr
                                     ELSE A!PreservedInFlightWorkRequestID(st.async, cur)]
  <2>1. A!ApplyAsyncOperation(st, cur) = [st EXCEPT !.reason = c, !.async = a]
    BY DEF A!ApplyAsyncOperation
  <2> HIDE DEF c, a
  <2>2. A!ApplyAsyncOperation(st, cur).reason = c /\ A!ApplyAsyncOperation(st, cur).ocid = st.ocid
    BY <2>1 DEF Statuses
  <2> QED
    BY <2>2 DEF c
<1>3. \A phase : \A class \in {"pending", "failed"} :
         A!ProjectAsyncCondition(class, phase).condition # "Active"
  BY DEF A!ProjectAsyncCondition, A!ConditionForAsyncPhase
<1> QED
  BY <1>1, <1>2, <1>3

LEMMA ApplySuccessActive ==
    ASSUME NEW st \in Statuses, NEW i \in OCIDs, NEW state, NEW fallback,
           ApplySuccess(st, i, state, fallback).reason = "Active"
    PROVE  /\ ApplySuccess(st, i, state, fallback).ocid = i
           /\ state \notin {"CREATING", "UPDATING", "DELETING", "FAILED"}
<1> DEFINE seen == [st EXCEPT !.ocid = i]
           to(phase, class) == A!ApplyAsyncOperation(seen, LifecycleOperation(phase, class))
<1>1. seen \in Statuses /\ seen.ocid = i
  BY NamedStatus
<1>2. \A phase \in {"create", "update", "delete"}, class \in {"pending", "succeeded", "failed"} :
         LifecycleOperation(phase, class) \in Trackers /\ LifecycleOperation(phase, class).class = class
  BY DEF LifecycleOperation, Trackers, A!Phases, A!Classes
<1>3. ApplySuccess(st, i, state, fallback) =
        CASE state = "CREATING" -> to("create", "pending")
          [] state = "UPDATING" -> to("update", "pending")
          [] state = "DELETING" -> to("delete", "pending")
          [] state = "DELETED"  -> to("delete", "succeeded")
          [] state = "FAILED" /\ fallback # "Active" ->
               to(IF fallback = "Provisioning" THEN "create" ELSE "update", "failed")
          [] OTHER -> [ClearAsyncOperation(seen) EXCEPT
                         !.reason = IF state = "FAILED" THEN "Failed" ELSE "Active"]
  BY DEF ApplySuccess
<1> HIDE DEF seen
<1>4. \A phase \in {"create", "update", "delete"}, class \in {"pending", "succeeded", "failed"} :
         to(phase, class).ocid = i /\ (class \in {"pending", "failed"} => to(phase, class).reason # "Active")
  BY <1>1, <1>2, NotActive
<1>5. \A r : /\ [ClearAsyncOperation(seen) EXCEPT !.reason = r].ocid = i
             /\ [ClearAsyncOperation(seen) EXCEPT !.reason = r].reason = r
  BY <1>1 DEF ClearAsyncOperation, Statuses
<1> HIDE DEF to
<1> QED
  BY <1>3, <1>4, <1>5

LEMMA PendingWriteReads ==
    ASSUME ReadContext, UNCHANGED <<res, spec>>, NEW st \in Statuses, NEW i \in OCIDs,
           NEW pending \in Trackers, pending.class = "pending" \/ Applied(i),
           HandlePendingWrite(st, i, pending)
    PROVE  ReadStep
<1> DEFINE seen == [st EXCEPT !.ocid = i]
           after == A!ApplyAsyncOperation(seen, pending)
<1>1. seen \in Statuses /\ seen.ocid = i
  BY NamedStatus
<1> HIDE DEF seen
<1>2. after \in Statuses /\ after.ocid = i /\ (pending.class = "pending" => after.reason # "Active")
  BY <1>1, ApplyType, NotActive
<1>3. Returns(after) \/ Continue("poll", st, i, 0)
  BY DEF HandlePendingWrite, seen
<1> HIDE DEF after
<1>4. CASE Returns(after)
  BY <1>2, <1>4 DEF ReadStep, Shows
<1>5. CASE Continue("poll", st, i, 0)
  BY <1>5, ContinueReads DEF KnownSteps
<1> QED
  BY <1>3, <1>4, <1>5

LEMMA ReconcileUpdateReads ==
    ASSUME ReadContext, UNCHANGED <<res, spec>>, NEW st \in Statuses, NEW i \in OCIDs,
           res[i].own # 0, res[i].spec.lb = Desired.lb, res[i].spec.comp = Desired.comp,
           ReconcileUpdate(st, i)
    PROVE  ReadStep
<1>c. RP!IInv /\ SpecOK /\ ResType /\ Desired \in Specs
  BY ContextFacts
<1>1. CASE res[i].spec.body = Desired.body
  <2>0. res[i].spec \in Specs
    BY <1>c DEF ResType
  <2>1. res[i].spec = Desired
    BY <1>1, <1>c, <2>0 DEF Specs
  <2>2. Applied(i)
    BY <1>c, <2>1, ReadIsApplied DEF ReadContext, FormsOK
  <2> DEFINE after == ApplySuccess(st, i, res[i].state, "Active")
  <2>3. after \in Statuses /\ (after.reason = "Active" => after.ocid = i)
    BY ApplySuccessType, ApplySuccessActive
  <2>4. Returns(after)
    BY <1>1 DEF ReconcileUpdate
  <2> HIDE DEF after
  <2> QED
    BY <2>2, <2>3, <2>4 DEF ReadStep, Shows
<1>2. CASE Continue("update", st, i, 0)
  BY <1>2, ContinueReads DEF KnownSteps
<1> QED
  BY <1>1, <1>2 DEF ReconcileUpdate

LEMMA ReconcileExistingReads ==
    ASSUME ReadContext, UNCHANGED <<res, spec>>, NEW st0 \in Statuses, NEW i \in OCIDs,
           Readable(i), ReconcileExisting(st0, i)
    PROVE  ReadStep
<1> DEFINE st == [st0 EXCEPT !.ocid = i]
<1>1. st \in Statuses /\ Failure(st) \in Statuses /\ Failure(st).reason # "Active"
      /\ st.async \in Trackers
  BY NamedStatus, StatusType, NotActive
<1>2. res[i].own # 0
  BY DEF Readable, LifecycleStates, ReadContext, ResourcesOnce
<1>3. \/ Returns(Failure(st))
      \/ PendingWrite(st) /\ HandlePendingWrite(st, i, st.async)
      \/ (LifecyclePending(i) \/ res[i].state = "FAILED")
           /\ Returns(ApplySuccess(st, i, res[i].state, "Active"))
      \/ PendingMove(st) /\ HandlePendingMove(st, i)
      \/ res[i].spec.lb = Desired.lb /\ Continue("move", st, i, 0)
      \/ /\ res[i].spec.lb = Desired.lb /\ res[i].spec.comp = Desired.comp
         /\ ReconcileUpdate(st, i)
  BY DEF ReconcileExisting
<1> HIDE DEF st
<1>4. CASE Returns(Failure(st))
  BY <1>1, <1>4 DEF ReadStep, Shows
<1>5. CASE PendingWrite(st) /\ HandlePendingWrite(st, i, st.async)
  <2>1. st.async.class = "pending"
    BY <1>5 DEF PendingWrite, IsPending
  <2> QED
    BY <1>1, <1>5, <2>1, PendingWriteReads
<1>6. CASE (LifecyclePending(i) \/ res[i].state = "FAILED")
             /\ Returns(ApplySuccess(st, i, res[i].state, "Active"))
  <2> DEFINE after == ApplySuccess(st, i, res[i].state, "Active")
  <2>1. after \in Statuses /\ after.reason # "Active"
    BY <1>1, <1>6, ApplySuccessType, ApplySuccessActive DEF LifecyclePending
  <2> HIDE DEF after
  <2>2. Returns(after)
    BY <1>6 DEF after
  <2> QED
    BY <2>1, <2>2 DEF ReadStep, Shows
<1>7. CASE PendingMove(st) /\ HandlePendingMove(st, i)
  <2>1. st.async.class = "pending" /\ HandlePendingWrite(st, i, st.async)
    BY <1>7 DEF PendingMove, IsPending, HandlePendingMove
  <2> QED
    BY <1>1, <2>1, PendingWriteReads
<1>8. CASE res[i].spec.lb = Desired.lb /\ Continue("move", st, i, 0)
  BY <1>2, <1>8, ContinueReads DEF KnownSteps
<1> QED
  BY <1>1, <1>2, <1>3, <1>4, <1>5, <1>6, <1>7, <1>8, ReconcileUpdateReads

\* Each step of CreateOrUpdate.
LEMMA CreateReads ==
    ASSUME ReadContext, MaxUid = 1, RP!UidBounded, UNCHANGED <<spec, tried>>, CreateOrUpdate
    PROVE  ReadStep /\ FormsOK'
<1>c. /\ RP!IInv /\ CallOK /\ SpecOK /\ ResType /\ WrsType /\ Owners
      /\ call.st \in Statuses /\ obj.st \in Statuses /\ Desired \in Specs
      /\ 0 \notin OCIDs /\ 0 \notin WorkRequestIDs
  BY ContextFacts
<1>x. /\ ResourcesOnce /\ GensHeld /\ FormsOK /\ pc = "createOrUpdate" /\ NoneTakenBack
      /\ Ready(call.step, call.st, call.id, call.wr)
  BY DEF ReadContext, Reading
<1>u. UNCHANGED ociVars => UNCHANGED res /\ FormsOK'
  <2> SUFFICES ASSUME UNCHANGED ociVars PROVE UNCHANGED res /\ FormsOK'
    OBVIOUS
  <2>1. UNCHANGED <<res, spec, tried>>
    BY DEF ociVars
  <2>2. ASSUME NEW i \in OCIDs PROVE Formed(i) => Formed(i)'
    BY <2>1 DEF Formed, Seen
  <2> QED
    BY <1>x, <2>1, <2>2 DEF FormsOK
<1>f. ASSUME NEW st \in Statuses, Returns(Failure(st)) PROVE ReadStep
  BY <1>f, StatusType, NotActive DEF ReadStep, Shows
<1>1. CASE ReadCurrent
  <2>1. UNCHANGED ociVars /\ obj.st.ocid \in OCIDs
    BY <1>1, <1>c, StatusType DEF ReadCurrent
  <2>2. \/ Returns(Failure(obj.st))
        \/ Readable(obj.st.ocid) /\ ReconcileExisting(obj.st, obj.st.ocid)
        \/ Continue("list", EmptyStatus, 0, 0)
    BY <1>1 DEF ReadCurrent, Found
  <2>3. Continue("list", EmptyStatus, 0, 0) => ReadStep
    BY ContinueReads DEF KnownSteps
  <2> QED
    BY <1>c, <1>f, <1>u, <2>1, <2>2, <2>3, ReconcileExistingReads
<1>2. CASE FindExisting
  <2> DEFINE st == IF At("list") THEN call.st ELSE obj.st
  <2>1. st \in Statuses /\ UNCHANGED ociVars
    BY <1>2, <1>c DEF FindExisting
  <2>2. \/ Returns(Failure(st)) \/ Continue("create", st, 0, 0)
        \/ \E i \in OCIDs : Readable(i) /\ ReconcileExisting(st, i)
    BY <1>2 DEF FindExisting, Found
  <2> HIDE DEF st
  <2>3. Continue("create", st, 0, 0) => ReadStep
    BY ContinueReads DEF KnownSteps
  <2> QED
    BY <1>f, <1>u, <2>1, <2>2, <2>3, ReconcileExistingReads
<1>3. CASE Create
  <2>1. obj.uid = 1
    BY <1>c, <1>x, OneIncarnation
  <2>2. CASE Returns(Failure(call.st)) /\ UNCHANGED ociVars
    BY <1>c, <1>f, <1>u, <2>2
  <2>3. ASSUME NEW i \in OCIDs, NEW w \in WorkRequestIDs \cup {0}, CreateAccepted(1, 1, obj.gen, i, w),
               \/ Continue("readCreated", Seed(call.st, "create", w), i, w)
               \/ Returns(Failure(call.st))
        PROVE  ReadStep /\ FormsOK'
    <3>1. FormsOK' /\ res'[i].own # 0 /\ res'[i].gen = obj.gen
      BY <1>c, <1>x, <2>3, CreateForms
    <3>2. Continue("readCreated", Seed(call.st, "create", w), i, w) => ReadStep
      BY <3>1, ContinueReads
    <3> QED
      BY <1>c, <1>f, <2>3, <3>1, <3>2
  <2> QED
    BY <1>3, <2>1, <2>2, <2>3 DEF Create, RetryToken
<1>4. CASE ReadAfterCreate
  <2> DEFINE i == call.id
             state == IF Readable(i) THEN res[i].state ELSE "CREATING"
             after == ApplySuccess(call.st, i, state, "Provisioning")
  <2>1. UNCHANGED ociVars /\ i \in OCIDs /\ res[i].own # 0 /\ res[i].gen = obj.gen
    BY <1>4, <1>x DEF ReadAfterCreate, At, Ready, KnownSteps
  <2>2. Applied(i)
    <3>1. Formed(i) /\ tried.gen = obj.gen /\ tried.gen \in Nat
      BY <1>c, <1>x, <2>1, GenTypes DEF FormsOK, GensHeld
    <3>2. \A k \in Seen(i) : k = obj.gen
      BY <2>1, <3>1 DEF Seen
    <3>3. /\ res[i].spec.comp = Desired.comp /\ res[i].want.comp = Desired.comp
          /\ res[i].spec.body = Desired.body /\ res[i].want.body = Desired.body
      BY <3>1, <3>2 DEF Formed, Desired
    <3>4. res[i].spec.lb = Desired.lb /\ res[i].want.lb = Desired.lb
      BY <2>1, <3>1 DEF Formed, Desired
    <3>5. res[i].spec \in Specs /\ res[i].want \in Specs
      BY <1>c, <2>1 DEF ResType
    <3> QED
      BY <1>c, <2>1, <3>3, <3>4, <3>5 DEF Applied, Specs
  <2>3. \/ Returns(Failure(call.st)) \/ HandlePendingWrite(call.st, i, call.st.async)
        \/ Returns(after)
    BY <1>4 DEF ReadAfterCreate
  <2>4. after \in Statuses /\ (after.reason = "Active" => after.ocid = i)
    BY <1>c, <2>1, ApplySuccessType, ApplySuccessActive
  <2> HIDE DEF after
  <2>5. Returns(after) => ReadStep
    BY <1>u, <2>1, <2>2, <2>4 DEF ReadStep, Shows
  <2>6. call.st.async \in Trackers
    BY <1>c, StatusType
  <2> HIDE DEF i
  <2>7. HandlePendingWrite(call.st, i, call.st.async) => ReadStep
    BY <1>c, <1>u, <2>1, <2>2, <2>6, PendingWriteReads
  <2> QED
    BY <1>c, <1>f, <1>u, <2>1, <2>3, <2>5, <2>7

\* A write that is accepted or not.
<1>w. ASSUME NEW op \in {"update", "move"}, NEW want, NEW next, call.id \in OCIDs,
             CallWrite(op, want, next),
             \/ op = "move" /\ want = [res[call.id].spec EXCEPT !.comp = Desired.comp]
             \/ op = "update" /\ want = [res[call.id].spec EXCEPT !.body = Desired.body],
             ASSUME NEW w \in WorkRequestIDs \cup {0}, WriteAccepted(op, call.id, want, w),
                    res'[call.id].own = res[call.id].own,
                    res'[call.id].spec = res[call.id].spec,
                    Continue(next, Seed(call.st, op, w), call.id, w)
             PROVE  ReadStep
      PROVE  ReadStep /\ FormsOK'
  <2>1. CASE Returns(Failure(call.st)) /\ UNCHANGED ociVars
    BY <1>c, <1>f, <1>u, <2>1
  <2>2. ASSUME NEW w \in WorkRequestIDs \cup {0}, WriteAccepted(op, call.id, want, w),
               \/ Continue(next, Seed(call.st, op, w), call.id, w)
               \/ Returns(Failure(call.st))
        PROVE  ReadStep /\ FormsOK'
    <3>1. /\ FormsOK' /\ res'[call.id].own = res[call.id].own
          /\ res'[call.id].spec = res[call.id].spec
      BY <1>c, <1>w, <1>x, <2>2, WriteForms
    <3> QED
      BY <1>c, <1>f, <1>w, <2>2, <3>1
  <2> QED
    BY <1>w, <2>1, <2>2 DEF CallWrite
<1>5. CASE MoveCompartment
  <2> DEFINE want == [res[call.id].spec EXCEPT !.comp = Desired.comp]
  <2>1. /\ call.id \in OCIDs /\ res[call.id].own # 0 /\ res[call.id].spec.lb = Desired.lb
        /\ CallWrite("move", want, "readMoved")
    BY <1>5, <1>x DEF MoveCompartment, At, Ready, KnownSteps
  <2>2. ASSUME NEW w \in WorkRequestIDs \cup {0}, WriteAccepted("move", call.id, want, w),
               res'[call.id].own = res[call.id].own, res'[call.id].spec = res[call.id].spec,
               Continue("readMoved", Seed(call.st, "move", w), call.id, w)
        PROVE  ReadStep
    <3>2. PendingOperation("move", w) \in Trackers /\ PendingOperation("move", w).wr = w
      BY PendingType DEF Operations
    <3>3. w # 0 => Seed(call.st, "move", w).async = PendingOperation("move", w)
      BY <1>c, <3>2, ApplyFacts DEF Seed
    <3>4. w # 0 => PendingMove(Seed(call.st, "move", w))
      BY <3>3 DEF PendingMove, IsPending, PendingOperation, WorkRequestPhase
    <3> QED
      BY <2>1, <2>2, <3>4, ContinueReads
  <2> HIDE DEF want
  <2>3. want = [res[call.id].spec EXCEPT !.comp = Desired.comp]
    BY DEF want
  <2> QED
    BY <1>w, <2>1, <2>2, <2>3
<1>6. CASE Update
  <2> DEFINE want == [res[call.id].spec EXCEPT !.body = Desired.body]
  <2>1. /\ call.id \in OCIDs /\ res[call.id].own # 0 /\ CallWrite("update", want, "readUpdated")
    BY <1>6, <1>x DEF Update, At, Ready, KnownSteps
  <2>2. ASSUME NEW w \in WorkRequestIDs \cup {0}, WriteAccepted("update", call.id, want, w),
               res'[call.id].own = res[call.id].own, res'[call.id].spec = res[call.id].spec,
               Continue("readUpdated", Seed(call.st, "update", w), call.id, w)
        PROVE  ReadStep
    <3>2. PendingOperation("update", w) \in Trackers /\ PendingOperation("update", w).wr = w
      BY PendingType DEF Operations
    <3>3. w # 0 => Seed(call.st, "update", w).async = PendingOperation("update", w)
      BY <1>c, <3>2, ApplyFacts DEF Seed
    <3>4. w # 0 => Seed(call.st, "update", w).async.class = "pending"
      BY <3>3 DEF PendingOperation
    <3> QED
      BY <2>1, <2>2, <3>4, ContinueReads
  <2> HIDE DEF want
  <2>3. want = [res[call.id].spec EXCEPT !.body = Desired.body]
    BY DEF want
  <2> QED
    BY <1>w, <2>1, <2>2, <2>3
<1>7. CASE ReadAfterMove
  <2> DEFINE i == call.id
             after == ApplySuccess(call.st, i, res[i].state, "Updating")
  <2>1. /\ UNCHANGED ociVars /\ i \in OCIDs /\ res[i].own # 0 /\ res[i].spec.lb = Desired.lb
        /\ At("readMoved") /\ (call.wr # 0 => PendingMove(call.st))
    BY <1>7, <1>x DEF ReadAfterMove, At, Ready, KnownSteps
  <2>2. \/ Returns(Failure(call.st))
        \/ /\ res[i].spec.comp # Desired.comp \/ LifecyclePending(i)
           /\ HandlePendingMove(call.st, i)
        \/ res[i].spec.comp = Desired.comp /\ ReconcileUpdate(call.st, i)
    BY <1>7 DEF ReadAfterMove
  <2>3. HandlePendingMove(call.st, i) =>
          \/ PendingMove(call.st) /\ HandlePendingWrite(call.st, i, call.st.async)
          \/ call.wr = 0 /\ Returns(after)
    BY <2>1 DEF HandlePendingMove
  <2>4. call.st.async \in Trackers /\ (PendingMove(call.st) => call.st.async.class = "pending")
    BY <1>c, StatusType DEF PendingMove, IsPending
  <2>5. after \in Statuses /\ (after.reason = "Active" => ~LifecyclePending(i))
    BY <1>c, <2>1, ApplySuccessType, ApplySuccessActive DEF LifecyclePending
  <2> HIDE DEF after
  <2>6. ASSUME call.wr = 0, Returns(after), res[i].spec.comp # Desired.comp \/ LifecyclePending(i)
        PROVE  ReadStep
    <3>1. Shows(after) \/ UntrackedMove
      BY <2>1, <2>5, <2>6 DEF Shows, UntrackedMove
    <3> QED
      BY <2>5, <2>6, <3>1 DEF ReadStep
  <2> HIDE DEF i
  <2>7. PendingMove(call.st) /\ HandlePendingWrite(call.st, i, call.st.async) => ReadStep
    BY <1>c, <1>u, <2>1, <2>4, PendingWriteReads
  <2>8. res[i].spec.comp = Desired.comp /\ ReconcileUpdate(call.st, i) => ReadStep
    BY <1>c, <1>u, <2>1, ReconcileUpdateReads
  <2> QED
    BY <1>c, <1>f, <1>u, <2>1, <2>2, <2>3, <2>6, <2>7, <2>8
<1>8. CASE ReadAfterUpdate
  <2> DEFINE i == call.id
             pending == IF call.wr # 0 THEN call.st.async ELSE PendingOperation("update", 0)
             after == ApplySuccess(call.st, i, res[i].state, "Updating")
  <2>1. UNCHANGED ociVars /\ i \in OCIDs /\ res[i].own # 0
    BY <1>8, <1>x DEF ReadAfterUpdate, At, Ready, KnownSteps
  <2>2. pending \in Trackers /\ pending.class = "pending"
    <3>1. call.wr # 0 => call.st.async.class = "pending" /\ call.st.async \in Trackers
      BY <1>8, <1>c, <1>x, StatusType DEF ReadAfterUpdate, At, Ready
    <3>2. PendingOperation("update", 0) \in Trackers /\ PendingOperation("update", 0).class = "pending"
      BY PendingType DEF Operations, PendingOperation
    <3> QED
      BY <3>1, <3>2
  <2>3. \/ Returns(Failure(call.st)) \/ HandlePendingWrite(call.st, i, pending)
        \/ res[i].spec = Desired /\ Returns(after)
    BY <1>8 DEF ReadAfterUpdate, WriteReadbackPending
  <2>4. res[i].spec = Desired => Applied(i)
    BY <1>c, <1>x, <2>1, ReadIsApplied DEF FormsOK
  <2>5. after \in Statuses /\ (after.reason = "Active" => after.ocid = i)
    BY <1>c, <2>1, ApplySuccessType, ApplySuccessActive
  <2> HIDE DEF i, pending, after
  <2>6. res[i].spec = Desired /\ Returns(after) => ReadStep
    BY <1>u, <2>1, <2>4, <2>5 DEF ReadStep, Shows
  <2>7. HandlePendingWrite(call.st, i, pending) => ReadStep
    BY <1>c, <1>u, <2>1, <2>2, PendingWriteReads
  <2> QED
    BY <1>c, <1>f, <1>u, <2>1, <2>3, <2>6, <2>7
<1>9. CASE PollPendingWorkRequest
  <2> DEFINE st == call.st
             wr == st.async.wr
  <2>1. UNCHANGED ociVars /\ wr \in WorkRequestIDs /\ call.id \in OCIDs \cup {0}
    BY <1>9, <1>c, CallFacts DEF PollPendingWorkRequest, At, PollSteps
  <2>2. \/ Returns(FailWorkRequest(st, st.async)) \/ Returns(FailWorkRequest(st, Observed(wr)))
        \/ Returns(MarkObservedWorkRequest([st EXCEPT !.ocid = call.id], Observed(wr)))
    BY <1>9 DEF PollPendingWorkRequest
  <2>3. [st EXCEPT !.ocid = call.id] \in Statuses /\ st.async \in Trackers
    BY <1>c, <2>1, StatusType
  <2>4. \A class \in {"failed", "pending"} :
           /\ [Observed(wr) EXCEPT !.class = class] \in Trackers
           /\ [Observed(wr) EXCEPT !.class = class].class = class
    <3>1. WorkRequestPhase(wrs[wr].op) \in A!Phases \cup {""} /\ wrs[wr].op \in Operations \cup {""}
      BY <1>c, <2>1, PhaseType DEF WrsType
    <3> QED
      BY <2>1, <3>1 DEF Observed, Trackers, A!Classes
  <2>5. [st.async EXCEPT !.class = "failed"] \in Trackers /\ [st.async EXCEPT !.class = "failed"].class = "failed"
    BY <2>3 DEF Trackers, A!Classes
  <2> HIDE DEF wr
  <2>6. /\ FailWorkRequest(st, st.async).reason # "Active"
        /\ FailWorkRequest(st, Observed(wr)).reason # "Active"
        /\ MarkObservedWorkRequest([st EXCEPT !.ocid = call.id], Observed(wr)).reason # "Active"
    BY <1>c, <2>3, <2>4, <2>5, NotActive DEF FailWorkRequest, MarkObservedWorkRequest
  <2>7. /\ FailWorkRequest(st, st.async) \in Statuses
        /\ FailWorkRequest(st, Observed(wr)) \in Statuses
        /\ MarkObservedWorkRequest([st EXCEPT !.ocid = call.id], Observed(wr)) \in Statuses
    BY <1>c, <2>3, <2>4, <2>5, ApplyType DEF FailWorkRequest, MarkObservedWorkRequest
  <2> QED
    BY <1>u, <2>1, <2>2, <2>6, <2>7 DEF ReadStep, Shows
<1> QED
  BY <1>1, <1>2, <1>3, <1>4, <1>5, <1>6, <1>7, <1>8, <1>9 DEF CreateOrUpdate

\* Delete asks for nothing new either.
LEMMA DeleteForms ==
    ASSUME AInv, ResourcesOnce, GensHeld, FormsOK, UNCHANGED <<spec, tried>>, DeleteStep
    PROVE  FormsOK'
<1>c. RP!IInv /\ CallOK /\ SpecOK /\ ResType
  BY DEF AInv, StateOK
<1>u. UNCHANGED ociVars => FormsOK'
  <2> SUFFICES ASSUME UNCHANGED ociVars PROVE FormsOK'
    OBVIOUS
  <2>1. UNCHANGED <<res, spec, tried>>
    BY DEF ociVars
  <2>2. ASSUME NEW i \in OCIDs PROVE Formed(i) => Formed(i)'
    BY <2>1 DEF Formed, Seen
  <2> QED
    BY <2>1, <2>2 DEF FormsOK
<1>1. CASE RequestDelete
  <2>1. call.id \in OCIDs
    BY <1>1, <1>c, CallFacts DEF RequestDelete, At, WriteSteps
  <2>2. \/ UNCHANGED ociVars
        \/ \E w \in WorkRequestIDs \cup {0} : WriteAccepted("delete", call.id, res[call.id].spec, w)
    BY <1>1 DEF RequestDelete
  <2> QED
    BY <1>c, <1>u, <2>1, <2>2, WriteForms
<1>2. CASE ~RequestDelete
  BY <1>2, <1>u DEF DeleteStep, Delete, GuardPoll, GuardLifecycle, GuardSucceeded, PreRead,
                    ConfirmDeleted, PollDelete, ConfirmSucceeded
<1> QED
  BY <1>1, <1>2

-----------------------------------------------------------------------------
(* The inductive invariant. *)

BInv ==
    /\ AInv /\ RP!UidBounded /\ EndsInLog /\ ResourcesOnce
    /\ GensInLog /\ GensHeld /\ FormsOK /\ Reading

LEMMA InitBInv == MaxUid = 1 /\ Init => BInv
<1> SUFFICES ASSUME MaxUid = 1, Init PROVE BInv
  OBVIOUS
<1>1. AInv /\ RP!UidBounded /\ EndsInLog /\ ResourcesOnce
  BY InitCInv DEF CInv
<1>2. /\ Len(log) = 1 /\ ~log[1].ex /\ pc = "idle" /\ call = NoCall /\ tried.gen = 0
      /\ Len(spec) >= 1
  <2>1. Len(spec) = 1
    BY DEF Init, Written
  <2>2. Len(spec) >= 1
    BY <2>1
  <2> QED
    BY <2>2 DEF Init, R!Init, R!Gone
<1>3. GensInLog /\ GensHeld
  <2>1. \A k \in 1 .. Len(log) : ~log[k].ex
    BY <1>2
  <2>2. tried.gen <= Len(spec)
    <3>1. Len(spec) \in Nat
      BY <1>1 DEF AInv, SpecOK, SpecInLog
    <3> QED
      BY <1>2, <3>1
  <2> QED
    BY <1>2, <2>1, <2>2 DEF GensInLog, GensHeld, AllLater
<1>4. FormsOK
  BY DEF Init, FormsOK
<1>5. Reading
  <2>1. call.step = "none"
    BY <1>2 DEF NoCall
  <2> QED
    BY <1>2, <2>1 DEF Reading, Ready, KnownSteps
<1> QED
  BY <1>1, <1>3, <1>4, <1>5 DEF BInv

\* The call and the object stay as they are, and so does what is wanted.
LEMMA HeldReads ==
    ASSUME MaxUid = 1, BInv, AInv', [Next]_vars, UNCHANGED <<pc, obj, call>>,
           \A i \in OCIDs : res[i].own # 0 => KeepsForm(i)
    PROVE  Reading'
<1>a. /\ RP!IInv /\ CallOK /\ SpecOK /\ ResType /\ WrsType /\ RP!IInv' /\ SpecOK'
      /\ EndsInLog /\ GensInLog /\ GensHeld /\ FormsOK
  BY DEF BInv, AInv, StateOK
<1>s. \A k \in 1 .. tried.gen : spec'[k] = spec[k]
  BY <1>a, SeenSpecs
<1>d. pc = "createOrUpdate" => Desired' = Desired
  BY <1>a, <1>s, GenTypes DEF GensHeld, Desired
<1>1. CASE call.step \notin KnownSteps
  BY <1>1 DEF Reading, Ready, KnownSteps
<1>2. CASE call.step \in KnownSteps
  <2>1. pc = "createOrUpdate" /\ call.id \in OCIDs /\ res[call.id].own # 0
    BY <1>a, <1>2 DEF BInv, Reading, Ready, CallOK, KnownSteps, CreateSteps
  <2>2. KeepsForm(call.id) /\ res[call.id].want.lb = res[call.id].spec.lb
    BY <1>a, <2>1 DEF FormsOK, Formed
  <2>3. /\ res'[call.id].own = res[call.id].own /\ res'[call.id].gen = res[call.id].gen
        /\ res'[call.id].spec.lb = res[call.id].spec.lb
    BY <2>2 DEF KeepsForm
  <2>4. PendingMove(call.st)' = PendingMove(call.st)
    BY DEF PendingMove, IsPending
  <2> QED
    BY <1>d, <2>1, <2>3, <2>4 DEF BInv, Reading, Ready
<1> QED
  BY <1>1, <1>2

LEMMA BInvInductive == MaxUid = 1 /\ NoneTakenBack /\ BInv /\ [Next]_vars => BInv'
<1> SUFFICES ASSUME MaxUid = 1, NoneTakenBack, BInv, [Next]_vars PROVE BInv'
  OBVIOUS
<1>1. AInv'
  BY AInvInductive DEF BInv
<1>a. /\ RP!IInv /\ CallOK /\ SpecOK /\ ResType /\ WrsType /\ Owners /\ RP!IInv' /\ SpecOK'
      /\ CallOK' /\ EndsInLog /\ GensInLog /\ GensHeld /\ FormsOK /\ ResourcesOnce /\ RP!UidBounded
      /\ AInv /\ Reading /\ troubles \in Nat
  BY <1>1, WaaAssumption DEF BInv, AInv, StateOK
<1>2. RP!UidBounded'
  <2>1. [RP!Next]_(RP!vars)
    BY <1>a, StepRefines, NamedStep, SameReconcilerVars, SameNext, SameVars
  <2> QED
    BY <1>a, <2>1, StatusFits, BoundsFit, RP!BoundedInductive
<1>3. EndsInLog' /\ ResourcesOnce'
  BY <1>1, <1>a, EndsInductive, ResourcesInductive
<1>4. GensInLog' /\ tried.gen <= tried'.gen
  BY <1>a, GensInductive
<1>5. GensHeld' /\ \A k \in 1 .. tried.gen : spec'[k] = spec[k]
  BY <1>a, SeenSpecs

\* The resources keep their form.
<1>k. ASSUME \A i \in OCIDs : res'[i].own = res[i].own /\ (res[i].own # 0 => KeepsForm(i))
      PROVE  FormsOK'
  BY <1>a, <1>k, <1>4, <1>5, FormKept DEF FormsOK
<1>n. call' = NoCall => Reading'
  BY DEF NoCall, Reading, Ready, KnownSteps
<1>6. CASE Kubernetes \/ UNCHANGED vars
  <2>1. UNCHANGED <<res, call>>
    BY <1>6 DEF Kubernetes, ociVars, vars
  <2>2. \A i \in OCIDs : res'[i].own = res[i].own /\ KeepsForm(i)
    BY <2>1 DEF KeepsForm
  <2>3. CASE UNCHANGED <<pc, obj>>
    BY <1>1, <2>1, <2>2, <2>3, HeldReads, <1>k, <1>2, <1>3, <1>4, <1>5 DEF BInv
  <2>4. CASE ~UNCHANGED <<pc, obj>>
    <3>0. Kubernetes
      BY <1>6, <2>4 DEF vars, reconcilerVars
    <3>1. call.step \notin CreateSteps
      BY <1>a, <2>4, <3>0, KubernetesKeepsHeld DEF CallOK
    <3>2. Reading'
      BY <2>1, <3>1 DEF Reading, Ready, KnownSteps, CreateSteps
    <3> QED
      BY <1>1, <1>2, <1>3, <1>4, <1>5, <1>k, <2>2, <3>2 DEF BInv
  <2> QED
    BY <2>3, <2>4
<1>7. CASE Restart
  <2>1. UNCHANGED res /\ call' = NoCall /\ pc' = "idle"
    BY <1>7 DEF Restart, R!Restart, ociVars
  <2>2. \A i \in OCIDs : res'[i].own = res[i].own /\ KeepsForm(i)
    BY <2>1 DEF KeepsForm
  <2> QED
    BY <1>1, <1>2, <1>3, <1>4, <1>5, <1>k, <1>n, <2>1, <2>2 DEF BInv
<1>8. CASE Oci /\ UNCHANGED otherVars
  <2>1. UNCHANGED <<pc, obj, call>>
    BY <1>8 DEF otherVars, reconcilerVars
  <2>2. \A i \in OCIDs : res[i].own # 0 => KeepsForm(i)
    BY <1>8, <1>a, OciForms
  <2>3. \A i \in OCIDs : res'[i].own = res[i].own
    BY <1>8, <1>a, OciStepKept DEF ResKept
  <2> QED
    BY <1>1, <1>2, <1>3, <1>4, <1>5, <1>k, <2>1, <2>2, <2>3, HeldReads DEF BInv
<1>9. CASE Manager
  <2>1. CallStep /\ UNCHANGED spec
    BY <1>9, <1>a, ReconcilerFacts, CreateStepOK, DeleteStepOK DEF Manager
  <2>2. UNCHANGED tried
    BY <2>1 DEF CallStep, reconcilerVars, R!CreateOrUpdateReturns, R!DeleteReturns, R!histVars
  <2>3. CASE CreateOrUpdate
    <3>1. pc = "createOrUpdate"
      BY <1>a, <2>3, StepInCall
    <3>2. ReadContext
      BY <1>a, <3>1 DEF ReadContext
    <3>3. ReadStep /\ FormsOK'
      BY <1>a, <2>1, <2>2, <2>3, <3>2, CreateReads
    <3>4. Reading'
      BY <1>n, <3>3 DEF ReadStep, Returns
    <3> QED
      BY <1>1, <1>2, <1>3, <1>4, <1>5, <3>3, <3>4 DEF BInv
  <2>4. CASE DeleteStep
    <3>1. pc = "delete" /\ FormsOK'
      BY <1>a, <2>1, <2>2, <2>4, StepInCall, DeleteForms
    <3>2. Reading'
      <4>1. CASE call' = NoCall
        BY <1>n, <4>1
      <4>2. CASE UNCHANGED reconcilerVars /\ CallOK'
        <5>1. call'.step \notin CreateSteps
          BY <3>1, <4>2 DEF CallOK, reconcilerVars
        <5> QED
          BY <5>1 DEF Reading, Ready, KnownSteps, CreateSteps
      <4> QED
        BY <2>1, <4>1, <4>2 DEF CallStep
    <3> QED
      BY <1>1, <1>2, <1>3, <1>4, <1>5, <3>1, <3>2 DEF BInv
  <2> QED
    BY <1>9, <2>3, <2>4 DEF Manager
<1> QED
  BY <1>6, <1>7, <1>8, <1>9 DEF Next

\* A step that reports Active is one of CreateOrUpdate that shows it.
LEMMA AppliedStep ==
    ASSUME MaxUid = 1, NoneTakenBack, BInv, [Next]_vars,
           pc # "patchStatus", pc' = "patchStatus", obj'.st.reason = "Active"
    PROVE  \/ UntrackedMove
           \/ /\ obj'.st.ocid # 0
              /\ res[obj'.st.ocid].spec = Desired /\ res[obj'.st.ocid].want = Desired
<1>a. /\ AInv /\ RP!IInv /\ CallOK /\ SpecOK /\ ResType /\ WrsType /\ Owners /\ GensHeld /\ FormsOK
      /\ ResourcesOnce /\ Reading /\ RP!UidBounded
  BY DEF BInv, AInv, StateOK
<1>1. Manager
  <2>1. CASE Restart
    BY <2>1 DEF Restart, R!Restart
  <2> QED
    BY <1>a, HeldStep
<1>2. CallStep /\ UNCHANGED spec
  BY <1>1, <1>a, ReconcilerFacts, CreateStepOK, DeleteStepOK DEF Manager
<1>3. UNCHANGED tried
  BY <1>2 DEF CallStep, reconcilerVars, R!CreateOrUpdateReturns, R!DeleteReturns, R!histVars
<1>4. ~DeleteStep
  <2>1. DeleteStep => pc = "delete"
    BY <1>a, StepInCall
  <2> QED
    BY <1>2, <2>1 DEF CallStep, reconcilerVars, R!CreateOrUpdateReturns, R!DeleteReturns, R!Finish
<1>5. CreateOrUpdate /\ pc = "createOrUpdate"
  BY <1>a, <1>1, <1>4, StepInCall DEF Manager
<1>6. ReadContext
  BY <1>a, <1>5 DEF ReadContext
<1>7. ReadStep
  BY <1>a, <1>2, <1>3, <1>5, <1>6, CreateReads
<1>8. PICK st \in Statuses : Returns(st) /\ (Shows(st) \/ UntrackedMove)
  BY <1>7 DEF ReadStep, reconcilerVars
<1>9. obj'.st = st
  <2>1. obj' = [obj EXCEPT !.st = st] /\ obj \in R!Version
    BY <1>a, <1>8, ReconcilerFacts DEF Returns, R!CreateOrUpdateReturns
  <2> QED
    BY <2>1 DEF R!Version
<1> QED
  BY <1>8, <1>9, WaaAssumption DEF Shows, Applied

\* While an object is created once and no user takes a change of compartment or
\* fields back, a CreateOrUpdate that reports Active, and so asks for no requeue,
\* leaves the resource as the generation it was called on wants it, for any
\* number of resources, work requests, edits, failures, restarts and undelivered
\* events, and whichever operations may be answered without a work request:
\* neither an accepted write that no read shows yet nor a work request that
\* succeeds early makes it report Active too soon.  The exception is in
\* ActiveMeansApplied: a read after a move without a work request that shows the
\* old compartment.  Where a change is taken back the property is false: see the
\* README.
THEOREM ActiveAccelerationApplied ==
    MaxUid = 1 /\ NoneTakenBack => (Spec => ActiveMeansApplied)
<1> SUFFICES ASSUME MaxUid = 1, NoneTakenBack PROVE Spec => ActiveMeansApplied
  OBVIOUS
<1>1. Init => BInv
  BY InitBInv
<1>2. BInv /\ [Next]_vars => BInv'
  BY BInvInductive
<1>3. BInv /\ [Next]_vars =>
        [pc # "patchStatus" /\ pc' = "patchStatus" /\ obj'.st.reason = "Active" =>
           \/ UntrackedMove
           \/ /\ obj'.st.ocid # 0
              /\ res[obj'.st.ocid].spec = Desired /\ res[obj'.st.ocid].want = Desired]_vars
  BY AppliedStep
<1> QED
  BY <1>1, <1>2, <1>3, PTL DEF Spec, ActiveMeansApplied
=============================================================================
