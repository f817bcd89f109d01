-------------------------- MODULE ReconcilerProofs --------------------------
(***************************************************************************)
(* Proofs about Reconciler, for every set of status values, every merge of *)
(* a status patch, every service manager and every value of the bounds.    *)
(***************************************************************************)
EXTENDS Reconciler, TLAPS

Last(s) == s[Len(s)]

\* Appending a version keeps the earlier ones and makes it the last one.
LEMMA AppendVersion ==
    ASSUME NEW S, NEW s \in Seq(S), NEW v \in S
    PROVE  /\ Append(s, v) \in Seq(S)
           /\ Len(Append(s, v)) = Len(s) + 1
           /\ \A i \in 1 .. Len(s) : Append(s, v)[i] = s[i]
           /\ Last(Append(s, v)) = v
  BY DEF Last

\* Dropping the first of several versions keeps the last one.
LEMMA TailVersion ==
    ASSUME NEW S, NEW s \in Seq(S), Len(s) > 1
    PROVE  /\ Tail(s) \in Seq(S)
           /\ Len(Tail(s)) = Len(s) - 1
           /\ \A i \in 1 .. Len(s) - 1 : Tail(s)[i] = s[i + 1]
           /\ Last(Tail(s)) = Last(s)
  BY DEF Last

-----------------------------------------------------------------------------
(* Type correctness. *)

LEMMA GoneType == \A u \in Nat : Gone(u) \in Version
  BY StatusAssumption DEF Gone, Version

\* What Store leaves in the log.
Stored(v) == IF v.del /\ ~v.fin /\ ~v.ext THEN Gone(v.uid) ELSE v

LEMMA StoreEffect ==
    ASSUME TypeOK, Room, NEW v \in Version, Store(v)
    PROVE  /\ Stored(v) \in Version
           /\ log' \in Seq(Version)
           /\ Len(log') \in 1 .. MaxLag + 1
           /\ Len(log') = Len(log) + 1
           /\ \A i \in 1 .. Len(log) : log'[i] = log[i]
           /\ Api' = Stored(v)
<1>1. Stored(v) \in Version
  BY GoneType DEF Stored, Version
<1>2. log' = Append(log, Stored(v))
  BY DEF Store, Stored
<1>3. log \in Seq(Version) /\ Len(log) \in 1 .. MaxLag + 1 /\ Len(log) <= MaxLag
  BY DEF TypeOK, Room
<1>4. Len(log) \in Nat /\ MaxLag \in Nat
  BY <1>3, BoundsAssumption
<1> QED
  BY <1>1, <1>2, <1>3, <1>4, AppendVersion DEF Last, Api

LEMMA VersionsInLog ==
    ASSUME TypeOK
    PROVE  /\ Api \in Version
           /\ Cached \in Version
           /\ \A i \in 1 .. Len(log) : log[i] \in Version
           /\ Len(log) \in Nat /\ Len(log) >= 1
  BY DEF TypeOK, Api, Cached

LEMMA FinishType == \A b \in BOOLEAN : TypeOK /\ Finish(b) =>
    /\ pc' \in Steps /\ timer' \in BOOLEAN /\ obj' \in Version
    /\ old' \in Status /\ fresh' \in BOOLEAN /\ resp' \in Responses
<1> SUFFICES ASSUME NEW b \in BOOLEAN, TypeOK, Finish(b)
             PROVE  /\ pc' \in Steps /\ timer' \in BOOLEAN /\ obj' \in Version
                    /\ old' \in Status /\ fresh' \in BOOLEAN /\ resp' \in Responses
  OBVIOUS
<1>1. timer' \in BOOLEAN /\ pc' \in Steps /\ fresh' \in BOOLEAN
  BY DEF Finish, TypeOK, Steps
<1>2. obj' \in Version /\ old' \in Status
  BY GoneType, StatusAssumption DEF Finish
<1>3. resp' \in Responses
  BY DEF Finish, NoResponse, Responses
<1> QED
  BY <1>1, <1>2, <1>3

LEMMA CallType == \A v \in Version : TypeOK /\ CallCreateOrUpdate(v) =>
    /\ pc' \in Steps /\ obj' \in Version /\ old' \in Status
    /\ touched' \subseteq Nat /\ tried' \in [uid : Nat, gen : Nat]
<1> SUFFICES ASSUME NEW v \in Version, TypeOK, CallCreateOrUpdate(v)
             PROVE  /\ pc' \in Steps /\ obj' \in Version /\ old' \in Status
                    /\ touched' \subseteq Nat /\ tried' \in [uid : Nat, gen : Nat]
  OBVIOUS
<1>1. v.uid \in Nat /\ v.gen \in Nat /\ v.st \in Status
  BY DEF Version
<1>2. touched' \subseteq Nat
  BY <1>1 DEF CallCreateOrUpdate, TypeOK
<1>3. tried' \in [uid : Nat, gen : Nat]
  BY <1>1 DEF CallCreateOrUpdate
<1> QED
  BY <1>1, <1>2, <1>3 DEF CallCreateOrUpdate, Steps

LEMMA PatchType == TypeOK /\ PatchApplied =>
    log' \in Seq(Version) /\ Len(log') \in 1 .. MaxLag + 1
<1> SUFFICES ASSUME TypeOK, PatchApplied
             PROVE  log' \in Seq(Version) /\ Len(log') \in 1 .. MaxLag + 1
  OBVIOUS
<1> DEFINE st == MergePatch(Api.st, old, obj.st)
<1>1. Api \in Version /\ obj \in Version /\ old \in Status
  BY VersionsInLog DEF TypeOK
<1>2. st \in Status
  BY <1>1, StatusAssumption DEF Version
<1>3. [Api EXCEPT !.st = st] \in Version
  BY <1>1, <1>2 DEF Version
<1>4. CASE UNCHANGED log
  BY <1>4 DEF TypeOK
<1>5. CASE Room /\ Store([Api EXCEPT !.st = st])
  BY <1>3, <1>5, StoreEffect
<1> QED
  BY <1>4, <1>5 DEF PatchApplied

LEMMA TypeInductive == TypeOK /\ [Next]_vars => TypeOK'
<1> SUFFICES ASSUME TypeOK, [Next]_vars PROVE TypeOK'
  OBVIOUS
<1>v. Api \in Version /\ Cached \in Version /\ obj \in Version /\ Len(log) \in Nat
  BY VersionsInLog DEF TypeOK
<1>u. ASSUME NEW v \in Version, StoreByOther(v),
             UNCHANGED <<queued, timer, pc, obj, old, resp, crashes, histVars>>
      PROVE  TypeOK'
  <2>1. log' \in Seq(Version) /\ Len(log') \in 1 .. MaxLag + 1 /\ fresh' = FALSE
    BY <1>u, StoreEffect DEF StoreByOther
  <2> QED
    BY <1>u, <2>1 DEF TypeOK, histVars
<1>1. CASE UserCreate
  <2> PICK e \in BOOLEAN :
         StoreByOther([ex |-> TRUE, uid |-> Api.uid + 1, gen |-> 1, fin |-> FALSE,
                       ext |-> e, del |-> FALSE, st |-> EmptyStatus])
    BY <1>1 DEF UserCreate
  <2>1. [ex |-> TRUE, uid |-> Api.uid + 1, gen |-> 1, fin |-> FALSE,
         ext |-> e, del |-> FALSE, st |-> EmptyStatus] \in Version
    BY <1>v, StatusAssumption DEF Version
  <2> QED
    BY <1>1, <1>u, <2>1 DEF UserCreate
<1>2. CASE UserEditSpec
  <2>1. [Api EXCEPT !.gen = @ + 1] \in Version
    BY <1>v DEF Version
  <2> QED
    BY <1>2, <1>u, <2>1 DEF UserEditSpec
<1>3. CASE UserDelete
  <2>0. Api.gen + 1 \in Nat
    BY <1>v DEF Version
  <2>1. [Api EXCEPT !.del = TRUE, !.gen = @ + 1] \in Version
    BY <1>v, <2>0 DEF Version
  <2> QED
    BY <1>3, <1>u, <2>1 DEF UserDelete
<1>4. CASE OtherFinalizerRemoved
  <2>1. [Api EXCEPT !.ext = FALSE] \in Version
    BY <1>v DEF Version
  <2> QED
    BY <1>4, <1>u, <2>1 DEF OtherFinalizerRemoved
<1>5. CASE Deliver
  <2>1. log' \in Seq(Version) /\ Len(log') \in 1 .. MaxLag + 1
    BY <1>5, TailVersion, BoundsAssumption DEF Deliver, TypeOK
  <2>2. queued' \in BOOLEAN
    BY <1>5 DEF Deliver, TypeOK
  <2> QED
    BY <1>5, <2>1, <2>2 DEF Deliver, TypeOK, histVars
<1>6. CASE TimerFires
  BY <1>6 DEF TimerFires, TypeOK, apiVars, histVars
<1>7. CASE Restart
  <2>1. log' \in Seq(Version) /\ Len(log') \in 1 .. MaxLag + 1
    BY <1>7, <1>v, BoundsAssumption DEF Restart
  <2>2. queued' \in BOOLEAN /\ crashes' \in 0 .. MaxCrashes
    BY <1>7, <1>v, BoundsAssumption DEF Restart, TypeOK, Version
  <2>3. obj' \in Version /\ old' \in Status /\ resp' \in Responses
    BY <1>7, GoneType, StatusAssumption DEF Restart, NoResponse, Responses
  <2> QED
    BY <1>7, <2>1, <2>2, <2>3 DEF Restart, TypeOK, Steps, histVars
<1>8. CASE Start
  <2>1. CASE ~Cached.ex /\ UNCHANGED <<pc, obj, old, fresh, touched, tried>>
    BY <1>8, <2>1 DEF Start, TypeOK, apiVars
  <2>2. CASE pc' = "delete" /\ obj' = Cached /\ old' = Cached.st /\ UNCHANGED <<touched, tried>>
             /\ fresh' = (Len(log) = 1)
    BY <1>8, <1>v, <2>2 DEF Start, TypeOK, apiVars, Version, Steps
  <2>3. CASE pc' = "addFinalizer" /\ obj' = Cached /\ UNCHANGED <<old, touched, tried>>
             /\ fresh' = (Len(log) = 1)
    BY <1>8, <1>v, <2>3 DEF Start, TypeOK, apiVars, Steps
  <2>4. CASE CallCreateOrUpdate(Cached) /\ fresh' = (Len(log) = 1)
    BY <1>8, <1>v, <2>4, CallType DEF Start, TypeOK, apiVars
  <2> QED
    BY <1>8, <2>1, <2>2, <2>3, <2>4 DEF Start
<1>9. CASE AddFinalizer
  <2>1. [obj EXCEPT !.fin = TRUE] \in Version
    BY <1>v DEF Version
  <2>2. log' \in Seq(Version) /\ Len(log') \in 1 .. MaxLag + 1
    BY <1>9, <2>1, StoreEffect DEF AddFinalizer, UpdateAccepted
  <2> QED
    BY <1>9, <2>1, <2>2, CallType DEF AddFinalizer, TypeOK
<1>10. CASE FinalizerUpdateFails
  BY <1>10, FinishType DEF FinalizerUpdateFails, TypeOK, apiVars, histVars
<1>11. CASE PatchStatus
  <2>1. log' \in Seq(Version) /\ Len(log') \in 1 .. MaxLag + 1
    BY <1>11, PatchType DEF PatchStatus, TypeOK
  <2>2. \E b \in BOOLEAN : Finish(b)
    BY <1>11 DEF PatchStatus, RequeueOf, TypeOK, Responses
  <2> QED
    BY <1>11, <2>1, <2>2, FinishType DEF PatchStatus, TypeOK, histVars
<1>12. CASE PatchDeleteStatus
  <2>1. log' \in Seq(Version) /\ Len(log') \in 1 .. MaxLag + 1
    BY <1>12, PatchType DEF PatchDeleteStatus, TypeOK
  <2> QED
    BY <1>12, <2>1, FinishType DEF PatchDeleteStatus, TypeOK, histVars
<1>13. CASE RemoveFinalizer
  <2>1. [Api EXCEPT !.fin = FALSE] \in Version
    BY <1>v DEF Version
  <2>2. log' \in Seq(Version) /\ Len(log') \in 1 .. MaxLag + 1
    BY <1>13, <2>1, StoreEffect DEF RemoveFinalizer, UpdateAccepted
  <2> QED
    BY <1>13, <2>2, FinishType DEF RemoveFinalizer, TypeOK, histVars
<1>14. CASE \E st \in Status, r \in AnyResponses : CreateOrUpdateReturns(st, r)
  <2> PICK st \in Status, r \in AnyResponses : CreateOrUpdateReturns(st, r)
    BY <1>14
  <2>1. [obj EXCEPT !.st = st] \in Version /\ r \in Responses
    BY <1>v DEF Version, AnyResponses
  <2> QED
    BY <2>1 DEF CreateOrUpdateReturns, TypeOK, Steps, apiVars, histVars
<1>15. CASE \E st \in Status, out \in DeleteOutcomes : DeleteReturns(st, out)
  <2> PICK st \in Status, out \in DeleteOutcomes : DeleteReturns(st, out)
    BY <1>15
  <2>1. [obj EXCEPT !.st = st] \in Version /\ obj.uid \in Nat
    BY <1>v DEF Version
  <2>2. CASE Finish(TRUE) /\ UNCHANGED confirmed
    BY <2>2, FinishType DEF DeleteReturns, TypeOK, apiVars
  <2>3. CASE pc' \in {"removeFinalizer", "patchDeleteStatus"}
    BY <2>1, <2>3 DEF DeleteReturns, TypeOK, Steps, apiVars, Finish
  <2> QED
    BY <2>2, <2>3 DEF DeleteReturns
<1>16. CASE UNCHANGED vars
  BY <1>16 DEF vars, apiVars, ctrlVars, histVars, TypeOK
<1> QED
  BY <1>1, <1>2, <1>3, <1>4, <1>5, <1>6, <1>7, <1>8, <1>9, <1>10, <1>11, <1>12,
     <1>13, <1>14, <1>15, <1>16 DEF Next, Environment, Controller, ServiceManager

LEMMA InitType == Init => TypeOK
<1> SUFFICES ASSUME Init PROVE TypeOK
  OBVIOUS
<1>1. log \in Seq(Version) /\ Len(log) \in 1 .. MaxLag + 1
  BY GoneType, BoundsAssumption DEF Init
<1>2. resp \in Responses /\ obj \in Version /\ old \in Status
  BY GoneType, StatusAssumption DEF Init, NoResponse, Responses
<1>3. crashes \in 0 .. MaxCrashes /\ tried \in [uid : Nat, gen : Nat]
  BY BoundsAssumption DEF Init
<1> QED
  BY <1>1, <1>2, <1>3 DEF Init, TypeOK, Steps

\* Every variable of the reconciler stays within its type, and the watch
\* backlog within its bound.
THEOREM TypeCorrect == Spec => []TypeOK
  BY InitType, TypeInductive, PTL DEF Spec

-----------------------------------------------------------------------------
(* Finalizer retention.  The two properties are not inductive: they rest on  *)
(* what the versions between the cache and the store can look like, and on   *)
(* what the running reconcile knows of the object it holds.                  *)

Indices == 1 .. Len(log)

\* Along the log, incarnations only grow, and a deletion is never taken back.
LogOrdered ==
    \A i, j \in Indices : i <= j =>
        /\ log[i].uid <= log[j].uid
        /\ log[i].uid = log[j].uid /\ log[i].ex /\ log[i].del /\ log[j].ex => log[j].del

\* Wherever the finalizer is seen, CreateOrUpdate has been called.
FinalizerMeansTouched ==
    \A i \in Indices : log[i].ex /\ log[i].fin => log[i].uid \in touched

\* A confirmed incarnation is seen only as one that is being deleted.
ConfirmedIsDeleting ==
    /\ \A i \in Indices : log[i].ex /\ log[i].uid \in confirmed => log[i].del
    /\ \A u \in confirmed : u <= Api.uid

\* The object held on the delete path is no newer than the cache, and is
\* being deleted in every version that is still on its way.
HeldIsDeleting ==
    pc \in {"delete", "patchDeleteStatus", "removeFinalizer"} =>
        \A i \in Indices :
            /\ obj.uid <= log[i].uid
            /\ log[i].uid = obj.uid /\ log[i].ex => log[i].del

\* The version held is the stored one, but for the status, while it is fresh.
HeldIsStored ==
    pc # "idle" /\ fresh =>
        /\ Api.ex /\ Api.uid = obj.uid
        /\ Api.fin = obj.fin /\ Api.ext = obj.ext /\ Api.del = obj.del

\* What the step says of the object held.
HeldInStep ==
    /\ pc = "addFinalizer" => obj.ex /\ ~obj.fin
    /\ pc = "removeFinalizer" => obj.uid \in confirmed

Safe == FinalizerRetention /\ CreateOnGuardedObject

IInv ==
    /\ TypeOK
    /\ LogOrdered
    /\ FinalizerMeansTouched
    /\ ConfirmedIsDeleting
    /\ HeldIsDeleting
    /\ HeldIsStored
    /\ HeldInStep
    /\ Safe

\* Incarnation u is no newer than any version of log l, and is being deleted
\* in all of its own.
DeletingSince(u, l) ==
    \A i \in 1 .. Len(l) :
        /\ u <= l[i].uid
        /\ l[i].uid = u /\ l[i].ex => l[i].del

LogFacts == LogOrdered /\ FinalizerMeansTouched /\ ConfirmedIsDeleting

\* A new version that continues the stored object, or starts a new
\* incarnation, keeps what is known of the log.
LEMMA StoreKeepsLogFacts ==
    ASSUME TypeOK, LogFacts, Room, NEW v \in Version, Store(v),
           Api.uid <= v.uid,
           v.uid = Api.uid => Api.ex /\ (Api.del => v.del),
           touched \subseteq touched', v.fin => v.uid \in touched',
           UNCHANGED confirmed
    PROVE  /\ LogFacts'
           /\ Api'.uid = v.uid
           /\ Api' = Stored(v)
           /\ \A u \in Nat : DeletingSince(u, log) => DeletingSince(u, log')
<1> DEFINE n == Len(log)
           w == Stored(v)
<1>1. /\ w \in Version /\ w.uid = v.uid
      /\ w.ex => w = v
  BY GoneType DEF Stored, Gone, Version
<1>2. /\ Len(log') = n + 1 /\ n \in Nat /\ n >= 1
      /\ \A i \in 1 .. n : log'[i] = log[i]
      /\ log'[n + 1] = w /\ Api' = w
  BY StoreEffect, VersionsInLog DEF Api
<1>3. /\ \A i \in 1 .. n : log[i] \in Version
      /\ Api = log[n] /\ Api \in Version
  BY VersionsInLog DEF Api
<1>4. \A i \in 1 .. n : log[i].uid \in Nat
  BY <1>3 DEF Version
<1>5. v.uid \in Nat /\ Api.uid \in Nat
  BY <1>3 DEF Version
<1>6. \A i \in 1 .. n : log[i].uid <= Api.uid
  BY <1>2, <1>3 DEF LogFacts, LogOrdered, Indices
<1>7. LogOrdered'
  <2> SUFFICES ASSUME NEW i \in 1 .. n + 1, NEW j \in 1 .. n + 1, i <= j
               PROVE  /\ log'[i].uid <= log'[j].uid
                      /\ log'[i].uid = log'[j].uid /\ log'[i].ex /\ log'[i].del
                            /\ log'[j].ex => log'[j].del
    BY <1>2 DEF LogOrdered, Indices
  <2>1. CASE j \in 1 .. n
    <3>1. i \in 1 .. n /\ log'[i] = log[i] /\ log'[j] = log[j]
      BY <1>2, <2>1
    <3> QED
      BY <2>1, <3>1 DEF LogFacts, LogOrdered, Indices
  <2>2. CASE j = n + 1 /\ i \in 1 .. n
    <3>1. log'[i] = log[i] /\ log'[j] = w
      BY <1>2, <2>2
    <3>2. log[i].uid <= v.uid
      BY <1>4, <1>5, <1>6, <2>2
    <3>3. ASSUME log[i].uid = v.uid, log[i].ex, log[i].del, w.ex
          PROVE  w.del
      <4>1. v.uid = Api.uid
        BY <1>4, <1>5, <1>6, <2>2, <3>3
      <4>2. Api.del
        BY <1>2, <1>3, <2>2, <3>3, <4>1 DEF LogFacts, LogOrdered, Indices
      <4> QED
        BY <1>1, <3>3, <4>1, <4>2
    <3> QED
      BY <1>1, <3>1, <3>2, <3>3
  <2>3. CASE i = n + 1 /\ j = n + 1
    BY <1>1, <1>2, <1>5, <2>3
  <2> QED
    BY <1>2, <2>1, <2>2, <2>3
<1>8. FinalizerMeansTouched'
  <2> SUFFICES ASSUME NEW i \in 1 .. n + 1, log'[i].ex, log'[i].fin
               PROVE  log'[i].uid \in touched'
    BY <1>2 DEF FinalizerMeansTouched, Indices
  <2>1. CASE i \in 1 .. n
    BY <1>2, <2>1 DEF LogFacts, FinalizerMeansTouched, Indices
  <2>2. CASE i = n + 1
    BY <1>1, <1>2, <2>2
  <2> QED
    BY <1>2, <2>1, <2>2
<1>9. ConfirmedIsDeleting'
  <2>1. ASSUME NEW i \in 1 .. n + 1, log'[i].ex, log'[i].uid \in confirmed
        PROVE  log'[i].del
    <3>1. CASE i \in 1 .. n
      BY <1>2, <2>1, <3>1 DEF LogFacts, ConfirmedIsDeleting, Indices
    <3>2. CASE i = n + 1
      <4>1. log'[i] = v /\ v.uid \in confirmed
        BY <1>1, <1>2, <2>1, <3>2
      <4>2. v.uid = Api.uid
        BY <1>5, <4>1 DEF LogFacts, ConfirmedIsDeleting
      <4>3. Api.del
        BY <1>2, <1>3, <4>1, <4>2 DEF LogFacts, ConfirmedIsDeleting, Indices
      <4> QED
        BY <4>1, <4>2, <4>3
    <3> QED
      BY <1>2, <3>1, <3>2
  <2>2. \A u \in confirmed : u <= Api'.uid
    <3> SUFFICES ASSUME NEW u \in confirmed PROVE u <= v.uid
      BY <1>1, <1>2
    <3>1. u \in Nat /\ u <= Api.uid
      BY DEF TypeOK, LogFacts, ConfirmedIsDeleting
    <3> QED
      BY <1>5, <3>1
  <2> QED
    BY <1>2, <2>1, <2>2 DEF ConfirmedIsDeleting, Indices
<1>10. ASSUME NEW u \in Nat, DeletingSince(u, log)
       PROVE  DeletingSince(u, log')
  <2>1. ASSUME NEW i \in 1 .. n + 1
        PROVE  u <= log'[i].uid /\ (log'[i].uid = u /\ log'[i].ex => log'[i].del)
    <3>1. CASE i \in 1 .. n
      BY <1>2, <1>10, <3>1 DEF DeletingSince
    <3>2. CASE i = n + 1
      <4>1. u <= Api.uid /\ (Api.uid = u /\ Api.ex => Api.del)
        BY <1>2, <1>3, <1>10 DEF DeletingSince
      <4>2. u <= v.uid /\ (v.uid = u => Api.uid = u)
        BY <1>5, <4>1
      <4> QED
        BY <1>1, <1>2, <3>2, <4>1, <4>2
    <3> QED
      BY <1>2, <3>1, <3>2
  <2> QED
    BY <1>2, <2>1 DEF DeletingSince
<1> QED
  BY <1>1, <1>2, <1>7, <1>8, <1>9, <1>10 DEF LogFacts

\* Dropping versions from the front of the log keeps them as well.
LEMMA SuffixKeepsLogFacts ==
    ASSUME TypeOK, LogFacts, NEW k \in Nat, k < Len(log),
           Len(log') = Len(log) - k,
           \A i \in 1 .. Len(log) - k : log'[i] = log[i + k],
           UNCHANGED <<touched, confirmed>>
    PROVE  /\ LogFacts'
           /\ Api' = Api
           /\ \A u \in Nat : DeletingSince(u, log) => DeletingSince(u, log')
<1>1. Len(log) \in Nat
  BY VersionsInLog
<1>2. Api' = Api
  BY <1>1 DEF Api
<1>3. \A i \in 1 .. Len(log') : i + k \in 1 .. Len(log) /\ log'[i] = log[i + k]
  BY <1>1
<1>4. LogOrdered'
  <2> SUFFICES ASSUME NEW i \in 1 .. Len(log'), NEW j \in 1 .. Len(log'), i <= j
               PROVE  /\ log'[i].uid <= log'[j].uid
                      /\ log'[i].uid = log'[j].uid /\ log'[i].ex /\ log'[i].del
                            /\ log'[j].ex => log'[j].del
    BY DEF LogOrdered, Indices
  <2>1. /\ i + k \in Indices /\ j + k \in Indices /\ i + k <= j + k
        /\ log'[i] = log[i + k] /\ log'[j] = log[j + k]
    BY <1>1, <1>3 DEF Indices
  <2> QED
    BY <2>1 DEF LogFacts, LogOrdered
<1>5. FinalizerMeansTouched'
  BY <1>3 DEF LogFacts, FinalizerMeansTouched, Indices
<1>6. ConfirmedIsDeleting'
  BY <1>2, <1>3 DEF LogFacts, ConfirmedIsDeleting, Indices
<1>7. \A u \in Nat : DeletingSince(u, log) => DeletingSince(u, log')
  BY <1>3 DEF DeletingSince
<1> QED
  BY <1>2, <1>4, <1>5, <1>6, <1>7 DEF LogFacts

Held == HeldIsDeleting /\ HeldIsStored /\ HeldInStep

LEMMA HeldIsDeletingSince ==
    HeldIsDeleting <=>
        (pc \in {"delete", "patchDeleteStatus", "removeFinalizer"} => DeletingSince(obj.uid, log))
  BY DEF HeldIsDeleting, DeletingSince, Indices

\* A reconcile that has returned holds nothing.
LEMMA IdleHoldsNothing == pc' = "idle" => Held' /\ CreateOnGuardedObject'
  BY DEF Held, HeldIsDeleting, HeldIsStored, HeldInStep, CreateOnGuardedObject

\* Somebody else's change of the stored object.
LEMMA OtherKeepsInv ==
    ASSUME IInv, NEW v \in Version, StoreByOther(v),
           Api.uid <= v.uid, v.uid = Api.uid => Api.ex /\ (Api.del => v.del) /\ v.fin = Api.fin,
           v.uid # Api.uid => ~Api.ex /\ ~v.fin,
           v.ex,
           UNCHANGED <<pc, obj, histVars>>
    PROVE  LogFacts' /\ Held' /\ Safe'
<1> USE DEF IInv
<1>1. Room /\ Store(v) /\ fresh' = FALSE /\ touched' = touched /\ confirmed' = confirmed
  BY DEF StoreByOther, histVars
<1>2. LogFacts
  BY DEF LogFacts
<1>3. v.fin => v.uid \in touched'
  <2>1. ASSUME v.fin PROVE v.uid = Api.uid /\ Api.ex /\ Api.fin
    BY <2>1
  <2> QED
    BY <1>1, <2>1, VersionsInLog DEF FinalizerMeansTouched, Indices, Api
<1>4. /\ LogFacts' /\ Api' = Stored(v) /\ Api'.uid = v.uid
      /\ \A u \in Nat : DeletingSince(u, log) => DeletingSince(u, log')
  BY <1>1, <1>2, <1>3, StoreKeepsLogFacts
<1>5. Held'
  <2>1. HeldIsStored' /\ HeldInStep'
    BY <1>1 DEF HeldIsStored, HeldInStep, histVars
  <2>2. obj.uid \in Nat
    BY DEF TypeOK, Version
  <2>3. HeldIsDeleting'
    BY <1>4, <2>2, HeldIsDeletingSince DEF HeldIsDeleting, DeletingSince, Indices
  <2> QED
    BY <2>1, <2>3 DEF Held
<1>6. v.uid = Api.uid /\ Api.fin => Api'.ex /\ Api'.fin /\ Api'.uid = Api.uid
  BY <1>4 DEF Stored
<1>7. Safe'
  BY <1>1, <1>6 DEF Safe, FinalizerRetention, CreateOnGuardedObject, histVars
<1> QED
  BY <1>4, <1>5, <1>7

\* The status patch, whichever incarnation it lands on.
LEMMA PatchKeepsInv ==
    ASSUME IInv, PatchApplied, UNCHANGED <<touched, confirmed>>
    PROVE  LogFacts' /\ FinalizerRetention'
<1> USE DEF IInv
<1> DEFINE st == MergePatch(Api.st, old, obj.st)
           v == [Api EXCEPT !.st = st]
<1>1. LogFacts /\ Api.ex
  BY DEF LogFacts, PatchApplied
<1>2. CASE UNCHANGED log
  BY <1>1, <1>2 DEF LogFacts, LogOrdered, FinalizerMeansTouched, ConfirmedIsDeleting,
                    Indices, Api, Safe, FinalizerRetention
<1>3. CASE Room /\ Store(v)
  <2>1. Api \in Version /\ obj \in Version /\ old \in Status
    BY VersionsInLog DEF TypeOK
  <2>2. st \in Status
    BY <2>1, StatusAssumption DEF Version
  <2>3. /\ v \in Version /\ v.uid = Api.uid /\ v.ex = Api.ex /\ v.fin = Api.fin
        /\ v.del = Api.del /\ Api.uid \in Nat
    BY <2>1, <2>2 DEF Version
  <2>4. v.fin => v.uid \in touched'
    BY <1>1, <2>3, VersionsInLog DEF LogFacts, FinalizerMeansTouched, Indices, Api
  <2>5. LogFacts' /\ Api' = Stored(v)
    <3> HIDE DEF v
    <3>1. Api.uid <= v.uid /\ touched \subseteq touched'
      BY <2>3
    <3>2. v.uid = Api.uid => Api.ex /\ (Api.del => v.del)
      BY <1>1, <2>3
    <3> QED
      BY <1>1, <1>3, <2>3, <2>4, <3>1, <3>2, StoreKeepsLogFacts
  <2>6. Api.fin => Api'.ex /\ Api'.fin /\ Api'.uid = Api.uid
    BY <1>1, <2>3, <2>5 DEF Stored
  <2> QED
    BY <2>5, <2>6 DEF Safe, FinalizerRetention
<1> QED
  BY <1>2, <1>3 DEF PatchApplied

\* The facts about the log depend on nothing else.
LEMMA SameLog ==
    ASSUME LogFacts, UNCHANGED <<log, confirmed>>, touched \subseteq touched'
    PROVE  LogFacts' /\ Api' = Api
  BY DEF LogFacts, LogOrdered, FinalizerMeansTouched, ConfirmedIsDeleting, Indices, Api

LEMMA SafeInductive == IInv /\ [Next]_vars => LogFacts' /\ Held' /\ Safe'
<1> SUFFICES ASSUME IInv, [Next]_vars PROVE LogFacts' /\ Held' /\ Safe'
  OBVIOUS
<1>t. TypeOK /\ LogFacts /\ Held /\ Safe
  BY DEF IInv, LogFacts, Held
<1>v. /\ Api \in Version /\ Cached \in Version /\ obj \in Version
      /\ Len(log) \in Nat /\ Len(log) >= 1 /\ Cached = log[1] /\ Api = log[Len(log)]
  BY <1>t, VersionsInLog DEF TypeOK, Cached, Api
<1>1. CASE UserCreate
  <2> PICK e \in BOOLEAN :
         StoreByOther([ex |-> TRUE, uid |-> Api.uid + 1, gen |-> 1, fin |-> FALSE,
                       ext |-> e, del |-> FALSE, st |-> EmptyStatus])
    BY <1>1 DEF UserCreate
  <2> DEFINE v == [ex |-> TRUE, uid |-> Api.uid + 1, gen |-> 1, fin |-> FALSE,
                   ext |-> e, del |-> FALSE, st |-> EmptyStatus]
  <2>1. v \in Version /\ Api.uid <= v.uid /\ v.uid # Api.uid /\ v.ex /\ ~v.fin
    BY <1>v, StatusAssumption DEF Version
  <2>2. StoreByOther(v) /\ ~Api.ex /\ UNCHANGED <<pc, obj, histVars>>
    BY <1>1 DEF UserCreate
  <2> HIDE DEF v
  <2> QED
    BY <2>1, <2>2, OtherKeepsInv
<1>2. CASE UserEditSpec
  <2> DEFINE v == [Api EXCEPT !.gen = @ + 1]
  <2>1. v \in Version /\ v.uid = Api.uid /\ v.ex = Api.ex /\ v.fin = Api.fin /\ v.del = Api.del
        /\ Api.uid \in Nat
    BY <1>v DEF Version
  <2>2. StoreByOther(v) /\ Api.ex /\ UNCHANGED <<pc, obj, histVars>>
    BY <1>2 DEF UserEditSpec
  <2> HIDE DEF v
  <2>3. Api.uid <= v.uid
    BY <2>1
  <2> QED
    BY <2>1, <2>2, <2>3, OtherKeepsInv
<1>3. CASE UserDelete
  <2> DEFINE v == [Api EXCEPT !.del = TRUE, !.gen = @ + 1]
  <2>0. Api.gen + 1 \in Nat
    BY <1>v DEF Version
  <2>1. v \in Version /\ v.uid = Api.uid /\ v.ex = Api.ex /\ v.fin = Api.fin /\ v.del
        /\ Api.uid \in Nat
    BY <1>v, <2>0 DEF Version
  <2>2. StoreByOther(v) /\ Api.ex /\ UNCHANGED <<pc, obj, histVars>>
    BY <1>3 DEF UserDelete
  <2> HIDE DEF v
  <2>3. Api.uid <= v.uid
    BY <2>1
  <2> QED
    BY <2>1, <2>2, <2>3, OtherKeepsInv
<1>4. CASE OtherFinalizerRemoved
  <2> DEFINE v == [Api EXCEPT !.ext = FALSE]
  <2>1. v \in Version /\ v.uid = Api.uid /\ v.ex = Api.ex /\ v.fin = Api.fin /\ v.del = Api.del
        /\ Api.uid \in Nat
    BY <1>v DEF Version
  <2>2. StoreByOther(v) /\ Api.ex /\ UNCHANGED <<pc, obj, histVars>>
    BY <1>4 DEF OtherFinalizerRemoved
  <2> HIDE DEF v
  <2>3. Api.uid <= v.uid
    BY <2>1
  <2> QED
    BY <2>1, <2>2, <2>3, OtherKeepsInv
<1>5. CASE Deliver
  <2>1. /\ Len(log') = Len(log) - 1
        /\ \A i \in 1 .. Len(log) - 1 : log'[i] = log[i + 1]
    BY <1>5, <1>t, TailVersion DEF Deliver, TypeOK
  <2>2. 1 < Len(log) /\ UNCHANGED <<pc, obj, fresh, touched, confirmed>>
    BY <1>5, <1>v DEF Deliver, histVars
  <2>3. /\ LogFacts' /\ Api' = Api
        /\ \A u \in Nat : DeletingSince(u, log) => DeletingSince(u, log')
    BY <1>t, <2>1, <2>2, SuffixKeepsLogFacts
  <2>4. obj.uid \in Nat
    BY <1>v DEF Version
  <2>5. HeldIsDeleting'
    BY <1>t, <2>2, <2>3, <2>4, HeldIsDeletingSince DEF Held, HeldIsDeleting, DeletingSince, Indices
  <2>6. HeldIsStored' /\ HeldInStep'
    BY <1>t, <2>2, <2>3 DEF Held, HeldIsStored, HeldInStep
  <2>7. Safe'
    BY <1>t, <2>2, <2>3 DEF Safe, FinalizerRetention, CreateOnGuardedObject
  <2> QED
    BY <2>3, <2>5, <2>6, <2>7 DEF Held
<1>6. CASE TimerFires
  <2>1. UNCHANGED <<log, pc, obj, fresh, touched, confirmed>>
    BY <1>6 DEF TimerFires, apiVars, histVars
  <2> QED
    BY <1>t, <2>1, SameLog DEF Held, HeldIsDeleting, HeldIsStored, HeldInStep, Indices,
                              Safe, FinalizerRetention, CreateOnGuardedObject
<1>7. CASE Restart
  <2>1. log' = <<Api>> /\ pc' = "idle" /\ UNCHANGED <<touched, confirmed>>
    BY <1>7 DEF Restart, histVars
  <2>2. /\ Len(log) - 1 \in Nat /\ Len(log) - 1 < Len(log)
        /\ Len(log') = Len(log) - (Len(log) - 1)
        /\ \A i \in 1 .. Len(log) - (Len(log) - 1) : log'[i] = log[i + (Len(log) - 1)]
    BY <1>v, <2>1
  <2>3. LogFacts' /\ Api' = Api
    BY <1>t, <2>1, <2>2, SuffixKeepsLogFacts
  <2> QED
    BY <1>t, <2>1, <2>3, IdleHoldsNothing DEF Safe, FinalizerRetention
<1>8. CASE Start
  <2>1. UNCHANGED <<log, confirmed>> /\ touched \subseteq touched' /\ Cached.uid \in Nat
    BY <1>8, <1>v DEF Start, apiVars, CallCreateOrUpdate, Version
  <2>2. LogFacts' /\ Api' = Api
    BY <1>t, <2>1, SameLog
  <2>3. Len(log) = 1 => Cached = Api
    BY <1>v
  <2>4. CASE UNCHANGED <<pc, obj, old, fresh, touched, tried>>
    BY <1>t, <2>1, <2>2, <2>4 DEF Held, HeldIsDeleting, HeldIsStored, HeldInStep, Indices,
                                  Safe, FinalizerRetention, CreateOnGuardedObject
  <2>5. CASE Cached.ex /\ Cached.del /\ pc' = "delete" /\ obj' = Cached
             /\ fresh' = (Len(log) = 1) /\ UNCHANGED touched
    <3>1. HeldIsDeleting'
      BY <1>t, <1>v, <2>1, <2>5 DEF HeldIsDeleting, LogFacts, LogOrdered, Indices
    <3>2. HeldIsStored' /\ HeldInStep'
      BY <2>2, <2>3, <2>5 DEF HeldIsStored, HeldInStep
    <3>3. Safe'
      BY <1>t, <2>1, <2>2, <2>5 DEF Safe, FinalizerRetention, CreateOnGuardedObject
    <3> QED
      BY <2>2, <3>1, <3>2, <3>3 DEF Held
  <2>6. CASE Cached.ex /\ ~Cached.fin /\ pc' = "addFinalizer" /\ obj' = Cached
             /\ fresh' = (Len(log) = 1) /\ UNCHANGED touched
    <3>1. HeldIsDeleting' /\ HeldIsStored' /\ HeldInStep'
      BY <2>2, <2>3, <2>6 DEF HeldIsDeleting, HeldIsStored, HeldInStep
    <3>2. Safe'
      BY <1>t, <2>1, <2>2, <2>6 DEF Safe, FinalizerRetention, CreateOnGuardedObject
    <3> QED
      BY <2>2, <3>1, <3>2 DEF Held
  <2>7. CASE Cached.ex /\ ~Cached.del /\ Cached.fin /\ CallCreateOrUpdate(Cached)
             /\ fresh' = (Len(log) = 1)
    <3>1. Cached.uid \in touched /\ Cached.uid \notin confirmed
      BY <1>t, <1>v, <2>7 DEF LogFacts, FinalizerMeansTouched, ConfirmedIsDeleting, Indices
    <3>2. Api.ex /\ Api.uid = Cached.uid /\ Api.fin
      BY <1>t, <3>1 DEF Safe, FinalizerRetention
    <3>3. pc' = "createOrUpdate" /\ obj' = Cached /\ touched' = touched
      BY <2>7, <3>1 DEF CallCreateOrUpdate
    <3>4. HeldIsDeleting' /\ HeldIsStored' /\ HeldInStep'
      BY <2>2, <2>3, <2>7, <3>3 DEF HeldIsDeleting, HeldIsStored, HeldInStep
    <3>5. Safe'
      BY <1>t, <2>1, <2>2, <3>1, <3>2, <3>3 DEF Safe, FinalizerRetention, CreateOnGuardedObject
    <3> QED
      BY <2>2, <3>4, <3>5 DEF Held
  <2> QED
    BY <1>8, <2>4, <2>5, <2>6, <2>7 DEF Start
<1>9. CASE AddFinalizer
  <2> DEFINE v == [obj EXCEPT !.fin = TRUE]
  <2>1. /\ v \in Version /\ v.fin /\ v.uid = obj.uid /\ v.ex = obj.ex /\ v.del = obj.del
        /\ v.ext = obj.ext /\ obj.uid \in Nat
    BY <1>v DEF Version
  <2>2. Room /\ Store(v) /\ CallCreateOrUpdate(v) /\ fresh /\ (~Api.fin => ~Api.del)
        /\ UNCHANGED <<confirmed, fresh>>
    BY <1>9, <2>1 DEF AddFinalizer, UpdateAccepted
  <2> HIDE DEF v
  <2>3. Api.ex /\ Api.uid = obj.uid /\ ~Api.fin /\ ~Api.del /\ obj.ex
    BY <1>9, <1>t, <2>2 DEF AddFinalizer, Held, HeldIsStored, HeldInStep
  <2>4. pc' = "createOrUpdate" /\ obj' = v /\ touched' = touched \cup {v.uid}
    BY <2>2 DEF CallCreateOrUpdate
  <2>5. Api.uid <= v.uid /\ v.uid = Api.uid
    BY <2>1, <2>3
  <2>6. LogFacts' /\ Api' = Stored(v)
    BY <1>t, <2>1, <2>2, <2>3, <2>4, <2>5, StoreKeepsLogFacts
  <2>7. Api' = v
    BY <2>1, <2>6 DEF Stored
  <2>8. HeldIsDeleting' /\ HeldIsStored' /\ HeldInStep'
    BY <2>1, <2>3, <2>4, <2>7 DEF HeldIsDeleting, HeldIsStored, HeldInStep
  <2>9. Api.uid \notin confirmed
    BY <1>t, <1>v, <2>3 DEF LogFacts, ConfirmedIsDeleting, Indices
  <2>10. Safe'
    BY <1>t, <2>1, <2>2, <2>3, <2>4, <2>7, <2>9 DEF Safe, FinalizerRetention, CreateOnGuardedObject
  <2> QED
    BY <2>6, <2>8, <2>10 DEF Held
<1>10. CASE FinalizerUpdateFails
  <2>1. UNCHANGED <<log, touched, confirmed>> /\ pc' = "idle"
    BY <1>10 DEF FinalizerUpdateFails, apiVars, histVars, Finish
  <2> QED
    BY <1>t, <2>1, SameLog, IdleHoldsNothing DEF Safe, FinalizerRetention
<1>11. CASE PatchStatus \/ PatchDeleteStatus
  <2>1. (PatchApplied \/ UNCHANGED log) /\ UNCHANGED <<touched, confirmed>> /\ pc' = "idle"
    BY <1>11 DEF PatchStatus, PatchDeleteStatus, histVars, Finish
  <2>2. LogFacts' /\ FinalizerRetention'
    <3>1. CASE PatchApplied
      BY <2>1, <3>1, PatchKeepsInv
    <3>2. CASE UNCHANGED log
      BY <1>t, <2>1, <3>2, SameLog DEF Safe, FinalizerRetention
    <3> QED
      BY <2>1, <3>1, <3>2
  <2> QED
    BY <2>1, <2>2, IdleHoldsNothing DEF Safe
<1>12. CASE RemoveFinalizer
  <2> DEFINE v == [Api EXCEPT !.fin = FALSE]
  <2>1. /\ v \in Version /\ ~v.fin /\ v.uid = Api.uid /\ v.del = Api.del /\ Api.uid \in Nat
    BY <1>v DEF Version
  <2>2. Room /\ Store(v) /\ fresh /\ UNCHANGED <<touched, confirmed>> /\ pc' = "idle"
    BY <1>12 DEF RemoveFinalizer, UpdateAccepted, histVars, Finish
  <2> HIDE DEF v
  <2>3. Api.ex /\ Api.uid = obj.uid /\ obj.uid \in confirmed
    BY <1>12, <1>t, <2>2 DEF RemoveFinalizer, Held, HeldIsStored, HeldInStep
  <2>4. LogFacts'
    BY <1>t, <2>1, <2>2, <2>3, StoreKeepsLogFacts
  <2>5. FinalizerRetention'
    BY <1>t, <2>2, <2>3 DEF Safe, FinalizerRetention
  <2> QED
    BY <2>2, <2>4, <2>5, IdleHoldsNothing DEF Safe
<1>13. CASE \E st \in Status, r \in AnyResponses : CreateOrUpdateReturns(st, r)
  <2> PICK st \in Status, r \in AnyResponses : CreateOrUpdateReturns(st, r)
    BY <1>13
  <2>1. /\ UNCHANGED <<log, touched, confirmed, fresh>> /\ pc = "createOrUpdate"
        /\ pc' = "patchStatus" /\ obj' = [obj EXCEPT !.st = st]
    BY DEF CreateOrUpdateReturns, apiVars, histVars
  <2>2. /\ obj'.uid = obj.uid /\ obj'.fin = obj.fin /\ obj'.ext = obj.ext
        /\ obj'.del = obj.del /\ obj'.ex = obj.ex
    BY <1>v, <2>1 DEF Version
  <2> QED
    BY <1>t, <2>1, <2>2, SameLog DEF Held, HeldIsDeleting, HeldIsStored, HeldInStep,
                                    Safe, FinalizerRetention, CreateOnGuardedObject
<1>14. CASE \E st \in Status, out \in DeleteOutcomes : DeleteReturns(st, out)
  <2> PICK st \in Status, out \in DeleteOutcomes : DeleteReturns(st, out)
    BY <1>14
  <2>1. UNCHANGED <<log, touched>> /\ pc = "delete" /\ Api' = Api
    BY DEF DeleteReturns, apiVars, Api
  <2>2. CASE pc' = "idle" /\ UNCHANGED confirmed
    BY <1>t, <2>1, <2>2, SameLog, IdleHoldsNothing DEF Safe, FinalizerRetention
  <2>3. CASE /\ pc' \in {"removeFinalizer", "patchDeleteStatus"}
             /\ obj' = [obj EXCEPT !.st = st] /\ UNCHANGED fresh
             /\ confirmed' = IF pc' = "removeFinalizer" THEN confirmed \cup {obj.uid} ELSE confirmed
    <3>1. /\ obj'.uid = obj.uid /\ obj'.fin = obj.fin /\ obj'.ext = obj.ext
          /\ obj'.del = obj.del /\ obj'.ex = obj.ex
      BY <1>v, <2>3 DEF Version
    <3>2. HeldIsDeleting' /\ HeldIsStored' /\ HeldInStep'
      BY <1>t, <2>1, <2>3, <3>1 DEF Held, HeldIsDeleting, HeldIsStored, HeldInStep, Indices
    <3>3. \A i \in Indices :
             /\ obj.uid <= log[i].uid
             /\ log[i].uid = obj.uid /\ log[i].ex => log[i].del
      BY <1>t, <2>1 DEF Held, HeldIsDeleting
    <3>4. obj.uid <= Api.uid
      BY <1>v, <3>3 DEF Indices
    <3>5. ConfirmedIsDeleting'
      BY <1>t, <2>1, <2>3, <3>3, <3>4 DEF LogFacts, ConfirmedIsDeleting, Indices
    <3>6. LogOrdered' /\ FinalizerMeansTouched'
      BY <1>t, <2>1 DEF LogFacts, LogOrdered, FinalizerMeansTouched, Indices
    <3>7. Safe'
      BY <1>t, <2>1, <2>3 DEF Safe, FinalizerRetention, CreateOnGuardedObject
    <3> QED
      BY <3>2, <3>5, <3>6, <3>7 DEF Held, LogFacts
  <2> QED
    BY <2>2, <2>3 DEF DeleteReturns, Finish
<1>15. CASE UNCHANGED vars
  <2>1. UNCHANGED <<log, pc, obj, fresh, touched, confirmed>>
    BY <1>15 DEF vars, apiVars, ctrlVars, histVars
  <2> QED
    BY <1>t, <2>1, SameLog DEF Held, HeldIsDeleting, HeldIsStored, HeldInStep, Indices,
                              Safe, FinalizerRetention, CreateOnGuardedObject
<1> QED
  BY <1>1, <1>2, <1>3, <1>4, <1>5, <1>6, <1>7, <1>8, <1>9, <1>10, <1>11, <1>12,
     <1>13, <1>14, <1>15 DEF Next, Environment, Controller, ServiceManager

LEMMA InitInv == Init => IInv
<1> SUFFICES ASSUME Init PROVE IInv
  OBVIOUS
<1>1. TypeOK
  BY InitType
<1>2. Len(log) = 1 /\ log[1] = Gone(0)
  BY DEF Init
<1>3. ~log[1].ex /\ log[1].uid = 0
  BY <1>2 DEF Gone
<1>4. LogOrdered /\ FinalizerMeansTouched /\ ConfirmedIsDeleting
  BY <1>2, <1>3 DEF LogOrdered, FinalizerMeansTouched, ConfirmedIsDeleting, Indices, Init
<1>5. HeldIsDeleting /\ HeldIsStored /\ HeldInStep /\ Safe
  BY DEF Init, HeldIsDeleting, HeldIsStored, HeldInStep, Safe, FinalizerRetention,
         CreateOnGuardedObject
<1> QED
  BY <1>1, <1>4, <1>5 DEF IInv

LEMMA IInvInductive == IInv /\ [Next]_vars => IInv'
  BY TypeInductive, SafeInductive DEF IInv, LogFacts, Held

LEMMA IInvInvariant == Spec => []IInv
  BY InitInv, IInvInductive, PTL DEF Spec

\* Whatever the service manager does: an incarnation CreateOrUpdate was called
\* on keeps the OSOK finalizer until a Delete call reported its resource gone.
THEOREM FinalizerIsRetained == Spec => []FinalizerRetention
  BY IInvInvariant, PTL DEF IInv, Safe

\* Whatever the service manager does: CreateOrUpdate runs, and its status is
\* patched, only on the stored, finalizer-guarded, unconfirmed incarnation.
THEOREM CreateIsGuarded == Spec => []CreateOnGuardedObject
  BY IInvInvariant, PTL DEF IInv, Safe
-----------------------------------------------------------------------------
(* The incarnations stay within their bound. *)

UidBounded == Api.uid <= MaxUid

LEMMA InitBounded == Init => UidBounded
  BY BoundsAssumption DEF Init, UidBounded, Api, Gone

LEMMA BoundedInductive == IInv /\ UidBounded /\ [Next]_vars => UidBounded'
<1> SUFFICES ASSUME IInv, UidBounded, [Next]_vars PROVE UidBounded'
  OBVIOUS
<1>t. /\ TypeOK /\ Api \in Version /\ obj \in Version /\ old \in Status
      /\ Len(log) \in Nat /\ Len(log) >= 1 /\ Api.uid \in Nat
      /\ HeldIsStored
  BY VersionsInLog DEF IInv, TypeOK, Version
<1>s. ASSUME NEW v \in Version, Room, Store(v), v.uid = Api.uid
      PROVE  UidBounded'
  <2>1. Api' = Stored(v)
    BY <1>s, <1>t, StoreEffect
  <2> QED
    BY <1>s, <2>1 DEF UidBounded, Stored, Gone
<1>1. CASE UserCreate
  <2> PICK e \in BOOLEAN :
         StoreByOther([ex |-> TRUE, uid |-> Api.uid + 1, gen |-> 1, fin |-> FALSE,
                       ext |-> e, del |-> FALSE, st |-> EmptyStatus])
    BY <1>1 DEF UserCreate
  <2> DEFINE v == [ex |-> TRUE, uid |-> Api.uid + 1, gen |-> 1, fin |-> FALSE,
                   ext |-> e, del |-> FALSE, st |-> EmptyStatus]
  <2>1. v \in Version /\ v.uid = Api.uid + 1 /\ Room /\ Store(v)
    BY <1>t, StatusAssumption DEF Version, StoreByOther
  <2> HIDE DEF v
  <2>2. Api' = Stored(v)
    BY <1>t, <2>1, StoreEffect
  <2>3. Api.uid < MaxUid
    BY <1>1 DEF UserCreate
  <2> QED
    BY <1>t, <2>1, <2>2, <2>3, BoundsAssumption DEF UidBounded, Stored, Gone
<1>2. CASE UserEditSpec
  <2>1. [Api EXCEPT !.gen = @ + 1] \in Version /\ [Api EXCEPT !.gen = @ + 1].uid = Api.uid
    BY <1>t DEF Version
  <2> QED
    BY <1>2, <1>s, <2>1 DEF UserEditSpec, StoreByOther
<1>3. CASE UserDelete
  <2> DEFINE v == [Api EXCEPT !.del = TRUE, !.gen = @ + 1]
  <2>0. Api.gen + 1 \in Nat
    BY <1>t DEF Version
  <2>1. v \in Version /\ v.uid = Api.uid
    BY <1>t, <2>0 DEF Version
  <2> QED
    BY <1>3, <1>s, <2>1 DEF UserDelete, StoreByOther
<1>4. CASE OtherFinalizerRemoved
  <2>1. [Api EXCEPT !.ext = FALSE] \in Version /\ [Api EXCEPT !.ext = FALSE].uid = Api.uid
    BY <1>t DEF Version
  <2> QED
    BY <1>4, <1>s, <2>1 DEF OtherFinalizerRemoved, StoreByOther
<1>5. CASE Deliver
  <2>1. Last(log') = Last(log)
    BY <1>5, <1>t, TailVersion DEF Deliver, TypeOK
  <2> QED
    BY <2>1 DEF UidBounded, Api, Last
<1>6. CASE Restart
  BY <1>6 DEF Restart, UidBounded, Api
<1>7. CASE AddFinalizer
  <2> DEFINE v == [obj EXCEPT !.fin = TRUE]
  <2>1. v \in Version /\ v.uid = obj.uid
    BY <1>t DEF Version
  <2>2. Api.uid = obj.uid
    BY <1>7, <1>t DEF AddFinalizer, UpdateAccepted, HeldIsStored
  <2> QED
    BY <1>7, <1>s, <2>1, <2>2 DEF AddFinalizer, UpdateAccepted
<1>8. CASE RemoveFinalizer
  <2>1. [Api EXCEPT !.fin = FALSE] \in Version /\ [Api EXCEPT !.fin = FALSE].uid = Api.uid
    BY <1>t DEF Version
  <2> QED
    BY <1>8, <1>s, <2>1 DEF RemoveFinalizer, UpdateAccepted
<1>9. CASE UNCHANGED log
  BY <1>9 DEF UidBounded, Api
<1>10. CASE PatchApplied
  <2> DEFINE st == MergePatch(Api.st, old, obj.st)
  <2>1. st \in Status
    BY <1>t, StatusAssumption DEF Version
  <2>2. [Api EXCEPT !.st = st] \in Version /\ [Api EXCEPT !.st = st].uid = Api.uid
    BY <1>t, <2>1 DEF Version
  <2>3. CASE Room /\ Store([Api EXCEPT !.st = st])
    BY <1>s, <2>2, <2>3
  <2> QED
    BY <1>9, <1>10, <2>3 DEF PatchApplied
<1> QED
  <2>1. CASE Environment
    BY <1>1, <1>2, <1>3, <1>4, <2>1 DEF Environment
  <2>2. CASE Controller
    BY <1>7, <1>8, <1>9, <1>10, <2>2
       DEF Controller, Start, FinalizerUpdateFails, PatchStatus, PatchDeleteStatus, apiVars
  <2>3. CASE TimerFires \/ ServiceManager \/ UNCHANGED vars
    BY <1>9, <2>3 DEF TimerFires, ServiceManager, CreateOrUpdateReturns, DeleteReturns,
                      vars, apiVars
  <2> QED
    BY <1>5, <1>6, <2>1, <2>2, <2>3 DEF Next

-----------------------------------------------------------------------------
(* No wake-up is lost.  The argument is about the versions that have not     *)
(* reached the cache: each of them either agrees with the stored object in   *)
(* what decides the next reconcile, or is followed by an event that passes   *)
(* the filter.                                                               *)

\* Versions a and b are the same to the event filter.
Agree(a, b) == a.ex = b.ex /\ a.uid = b.uid /\ a.gen = b.gen /\ a.del = b.del

\* An event of log l at or behind position i passes the filter.
Wakes(l, i) == \E j \in i .. Len(l) - 1 : ReconcilePredicate(l[j], l[j + 1])

AgreesOrWakes == \A i \in Indices : Agree(log[i], Api) \/ Wakes(log, i)

WInv == IInv /\ AgreesOrWakes /\ NoLostWakeup

\* The object needs another reconcile, seen as version v.
Needs(v) == v.ex /\ (IF v.del THEN v.fin ELSE tried # [uid |-> v.uid, gen |-> v.gen])

\* NoLostWakeup and WakeupPending in these terms, now and after a step.
LEMMA NoLostWakeupNeeds ==
    /\ NoLostWakeup <=> (Needs(Api) => WakeupPending)
    /\ NoLostWakeup' <=> (Needs(Api)' => WakeupPending')
  BY DEF NoLostWakeup, Needs

LEMMA WakeupPendingWakes ==
    /\ WakeupPending <=>
          \/ queued \/ timer \/ Wakes(log, 1)
          \/ pc \in {"addFinalizer", "delete", "patchDeleteStatus", "removeFinalizer"}
    /\ WakeupPending' <=>
          \/ queued' \/ timer' \/ Wakes(log', 1)
          \/ pc' \in {"addFinalizer", "delete", "patchDeleteStatus", "removeFinalizer"}
  BY DEF WakeupPending, Wakes

\* A new version keeps the events that are on their way, and adds one unless
\* it agrees with the version it replaces.
LEMMA StoreKeepsWakeups ==
    ASSUME TypeOK, AgreesOrWakes, Room, NEW v \in Version, Store(v),
           v.uid = Api.uid \/ ~Api.ex, Api.ex /\ Api.del => v.del
    PROVE  /\ AgreesOrWakes'
           /\ Wakes(log, 1) => Wakes(log', 1)
           /\ Agree(Api, Stored(v)) \/ Wakes(log', 1)
           /\ ReconcilePredicate(Api, Stored(v)) => Wakes(log', 1)
<1> DEFINE n == Len(log)
           w == Stored(v)
<1>1. /\ Len(log') = n + 1 /\ n \in Nat /\ n >= 1
      /\ \A i \in 1 .. n : log'[i] = log[i]
      /\ log'[n + 1] = w /\ Api' = w /\ Api = log[n]
      /\ w \in Version /\ Api \in Version
  BY StoreEffect, VersionsInLog DEF Api
<1>2. Agree(Api, w) \/ ReconcilePredicate(Api, w)
  <2>1. ASSUME ~ReconcilePredicate(Api, w) PROVE Agree(Api, w)
    <3>1. Api.ex /\ w.ex /\ Api.gen = w.gen /\ (w.del => Api.del)
      BY <2>1 DEF ReconcilePredicate
    <3>2. w = v
      BY <3>1 DEF Stored, Gone
    <3>3. Api.ex \in BOOLEAN /\ w.ex \in BOOLEAN /\ Api.del \in BOOLEAN /\ w.del \in BOOLEAN
      BY <1>1 DEF Version
    <3> QED
      BY <3>1, <3>2, <3>3 DEF Agree
  <2> QED
    BY <2>1
<1>3. ASSUME NEW i \in 1 .. n, Wakes(log, i) PROVE Wakes(log', i)
  <2>1. PICK j \in i .. n - 1 : ReconcilePredicate(log[j], log[j + 1])
    BY <1>3 DEF Wakes
  <2>2. j \in i .. Len(log') - 1 /\ log'[j] = log[j] /\ log'[j + 1] = log[j + 1]
    BY <1>1, <2>1
  <2> QED
    BY <2>1, <2>2 DEF Wakes
<1>4. ASSUME NEW i \in 1 .. n, ReconcilePredicate(Api, w) PROVE Wakes(log', i)
  <2>1. n \in i .. Len(log') - 1 /\ log'[n] = Api /\ log'[n + 1] = w
    BY <1>1
  <2> QED
    BY <1>4, <2>1 DEF Wakes
<1>5. AgreesOrWakes'
  <2> SUFFICES ASSUME NEW i \in 1 .. n + 1 PROVE Agree(log'[i], w) \/ Wakes(log', i)
    BY <1>1 DEF AgreesOrWakes, Indices
  <2>1. CASE i = n + 1
    BY <1>1, <2>1 DEF Agree
  <2>2. CASE i \in 1 .. n
    <3>1. Agree(log[i], Api) \/ Wakes(log, i)
      BY <2>2 DEF AgreesOrWakes, Indices
    <3>2. Agree(log[i], Api) /\ Agree(Api, w) => Agree(log'[i], w)
      BY <1>1, <2>2 DEF Agree
    <3> QED
      BY <1>2, <1>3, <1>4, <2>2, <3>1, <3>2
  <2> QED
    BY <1>1, <2>1, <2>2
<1> QED
  BY <1>1, <1>2, <1>3, <1>4, <1>5

\* Dropping versions from the front of the log: what they would have woken has
\* been woken, or agrees with the stored object.
LEMMA SuffixKeepsWakeups ==
    ASSUME TypeOK, AgreesOrWakes, NEW k \in Nat, k < Len(log),
           Len(log') = Len(log) - k,
           \A i \in 1 .. Len(log) - k : log'[i] = log[i + k]
    PROVE  /\ AgreesOrWakes'
           /\ Api' = Api
           /\ Wakes(log, 1 + k) => Wakes(log', 1)
<1>1. Len(log) \in Nat
  BY VersionsInLog
<1>2. Api' = Api
  BY <1>1 DEF Api
<1>3. \A i \in 1 .. Len(log') : i + k \in 1 .. Len(log) /\ log'[i] = log[i + k]
  BY <1>1
<1>4. ASSUME NEW i \in 1 .. Len(log'), Wakes(log, i + k) PROVE Wakes(log', i)
  <2>1. PICK j \in i + k .. Len(log) - 1 : ReconcilePredicate(log[j], log[j + 1])
    BY <1>4 DEF Wakes
  <2>2. /\ j - k \in i .. Len(log') - 1 /\ (j - k) + 1 \in 1 .. Len(log')
        /\ (j - k) \in 1 .. Len(log') /\ (j - k) + k = j /\ ((j - k) + 1) + k = j + 1
    BY <1>1, <2>1
  <2>3. log'[j - k] = log[j] /\ log'[(j - k) + 1] = log[j + 1]
    BY <1>3, <2>2
  <2> QED
    BY <2>1, <2>2, <2>3 DEF Wakes
<1>5. AgreesOrWakes'
  <2> SUFFICES ASSUME NEW i \in 1 .. Len(log') PROVE Agree(log'[i], Api) \/ Wakes(log', i)
    BY <1>2 DEF AgreesOrWakes, Indices
  <2>1. i + k \in Indices /\ log'[i] = log[i + k]
    BY <1>3 DEF Indices
  <2>2. Agree(log[i + k], Api) \/ Wakes(log, i + k)
    BY <2>1 DEF AgreesOrWakes
  <2> QED
    BY <1>4, <2>1, <2>2
<1>6. 1 \in 1 .. Len(log')
  BY <1>1
<1> QED
  BY <1>1, <1>2, <1>4, <1>5, <1>6

LEMMA SameLogWakeups ==
    ASSUME AgreesOrWakes, UNCHANGED log
    PROVE  AgreesOrWakes' /\ Api' = Api /\ Wakes(log', 1) = Wakes(log, 1)
  BY DEF AgreesOrWakes, Indices, Api

\* Somebody else's change of the stored object: if it makes a reconcile
\* necessary, it wakes one.
LEMMA OtherKeepsWakeups ==
    ASSUME WInv, NEW v \in Version, StoreByOther(v),
           v.uid = Api.uid \/ ~Api.ex, Api.ex /\ Api.del => v.del,
           Needs(Stored(v)) => Needs(Api) \/ ReconcilePredicate(Api, Stored(v)),
           UNCHANGED <<queued, timer, pc, histVars>>
    PROVE  AgreesOrWakes' /\ NoLostWakeup'
<1>1. /\ AgreesOrWakes' /\ Api' = Stored(v)
      /\ Wakes(log, 1) => Wakes(log', 1)
      /\ ReconcilePredicate(Api, Stored(v)) => Wakes(log', 1)
  BY StoreKeepsWakeups, StoreEffect DEF WInv, IInv, StoreByOther
<1>2. tried' = tried
  BY DEF histVars
<1>3. Needs(Api)' => Needs(Stored(v))
  BY <1>1, <1>2 DEF Needs
<1>4. Needs(Api) => WakeupPending
  BY NoLostWakeupNeeds DEF WInv
<1>5. WakeupPending => WakeupPending'
  BY <1>1, WakeupPendingWakes
<1>6. Wakes(log', 1) => WakeupPending'
  BY WakeupPendingWakes
<1> QED
  BY <1>1, <1>3, <1>4, <1>5, <1>6, NoLostWakeupNeeds

\* A status patch changes nothing that a reconcile is needed for.
LEMMA PatchKeepsWakeups ==
    ASSUME WInv, PatchApplied, UNCHANGED histVars
    PROVE  /\ AgreesOrWakes'
           /\ Wakes(log, 1) => Wakes(log', 1)
           /\ Needs(Api)' => Needs(Api)
<1> DEFINE st == MergePatch(Api.st, old, obj.st)
           v == [Api EXCEPT !.st = st]
<1>1. Api.ex /\ tried' = tried /\ TypeOK /\ AgreesOrWakes
  BY DEF PatchApplied, histVars, WInv, IInv
<1>2. CASE UNCHANGED log
  BY <1>1, <1>2, SameLogWakeups DEF Needs
<1>3. CASE Room /\ Store(v)
  <2>1. Api \in Version /\ obj \in Version /\ old \in Status
    BY <1>1, VersionsInLog DEF TypeOK
  <2>2. st \in Status
    BY <2>1, StatusAssumption DEF Version
  <2>3. /\ v \in Version /\ v.uid = Api.uid /\ v.ex = Api.ex /\ v.fin = Api.fin
        /\ v.del = Api.del /\ v.gen = Api.gen
    BY <2>1, <2>2 DEF Version
  <2> HIDE DEF v
  <2>4. AgreesOrWakes' /\ (Wakes(log, 1) => Wakes(log', 1)) /\ Api' = Stored(v)
    BY <1>1, <1>3, <2>3, StoreKeepsWakeups, StoreEffect
  <2>5. Stored(v).ex => Stored(v) = v
    BY DEF Stored, Gone
  <2>6. Needs(Api)' => Needs(Api)
    BY <1>1, <2>3, <2>4, <2>5 DEF Needs
  <2> QED
    BY <2>4, <2>6
<1> QED
  BY <1>2, <1>3 DEF PatchApplied

LEMMA WakeupInductive == WInv /\ [Next]_vars => AgreesOrWakes' /\ NoLostWakeup'
<1> SUFFICES ASSUME WInv, [Next]_vars PROVE AgreesOrWakes' /\ NoLostWakeup'
  OBVIOUS
<1>t. /\ IInv /\ TypeOK /\ AgreesOrWakes
      /\ HeldIsDeleting /\ HeldIsStored /\ HeldInStep
      /\ Needs(Api) => WakeupPending
  BY NoLostWakeupNeeds DEF WInv, IInv
<1>v. /\ Api \in Version /\ Cached \in Version /\ obj \in Version
      /\ Len(log) \in Nat /\ Len(log) >= 1 /\ Cached = log[1] /\ Api = log[Len(log)]
  BY <1>t, VersionsInLog DEF TypeOK, Cached, Api
<1>1. CASE UserCreate
  <2> PICK e \in BOOLEAN :
         StoreByOther([ex |-> TRUE, uid |-> Api.uid + 1, gen |-> 1, fin |-> FALSE,
                       ext |-> e, del |-> FALSE, st |-> EmptyStatus])
    BY <1>1 DEF UserCreate
  <2> DEFINE v == [ex |-> TRUE, uid |-> Api.uid + 1, gen |-> 1, fin |-> FALSE,
                   ext |-> e, del |-> FALSE, st |-> EmptyStatus]
  <2>1. v \in Version
    BY <1>v, StatusAssumption DEF Version
  <2>2. /\ StoreByOther(v) /\ ~Api.ex /\ UNCHANGED <<queued, timer, pc, histVars>>
        /\ ReconcilePredicate(Api, Stored(v))
    BY <1>1 DEF UserCreate, ReconcilePredicate
  <2> HIDE DEF v
  <2> QED
    BY <2>1, <2>2, OtherKeepsWakeups
<1>2. CASE UserEditSpec
  <2> DEFINE v == [Api EXCEPT !.gen = @ + 1]
  <2>1. v \in Version /\ v.uid = Api.uid /\ v.del = Api.del /\ v.gen # Api.gen
    BY <1>v DEF Version
  <2>2. StoreByOther(v) /\ UNCHANGED <<queued, timer, pc, histVars>>
    BY <1>2 DEF UserEditSpec
  <2> HIDE DEF v
  <2>3. ReconcilePredicate(Api, Stored(v))
    BY <2>1 DEF ReconcilePredicate, Stored, Gone
  <2> QED
    BY <2>1, <2>2, <2>3, OtherKeepsWakeups
<1>3. CASE UserDelete
  <2> DEFINE v == [Api EXCEPT !.del = TRUE, !.gen = @ + 1]
  <2>0. Api.gen + 1 \in Nat
    BY <1>v DEF Version
  <2>1. v \in Version /\ v.uid = Api.uid /\ v.del
    BY <1>v, <2>0 DEF Version
  <2>2. StoreByOther(v) /\ ~Api.del /\ UNCHANGED <<queued, timer, pc, histVars>>
    BY <1>3 DEF UserDelete
  <2> HIDE DEF v
  <2>3. ReconcilePredicate(Api, Stored(v))
    BY <2>1, <2>2 DEF ReconcilePredicate, Stored, Gone
  <2> QED
    BY <2>1, <2>2, <2>3, OtherKeepsWakeups
<1>4. CASE OtherFinalizerRemoved
  <2> DEFINE v == [Api EXCEPT !.ext = FALSE]
  <2>1. /\ v \in Version /\ v.uid = Api.uid /\ v.ex = Api.ex /\ v.fin = Api.fin
        /\ v.del = Api.del /\ v.gen = Api.gen
    BY <1>v DEF Version
  <2>2. StoreByOther(v) /\ Api.ex /\ UNCHANGED <<queued, timer, pc, histVars>>
    BY <1>4 DEF OtherFinalizerRemoved
  <2> HIDE DEF v
  <2>3. Needs(Stored(v)) => Needs(Api)
    BY <2>1 DEF Needs, Stored, Gone
  <2> QED
    BY <2>1, <2>2, <2>3, OtherKeepsWakeups
<1>5. CASE Deliver
  <2>1. /\ Len(log') = Len(log) - 1 /\ 1 < Len(log)
        /\ \A i \in 1 .. Len(log) - 1 : log'[i] = log[i + 1]
        /\ queued' = (queued \/ ReconcilePredicate(log[1], log[2]))
        /\ UNCHANGED <<timer, pc, tried>>
    BY <1>5, <1>t, <1>v, TailVersion DEF Deliver, TypeOK, histVars
  <2>2. AgreesOrWakes' /\ Api' = Api /\ (Wakes(log, 1 + 1) => Wakes(log', 1))
    BY <1>t, <2>1, SuffixKeepsWakeups
  <2>3. Wakes(log, 1) => ReconcilePredicate(log[1], log[2]) \/ Wakes(log, 1 + 1)
    <3>1. ASSUME NEW j \in 1 .. Len(log) - 1, ReconcilePredicate(log[j], log[j + 1])
          PROVE  ReconcilePredicate(log[1], log[2]) \/ Wakes(log, 1 + 1)
      <4>1. CASE j = 1
        BY <3>1, <4>1
      <4>2. CASE j \in 1 + 1 .. Len(log) - 1
        BY <3>1, <4>2 DEF Wakes
      <4> QED
        BY <1>v, <4>1, <4>2
    <3> QED
      BY <3>1 DEF Wakes
  <2>4. WakeupPending => WakeupPending'
    BY <2>1, <2>2, <2>3, WakeupPendingWakes
  <2>5. Needs(Api)' => Needs(Api)
    BY <2>1, <2>2 DEF Needs
  <2> QED
    BY <1>t, <2>2, <2>4, <2>5, NoLostWakeupNeeds
<1>6. CASE TimerFires
  <2>1. UNCHANGED log /\ queued'
    BY <1>6 DEF TimerFires, apiVars
  <2> QED
    BY <1>t, <2>1, SameLogWakeups, NoLostWakeupNeeds, WakeupPendingWakes
<1>7. CASE Restart
  <2>1. log' = <<Api>> /\ queued' = Api.ex
    BY <1>7 DEF Restart
  <2>2. /\ Len(log) - 1 \in Nat /\ Len(log) - 1 < Len(log)
        /\ Len(log') = Len(log) - (Len(log) - 1)
        /\ \A i \in 1 .. Len(log) - (Len(log) - 1) : log'[i] = log[i + (Len(log) - 1)]
    BY <1>v, <2>1
  <2>3. AgreesOrWakes' /\ Api' = Api
    BY <1>t, <2>2, SuffixKeepsWakeups
  <2>4. Needs(Api)' => queued'
    BY <2>1, <2>3 DEF Needs
  <2> QED
    BY <2>3, <2>4, NoLostWakeupNeeds, WakeupPendingWakes
<1>8. CASE Start
  <2>1. UNCHANGED <<log, timer>>
    BY <1>8 DEF Start, apiVars
  <2>2. AgreesOrWakes' /\ Api' = Api /\ Wakes(log', 1) = Wakes(log, 1)
    BY <1>t, <2>1, SameLogWakeups
  <2>3. Agree(Cached, Api) \/ Wakes(log, 1)
    BY <1>t, <1>v DEF AgreesOrWakes, Indices
  <2>4. CASE ~Cached.ex
    <3>1. Agree(Cached, Api) => ~Needs(Api)'
      BY <2>2, <2>4 DEF Agree, Needs
    <3> QED
      BY <2>2, <2>3, <3>1, NoLostWakeupNeeds, WakeupPendingWakes
  <2>5. CASE pc' \in {"addFinalizer", "delete"}
    BY <2>2, <2>5, NoLostWakeupNeeds, WakeupPendingWakes
  <2>6. CASE ~Cached.del /\ CallCreateOrUpdate(Cached)
    <3>1. Agree(Cached, Api) => ~Needs(Api)'
      BY <2>2, <2>6 DEF Agree, Needs, CallCreateOrUpdate
    <3> QED
      BY <2>2, <2>3, <3>1, NoLostWakeupNeeds, WakeupPendingWakes
  <2> QED
    BY <1>8, <2>4, <2>5, <2>6 DEF Start
<1>9. CASE AddFinalizer
  <2> DEFINE v == [obj EXCEPT !.fin = TRUE]
  <2>1. /\ v \in Version /\ v.fin /\ v.uid = obj.uid /\ v.del = obj.del
    BY <1>v DEF Version
  <2>2. Room /\ Store(v) /\ CallCreateOrUpdate(v) /\ fresh /\ (~Api.fin => ~Api.del)
    BY <1>9, <2>1 DEF AddFinalizer, UpdateAccepted
  <2> HIDE DEF v
  <2>3. Api.uid = obj.uid /\ Api.del = obj.del /\ ~Api.fin
    BY <1>9, <1>t, <2>2 DEF AddFinalizer, HeldIsStored, HeldInStep
  <2>4. AgreesOrWakes' /\ Api' = Stored(v)
    BY <1>t, <2>1, <2>2, <2>3, StoreKeepsWakeups, StoreEffect
  <2>5. ~Needs(Api)'
    BY <2>1, <2>2, <2>3, <2>4 DEF Stored, Needs, CallCreateOrUpdate
  <2> QED
    BY <2>4, <2>5, NoLostWakeupNeeds
<1>10. CASE FinalizerUpdateFails
  <2>1. UNCHANGED log /\ timer'
    BY <1>10 DEF FinalizerUpdateFails, apiVars, Finish
  <2> QED
    BY <1>t, <2>1, SameLogWakeups, NoLostWakeupNeeds, WakeupPendingWakes
<1>11. CASE PatchStatus
  <2>1. /\ pc = "patchStatus" /\ (PatchApplied \/ UNCHANGED log)
        /\ UNCHANGED <<queued, histVars>> /\ (timer => timer')
    BY <1>11 DEF PatchStatus, Finish
  <2>2. /\ AgreesOrWakes' /\ (Wakes(log, 1) => Wakes(log', 1)) /\ (Needs(Api)' => Needs(Api))
    <3>1. CASE PatchApplied
      BY <2>1, <3>1, PatchKeepsWakeups
    <3>2. CASE UNCHANGED log
      BY <1>t, <2>1, <3>2, SameLogWakeups DEF Needs, histVars
    <3> QED
      BY <2>1, <3>1, <3>2
  <2> QED
    BY <1>t, <2>1, <2>2, NoLostWakeupNeeds, WakeupPendingWakes
<1>12. CASE PatchDeleteStatus
  <2>1. (PatchApplied \/ UNCHANGED log) /\ UNCHANGED histVars /\ timer'
    BY <1>12 DEF PatchDeleteStatus, Finish
  <2>2. AgreesOrWakes'
    BY <1>t, <2>1, PatchKeepsWakeups, SameLogWakeups
  <2> QED
    BY <2>1, <2>2, NoLostWakeupNeeds, WakeupPendingWakes
<1>13. CASE RemoveFinalizer
  <2> DEFINE v == [Api EXCEPT !.fin = FALSE]
  <2>1. /\ v \in Version /\ ~v.fin /\ v.uid = Api.uid /\ v.del = Api.del
    BY <1>v DEF Version
  <2>2. Room /\ Store(v) /\ fresh /\ pc = "removeFinalizer"
    BY <1>13 DEF RemoveFinalizer, UpdateAccepted
  <2> HIDE DEF v
  <2>3. Api.ex /\ Api.uid = obj.uid
    BY <1>t, <2>2 DEF HeldIsStored
  <2>4. Api.del
    BY <1>t, <1>v, <2>2, <2>3 DEF HeldIsDeleting, Indices
  <2>5. AgreesOrWakes' /\ Api' = Stored(v)
    BY <1>t, <2>1, <2>2, <2>3, StoreKeepsWakeups, StoreEffect
  <2>6. ~Needs(Api)'
    BY <2>1, <2>4, <2>5 DEF Stored, Gone, Needs
  <2> QED
    BY <2>5, <2>6, NoLostWakeupNeeds
<1>14. CASE \E st \in Status, r \in AnyResponses : CreateOrUpdateReturns(st, r)
  <2>1. UNCHANGED <<log, queued, timer, tried>> /\ pc = "createOrUpdate"
    BY <1>14 DEF CreateOrUpdateReturns, apiVars, histVars
  <2>2. Needs(Api)' => Needs(Api)
    BY <1>t, <2>1, SameLogWakeups DEF Needs
  <2> QED
    BY <1>t, <2>1, <2>2, SameLogWakeups, NoLostWakeupNeeds, WakeupPendingWakes
<1>15. CASE \E st \in Status, out \in DeleteOutcomes : DeleteReturns(st, out)
  <2>1. UNCHANGED log /\ (timer' \/ pc' \in {"patchDeleteStatus", "removeFinalizer"})
    BY <1>15 DEF DeleteReturns, apiVars, Finish
  <2> QED
    BY <1>t, <2>1, SameLogWakeups, NoLostWakeupNeeds, WakeupPendingWakes
<1>16. CASE UNCHANGED vars
  <2>1. UNCHANGED <<log, queued, timer, pc, tried>>
    BY <1>16 DEF vars, apiVars, ctrlVars, histVars
  <2>2. Needs(Api)' => Needs(Api)
    BY <1>t, <2>1, SameLogWakeups DEF Needs
  <2> QED
    BY <1>t, <2>1, <2>2, SameLogWakeups, NoLostWakeupNeeds, WakeupPendingWakes
<1> QED
  BY <1>1, <1>2, <1>3, <1>4, <1>5, <1>6, <1>7, <1>8, <1>9, <1>10, <1>11, <1>12,
     <1>13, <1>14, <1>15, <1>16 DEF Next, Environment, Controller, ServiceManager

\* Whatever the service manager does, and although the event filter drops
\* status changes and resyncs and Reconcile returns no errors: a deletion that
\* waits for the OSOK finalizer, and a generation CreateOrUpdate has not been
\* called on, always have another reconcile coming.
THEOREM NoWakeupIsLost == Spec => []NoLostWakeup
<1>1. Init => AgreesOrWakes /\ NoLostWakeup
  <2> SUFFICES ASSUME Init PROVE AgreesOrWakes /\ NoLostWakeup
    OBVIOUS
  <2>1. Len(log) = 1 /\ log[1] = Gone(0)
    BY DEF Init
  <2>2. Api = Gone(0) /\ ~Api.ex
    BY <2>1 DEF Api, Gone
  <2> QED
    BY <2>1, <2>2 DEF AgreesOrWakes, NoLostWakeup, Agree, Indices
<1>2. IInv /\ (AgreesOrWakes /\ NoLostWakeup) /\ [Next]_vars => (AgreesOrWakes /\ NoLostWakeup)'
  BY WakeupInductive DEF WInv
<1> QED
  BY <1>1, <1>2, IInvInvariant, PTL DEF Spec
=============================================================================
