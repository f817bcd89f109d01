--------------------------- MODULE PasswordProofs ---------------------------
(***************************************************************************)
(* ActiveMeansPassword of ProtectedDatabase, for every sequence of edits   *)
(* that do not change password and compartment at once, every number of    *)
(* failures and restarts, and every lag of the cache.                      *)
(*                                                                         *)
(* The argument follows the last edit, made when the one before it was     *)
(* settled.  As long as a reconcile of an earlier generation runs or is    *)
(* still to come, everything stays as it was when the edit was made.       *)
(* Afterwards all reconciles are of the last generation.  Either its       *)
(* password is in force, and then nothing takes it away, or no status and  *)
(* no Secret claims that it is: no work request that has succeeded is      *)
(* tracked anywhere, so that no reconcile ends in Active.                  *)
(***************************************************************************)
EXTENDS ProtectedDatabaseProofs

\* No edit changes both the password and the compartment (one that does is
\* the run protected_database_move).
MovesAlone ==
    \A e \in Edits : \A i \in 1 .. MaxGen - 1 :
        e[i].comp # e[i + 1].comp => e[i].pw = e[i + 1].pw

Latest  == spec[Len(spec)]
Earlier == spec[Len(spec) - 1]

\* A version that CreateOrUpdate may be called on.
Living(v) == v.ex /\ ~v.del

Reconciling == pc \in {"createOrUpdate", "patchStatus"}
Deleting    == pc \in {"delete", "patchDeleteStatus", "removeFinalizer"}

-----------------------------------------------------------------------------
(* The inductive invariant. *)

\* Generations only grow along the log, and the reconcile in progress is not
\* of a later one than those still to come.
GenerationsOrdered ==
    /\ \A i, j \in 1 .. Len(log) :
          i <= j /\ Living(log[i]) /\ Living(log[j]) => log[i].gen <= log[j].gen
    /\ \A k \in 1 .. Len(log) : log[k].ex => log[k].uid # 0

HeldOrdered ==
    /\ Reconciling => obj.gen \in 1 .. Len(spec)
    /\ Reconciling \/ (pc = "addFinalizer" /\ fresh) =>
          \A k \in 1 .. Len(log) : Living(log[k]) => obj.gen <= log[k].gen
    /\ Deleting => obj.uid # 0
    /\ pc = "createOrUpdate" => old = obj.st

\* The database changes only through an operation in progress.
WantInForce == db.state \notin {"CREATING", "UPDATING"} => db.want = db.spec

\* A CreateOrUpdate runs, or may still be called.
InUse == Reconciling \/ \E k \in 1 .. Len(log) : Living(log[k])

\* One of an earlier generation does.
Behind ==
    \/ Reconciling /\ obj.gen < Len(spec)
    \/ \E k \in 1 .. Len(log) : Living(log[k]) /\ log[k].gen < Len(spec)

Running == pc = "createOrUpdate" /\ call.step # "none"

\* What a status patch from b to a may do in a reconcile of an earlier
\* generation: it names no other work request, and the database.
Quiet(b, a) == a.async.wr \in {b.async.wr, 0} /\ a.ocid \in {b.ocid, 1}

FrozenLog ==
    \A k \in 1 .. Len(log) : Living(log[k]) =>
        IF log[k].gen < Len(spec) THEN spec[log[k].gen] = Earlier
        ELSE log[k].st.ocid = 1 /\ log[k].st.async.wr = 0

FrozenSteps == {"readForChange", "enter", "readBack", "record", "reread", "rewrite"}

FrozenCall ==
    call.step \in FrozenSteps /\ call.hash \in {Earlier.pw, ""} /\ Quiet(old, call.st)

\* Nothing has changed since the last edit.
Frozen ==
    /\ db.state = "ACTIVE" /\ db.spec = Earlier /\ db.want = Earlier
    /\ secret \in {Earlier.pw, "", "foreign"}
    /\ FrozenLog
    /\ Reconciling => spec[obj.gen] = Earlier
    /\ Running => FrozenCall
    /\ pc = "patchStatus" => Quiet(old, obj.st)

Applied == db.spec.pw = Latest.pw /\ db.want.pw = Latest.pw

\* The status knows the database and tracks no work request that succeeded.
Known(st, ws) == st.ocid = 1 /\ (st.async.wr # 0 => ws[st.async.wr].status # "SUCCEEDED")

UnappliedDb ==
    /\ db.state \in {"ACTIVE", "UPDATING"}
    /\ db.spec.pw # Latest.pw /\ db.spec.comp = Latest.comp
    /\ db.state = "UPDATING" => db.want.pw = Latest.pw

UnappliedCall ==
    /\ call.step \in {"readForChange", "enter", "update"}
    /\ call.hash # Latest.pw /\ (call.step = "update" => call.hash # "")
    /\ Known(call.st, wrs)

KnownLog == \A k \in 1 .. Len(log) : Living(log[k]) => Known(log[k].st, wrs)

\* The password is not in force, and nobody takes it for being so.
Unapplied ==
    /\ UnappliedDb
    /\ secret # Latest.pw
    /\ KnownLog
    /\ Reconciling => Known(obj.st, wrs)
    /\ Running => UnappliedCall
    /\ pc = "patchStatus" => obj.st.reason # "Active"

Progress ==
    /\ Len(spec) = 1 => db.spec = spec[1] /\ db.want = spec[1]
    /\ Len(spec) > 1 /\ InUse => IF Behind THEN Frozen ELSE Applied \/ Unapplied

WInv ==
    /\ PInv /\ RP!UidBounded /\ GenerationsOrdered /\ HeldOrdered /\ WantInForce
    /\ ~late => Progress

-----------------------------------------------------------------------------
(* The log. *)

LEMMA MoveKeepsPassword ==
    ASSUME MovesAlone, SpecOK, Len(spec) > 1
    PROVE  Earlier.comp # Latest.comp => Earlier.pw = Latest.pw
<1>1. /\ Len(spec) \in 1 .. MaxGen /\ spec \in WrittenSpecs(Len(spec)) /\ MaxGen \in Nat
      /\ Len(spec) \in Nat
  BY ReconcilerBounds DEF SpecOK
<1>2. PICK e \in Edits : spec = SubSeq(e, 1, Len(spec))
  BY <1>1 DEF WrittenSpecs
<1>3. e \in Seq(Specs) /\ Len(e) = MaxGen
  BY ProtectedDatabaseAssumption
<1> DEFINE i == Len(spec) - 1
<1>4. i \in 1 .. MaxGen - 1 /\ i \in 1 .. Len(spec) /\ i + 1 = Len(spec)
  BY <1>1
<1>5. \A j \in 1 .. Len(spec) : spec[j] = e[j]
  <2>1. \A m \in 1 .. Len(e) : \A j \in 1 .. m : SubSeq(e, 1, m)[j] = e[j]
    BY <1>3
  <2> QED
    BY <1>1, <1>2, <1>3, <2>1
<1>6. spec[i] = e[i] /\ spec[i + 1] = e[i + 1]
  BY <1>1, <1>4, <1>5
<1> QED
  BY <1>4, <1>6 DEF MovesAlone, Earlier, Latest

LEMMA VersionFacts ==
    ASSUME RP!IInv
    PROVE  \A k \in 1 .. Len(log) :
              /\ log[k] \in RP!Version /\ log[k].gen \in Nat /\ log[k].uid \in Nat
              /\ log[k].st \in OSOKStatus
<1>1. \A k \in 1 .. Len(log) : log[k] \in RP!Version
  BY StatusFits, BoundsFit, RP!VersionsInLog DEF RP!IInv
<1> QED
  BY <1>1 DEF RP!Version

\* On the delete path no version is left to call CreateOrUpdate on.
LEMMA DeletingEnds ==
    ASSUME RP!IInv, RP!UidBounded, HeldOrdered, Deleting
    PROVE  \A k \in 1 .. Len(log) : ~Living(log[k])
<1> SUFFICES ASSUME NEW k \in 1 .. Len(log) PROVE ~Living(log[k])
  OBVIOUS
<1>1. Len(log) \in Nat /\ Len(log) \in 1 .. Len(log) /\ k <= Len(log)
  BY LogFacts
<1>2. log[k].uid <= RP!Api.uid /\ RP!Api.uid <= 1
  BY <1>1, ReconcilerBounds DEF RP!IInv, RP!LogOrdered, RP!Indices, RP!Api, RP!UidBounded
<1>3. obj.uid <= log[k].uid /\ (log[k].uid = obj.uid /\ log[k].ex => log[k].del)
  BY DEF RP!IInv, RP!HeldIsDeleting, RP!Indices, Deleting
<1>4. obj.uid # 0 /\ obj.uid \in Nat /\ log[k].uid \in Nat /\ RP!Api.uid \in Nat
  BY ReconcilerFacts, VersionFacts, LogFacts DEF HeldOrdered
<1>5. log[k].uid = obj.uid
  BY <1>2, <1>3, <1>4
<1> QED
  BY <1>3, <1>5 DEF Living

\* Version v may be stored next.
Follows(v) ==
    /\ v.ex => v.uid # 0
    /\ Living(v) =>
         /\ v.gen = Len(spec')
         /\ \/ ~Api.ex /\ Api.uid = 0 /\ Len(spec') = 1
            \/ /\ Living(Api)
               /\ \/ v.st = Api.st
                  \/ pc = "patchStatus" /\ v.st = MergeFrom(Api.st, old, obj.st)

Appended ==
    /\ Len(log') = Len(log) + 1 /\ \A k \in 1 .. Len(log) : log'[k] = log[k]
    /\ log'[Len(log) + 1] \in RP!Version /\ Follows(log'[Len(log) + 1])

\* The cache catches up by d versions.
Shifted ==
    \E d \in 0 .. Len(log) - 1 :
        /\ Len(log') = Len(log) - d
        /\ \A k \in 1 .. Len(log') : log'[k] = log[k + d]

LEMMA StoreAppends ==
    ASSUME RP!IInv, NEW v \in RP!Version, R!Room, R!Store(v), Follows(v)
    PROVE  Appended
<1>1. RP!TypeOK /\ RP!Room /\ RP!Store(v)
  BY DEF RP!IInv, R!Room, RP!Room, R!Store, RP!Store, R!Gone, RP!Gone
<1>2. /\ Len(log') = Len(log) + 1 /\ \A i \in 1 .. Len(log) : log'[i] = log[i]
      /\ RP!Api' = RP!Stored(v) /\ RP!Stored(v) \in RP!Version
  BY <1>1, StatusFits, BoundsFit, RP!StoreEffect
<1>3. log'[Len(log) + 1] = RP!Stored(v)
  BY <1>2 DEF RP!Api
<1>4. RP!Stored(v) = v \/ ~RP!Stored(v).ex
  BY DEF RP!Stored, RP!Gone
<1>5. Follows(RP!Stored(v))
  BY <1>4 DEF Follows, Living
<1> QED
  BY <1>2, <1>3, <1>5 DEF Appended

LEMMA SameLogShifted ==
    ASSUME RP!IInv, UNCHANGED log
    PROVE  Shifted
<1>1. Len(log) \in Nat /\ Len(log) >= 1
  BY LogFacts
<1>2. 0 \in 0 .. Len(log) - 1 /\ Len(log') = Len(log) - 0
      /\ \A k \in 1 .. Len(log') : log'[k] = log[k + 0]
  BY <1>1
<1> QED
  BY <1>2 DEF Shifted

LEMMA LogStep ==
    ASSUME PInv, RP!UidBounded, HeldOrdered, [Next]_vars
    PROVE  Shifted \/ Appended
<1>i. RP!IInv /\ CallOK /\ SpecOK /\ StateOK /\ SpecInLog
  BY SpecParts DEF PInv
<1>l. /\ Len(log) \in Nat /\ Len(log) >= 1 /\ log \in Seq(RP!Version)
      /\ Api \in RP!Version /\ Api.uid \in Nat /\ Api.gen \in Nat /\ Api = log[Len(log)]
      /\ Api.st \in OSOKStatus
  BY <1>i, LogFacts DEF RP!Version
<1>a. R!Api = Api
  BY DEF Api
<1>s. ASSUME NEW v \in RP!Version, R!Room, R!Store(v), Follows(v)
      PROVE  Appended
  BY <1>i, <1>s, StoreAppends
<1>u. UNCHANGED log => Shifted
  BY <1>i, SameLogShifted
<1>g. Api.ex => Api.uid # 0 /\ (~Api.del => Api.gen = Len(spec))
  BY <1>i DEF SpecInLog
<1>1. CASE R!UserCreate /\ UNCHANGED spec
  <2> PICK e \in BOOLEAN :
         R!StoreByOther([ex |-> TRUE, uid |-> R!Api.uid + 1, gen |-> 1, fin |-> FALSE,
                         ext |-> e, del |-> FALSE, st |-> NoStatus])
    BY <1>1 DEF R!UserCreate
  <2> DEFINE v == [ex |-> TRUE, uid |-> R!Api.uid + 1, gen |-> 1, fin |-> FALSE,
                   ext |-> e, del |-> FALSE, st |-> NoStatus]
  <2>1. R!Room /\ R!Store(v) /\ ~Api.ex /\ Api.uid < 1
    BY <1>1, <1>a, ReconcilerBounds DEF R!UserCreate, R!StoreByOther
  <2>2. Api.uid + 1 \in Nat /\ Api.uid + 1 # 0 /\ Api.uid = 0
    BY <1>l, <2>1
  <2>3. v \in RP!Version /\ v.uid # 0 /\ v.gen = 1
    BY <1>a, <2>2, MergeFromIsStatus DEF RP!Version
  <2>4. Len(spec') = 1
    BY <1>1, <1>i, <2>2 DEF SpecInLog
  <2> HIDE DEF v
  <2>5. Follows(v)
    BY <2>1, <2>2, <2>3, <2>4 DEF Follows
  <2> QED
    BY <1>s, <2>1, <2>3, <2>5
<1>2. CASE /\ R!UserEditSpec /\ ~Api.del
           /\ \E next \in WrittenSpecs(Len(spec) + 1) :
                 SubSeq(next, 1, Len(spec)) = spec /\ spec' = next
  <2> DEFINE v == [R!Api EXCEPT !.gen = @ + 1]
  <2>1. R!Room /\ R!Store(v) /\ Api.ex /\ Api.gen < MaxGen
    BY <1>2, <1>a DEF R!UserEditSpec, R!StoreByOther
  <2>2. Api.gen = Len(spec) /\ Api.uid # 0
    BY <1>2, <1>g, <2>1
  <2>3. Len(spec) + 1 \in 1 .. MaxGen
    BY <1>l, <2>1, <2>2, ReconcilerBounds
  <2>4. Len(spec') = Len(spec) + 1
    BY <1>2, <2>3, WrittenType
  <2>5. v \in RP!Version /\ v.uid # 0 /\ v.gen = Len(spec) + 1 /\ v.st = Api.st
    BY <1>a, <1>l, <2>1, <2>2 DEF RP!Version
  <2> HIDE DEF v
  <2>6. Follows(v)
    BY <1>2, <2>1, <2>4, <2>5 DEF Follows, Living
  <2> QED
    BY <1>s, <2>1, <2>5, <2>6
<1>3. CASE R!UserDelete /\ UNCHANGED spec
  <2> DEFINE v == [R!Api EXCEPT !.del = TRUE, !.gen = @ + 1]
  <2>1. R!Room /\ R!Store(v) /\ Api.ex
    BY <1>3, <1>a DEF R!UserDelete, R!StoreByOther
  <2>2. Api.gen + 1 \in Nat /\ Api.uid # 0
    BY <1>l, <1>g, <2>1
  <2>3. v \in RP!Version /\ v.uid # 0 /\ v.del
    BY <1>a, <1>l, <2>1, <2>2 DEF RP!Version
  <2> HIDE DEF v
  <2>4. Follows(v)
    BY <2>3 DEF Follows, Living
  <2> QED
    BY <1>s, <2>1, <2>3, <2>4
<1>4. CASE R!Deliver
  <2>1. log' = Tail(log) /\ Len(log) > 1
    BY <1>4 DEF R!Deliver
  <2>2. 1 \in 0 .. Len(log) - 1 /\ Len(log') = Len(log) - 1
        /\ \A k \in 1 .. Len(log') : log'[k] = log[k + 1]
    BY <1>l, <2>1
  <2> QED
    BY <2>2 DEF Shifted
<1>5. CASE R!AddFinalizer /\ UNCHANGED spec
  <2> DEFINE v == [obj EXCEPT !.fin = TRUE]
  <2>1. R!UpdateAccepted(v) /\ R!Store(v) /\ pc = "addFinalizer"
    BY <1>5 DEF R!AddFinalizer
  <2>2. obj = Api /\ obj.ex /\ R!Room
    BY <1>i, <2>1 DEF SpecOK, R!UpdateAccepted, RP!IInv, RP!HeldInStep
  <2>3. /\ v \in RP!Version /\ v.uid = Api.uid /\ v.st = Api.st /\ v.del = Api.del
        /\ v.gen = Api.gen /\ v.ex
    BY <1>l, <2>2 DEF RP!Version
  <2> HIDE DEF v
  <2>4. Follows(v)
    BY <1>5, <1>g, <2>2, <2>3 DEF Follows, Living
  <2> QED
    BY <1>s, <2>1, <2>2, <2>3, <2>4
<1>6. CASE (R!PatchStatus \/ R!PatchDeleteStatus) /\ UNCHANGED spec
  <2>1. CASE UNCHANGED log
    BY <1>u, <2>1
  <2>2. CASE R!PatchApplied /\ ~UNCHANGED log
    <3> DEFINE st == MergeFrom(R!Api.st, old, obj.st)
               v == [R!Api EXCEPT !.st = st]
    <3>1. old \in OSOKStatus /\ obj.st \in OSOKStatus
      BY <1>i, ReconcilerFacts
    <3>2. st \in OSOKStatus /\ st = MergeFrom(Api.st, old, obj.st)
      BY <1>a, <1>l, <3>1, MergeFromIsStatus
    <3>3. Api.ex /\ R!Room /\ R!Store(v)
      BY <1>a, <2>2 DEF R!PatchApplied
    <3> HIDE DEF st
    <3>4. /\ v \in RP!Version /\ v.uid = Api.uid /\ v.del = Api.del /\ v.st = st
          /\ v.gen = Api.gen
      BY <1>a, <1>l, <3>2 DEF RP!Version
    <3> HIDE DEF v
    <3>5. pc = "patchStatus" \/ ~Living(Api)
      <4>1. CASE R!PatchDeleteStatus
        <5>1. Deleting
          BY <4>1 DEF R!PatchDeleteStatus, Deleting
        <5> QED
          BY <1>i, <1>l, <5>1, DeletingEnds
      <4> QED
        BY <1>6, <4>1 DEF R!PatchStatus
    <3>6. Follows(v)
      BY <1>6, <1>g, <3>2, <3>3, <3>4, <3>5 DEF Follows, Living
    <3> QED
      BY <1>s, <3>3, <3>4, <3>6
  <2> QED
    BY <1>6, <2>1, <2>2 DEF R!PatchStatus, R!PatchDeleteStatus
<1>7. CASE R!RemoveFinalizer /\ UNCHANGED spec
  <2> DEFINE v == [R!Api EXCEPT !.fin = FALSE]
  <2>1. fresh /\ R!Room /\ R!Store(v) /\ pc = "removeFinalizer"
    BY <1>7 DEF R!RemoveFinalizer, R!UpdateAccepted
  <2>2. Api.ex
    BY <1>i, <2>1, LogFacts DEF RP!IInv, RP!HeldIsStored
  <2>3. /\ v \in RP!Version /\ v.uid = Api.uid /\ v.del = Api.del /\ v.st = Api.st
        /\ v.gen = Api.gen
    BY <1>a, <1>l DEF RP!Version
  <2> HIDE DEF v
  <2>4. Follows(v)
    BY <1>7, <1>g, <2>2, <2>3 DEF Follows, Living
  <2> QED
    BY <1>s, <2>1, <2>3, <2>4
<1>8. CASE Restart
  <2>1. log' = <<Api>>
    BY <1>8, <1>a DEF Restart, R!Restart
  <2> DEFINE d == Len(log) - 1
  <2>2. d \in 0 .. Len(log) - 1 /\ Len(log') = Len(log) - d
        /\ \A k \in 1 .. Len(log') : log'[k] = log[k + d]
    BY <1>l, <2>1
  <2> QED
    BY <2>2 DEF Shifted
<1>9. CASE CreateOrUpdate \/ Delete
  <2>1. CallStep
    BY <1>i, <1>9, ReconcilerFacts, CreateOrUpdateStep, DeleteStep DEF StateOK
  <2>2. UNCHANGED log
    BY <2>1 DEF CallStep, reconcilerVars, R!CreateOrUpdateReturns, R!DeleteReturns, R!apiVars
  <2> QED
    BY <1>u, <2>2
<1>10. CASE R!TimerFires \/ R!Start \/ R!FinalizerUpdateFails
  BY <1>10, <1>u DEF R!TimerFires, R!Start, R!FinalizerUpdateFails, R!apiVars
<1>11. CASE UserChangesSecret \/ (Oci /\ UNCHANGED <<reconcilerVars, spec, secret, call, histVars>>)
            \/ UNCHANGED vars
  BY <1>11, <1>u DEF UserChangesSecret, vars, reconcilerVars
<1>12. CASE Kubernetes
  BY <1>12, <1>1, <1>2, <1>3, <1>4, <1>5, <1>6, <1>7, <1>10 DEF Kubernetes, Users, R!Controller
<1> QED
  BY <1>8, <1>9, <1>11, <1>12 DEF Next

LEMMA GenerationsInductive ==
    ASSUME PInv, PInv', GenerationsOrdered, Shifted \/ Appended
    PROVE  GenerationsOrdered'
<1>i. RP!IInv /\ SpecOK'
  BY DEF PInv
<1>l. Len(log) \in Nat /\ Len(log) >= 1
  BY <1>i, LogFacts
<1>1. CASE Shifted
  <2>1. PICK d \in 0 .. Len(log) - 1 :
           /\ Len(log') = Len(log) - d
           /\ \A k \in 1 .. Len(log') : log'[k] = log[k + d]
    BY <1>1 DEF Shifted
  <2>2. /\ d \in Nat /\ Len(log') \in Nat
        /\ \A k \in 1 .. Len(log') : k \in Nat /\ k + d \in 1 .. Len(log)
    BY <1>l, <2>1
  <2>3. \A i, j \in 1 .. Len(log') : i <= j => i + d <= j + d
    BY <2>2
  <2> QED
    BY <2>1, <2>2, <2>3 DEF GenerationsOrdered, Living
<1>2. CASE Appended
  <2> DEFINE m == Len(log) + 1
  <2>1. /\ Len(log') = m /\ \A k \in 1 .. Len(log) : log'[k] = log[k]
        /\ log'[m].ex => log'[m].uid # 0
        /\ Living(log'[m]) => log'[m].gen = Len(spec')
    BY <1>2 DEF Appended, Follows
  <2>2. \A k \in 1 .. m : k \in 1 .. Len(log) \/ k = m
    BY <1>l
  <2>3. \A k \in 1 .. Len(log') : Living(log'[k]) => log'[k].gen \in 1 .. Len(spec')
    BY <1>i DEF SpecOK, Living
  <2>4. Len(spec') \in Nat
    BY <1>i, ReconcilerBounds DEF SpecOK
  <2>5. ASSUME NEW i \in 1 .. Len(log'), NEW j \in 1 .. Len(log'), i <= j,
               Living(log'[i]), Living(log'[j])
        PROVE  log'[i].gen <= log'[j].gen
    <3>1. CASE j = m
      BY <2>1, <2>3, <2>4, <2>5, <3>1
    <3>2. CASE j \in 1 .. Len(log)
      <4>1. i \in 1 .. Len(log)
        BY <1>l, <2>1, <2>5, <3>2
      <4> QED
        BY <2>1, <2>5, <3>2, <4>1 DEF GenerationsOrdered
    <3> QED
      BY <2>1, <2>2, <3>1, <3>2
  <2>6. \A k \in 1 .. Len(log') : log'[k].ex => log'[k].uid # 0
    BY <2>1, <2>2 DEF GenerationsOrdered
  <2> QED
    BY <2>5, <2>6 DEF GenerationsOrdered, Living
<1> QED
  BY <1>1, <1>2

\* What a step does to what the reconciler holds while it calls the manager
\* or patches.
HeldStarts ==
    /\ pc = "idle" /\ pc' = "createOrUpdate" /\ UNCHANGED <<log, spec, call>>
    /\ Living(log[1]) /\ obj' = log[1] /\ old' = log[1].st

HeldAdds ==
    /\ pc = "addFinalizer" /\ fresh /\ pc' = "createOrUpdate" /\ UNCHANGED <<spec, call>>
    /\ obj = Api /\ Living(Api)
    /\ obj'.gen = Api.gen /\ obj'.st = Api.st /\ old' = Api.st

LEMMA KubernetesHolds ==
    ASSUME PInv, Kubernetes \/ Restart, Reconciling'
    PROVE  \/ UNCHANGED <<pc, obj, old, call>> /\ (fresh' => fresh)
           \/ HeldStarts
           \/ HeldAdds
<1>i. RP!IInv /\ SpecOK
  BY DEF PInv
<1>1. CASE Restart
  BY <1>1 DEF Restart, R!Restart, Reconciling
<1>2. CASE (Users \/ R!Deliver \/ R!TimerFires) /\ UNCHANGED call
  BY <1>2 DEF Users, R!UserCreate, R!UserEditSpec, R!UserDelete, R!Deliver, R!TimerFires,
              R!StoreByOther
<1>3. CASE R!Start /\ UNCHANGED <<spec, call>>
  BY <1>3 DEF R!Start, R!Cached, R!CallCreateOrUpdate, Reconciling, HeldStarts, Living, R!apiVars
<1>4. CASE R!AddFinalizer /\ UNCHANGED <<spec, call>>
  <2>1. /\ R!UpdateAccepted([obj EXCEPT !.fin = TRUE]) /\ pc = "addFinalizer"
        /\ R!CallCreateOrUpdate([obj EXCEPT !.fin = TRUE])
    BY <1>4 DEF R!AddFinalizer
  <2>2. obj = Api /\ obj.ex /\ ~obj.fin /\ Api \in RP!Version /\ R!Api = Api /\ fresh
    BY <1>i, <2>1, LogFacts DEF SpecOK, R!UpdateAccepted, RP!IInv, RP!HeldInStep, Api
  <2>3. ~Api.del
    BY <2>1, <2>2 DEF R!UpdateAccepted, RP!Version
  <2> QED
    BY <1>4, <2>1, <2>2, <2>3 DEF R!CallCreateOrUpdate, RP!Version, HeldAdds, Living
<1>5. CASE \/ R!FinalizerUpdateFails \/ R!PatchStatus \/ R!PatchDeleteStatus \/ R!RemoveFinalizer
  BY <1>5 DEF R!FinalizerUpdateFails, R!PatchStatus, R!PatchDeleteStatus, R!RemoveFinalizer,
              R!Finish, Reconciling
<1> QED
  BY <1>1, <1>2, <1>3, <1>4, <1>5 DEF Kubernetes, R!Controller

\* A version in the log was there before, or is the one stored by the step.
LEMMA VersionsStep ==
    ASSUME RP!IInv, Shifted \/ Appended
    PROVE  \A k \in 1 .. Len(log') :
              \/ \E m \in 1 .. Len(log) : log'[k] = log[m]
              \/ Appended /\ k = Len(log) + 1 /\ Follows(log'[k])
<1>l. Len(log) \in Nat /\ Len(log) >= 1
  BY LogFacts
<1>1. CASE Shifted
  <2>1. PICK d \in 0 .. Len(log) - 1 :
           /\ Len(log') = Len(log) - d
           /\ \A k \in 1 .. Len(log') : log'[k] = log[k + d]
    BY <1>1 DEF Shifted
  <2>2. \A k \in 1 .. Len(log') : k + d \in 1 .. Len(log)
    BY <1>l, <2>1
  <2> QED
    BY <2>1, <2>2
<1>2. CASE Appended
  BY <1>l, <1>2 DEF Appended
<1> QED
  BY <1>1, <1>2

LEMMA SpecGrows ==
    ASSUME PInv, [Next]_vars
    PROVE  /\ Len(spec) \in Nat /\ Len(spec') \in Nat /\ Len(spec) >= 1
           /\ Len(spec) <= Len(spec')
           /\ \A i \in 1 .. Len(spec) : spec'[i] = spec[i]
<1>1. /\ Len(spec) \in 1 .. MaxGen /\ spec \in WrittenSpecs(Len(spec)) /\ MaxGen \in Nat
      /\ Len(spec) \in Nat
  BY ReconcilerBounds DEF PInv, SpecOK
<1>2. CASE UNCHANGED spec
  BY <1>1, <1>2
<1>3. CASE /\ R!UserEditSpec /\ ~Api.del
           /\ \E next \in WrittenSpecs(Len(spec) + 1) :
                 SubSeq(next, 1, Len(spec)) = spec /\ spec' = next
  <2>1. Api.ex /\ Api.gen < MaxGen /\ Api.gen = Len(spec)
    BY <1>3 DEF R!UserEditSpec, Api, PInv, SpecOK
  <2>2. Len(spec) + 1 \in 1 .. MaxGen
    BY <1>1, <2>1
  <2>3. spec' \in Seq(Specs) /\ Len(spec') = Len(spec) + 1 /\ SubSeq(spec', 1, Len(spec)) = spec
    BY <1>3, <2>2, WrittenType
  <2>4. \A i \in 1 .. Len(spec) : SubSeq(spec', 1, Len(spec))[i] = spec'[i]
    BY <1>1, <2>3
  <2> QED
    BY <1>1, <2>3, <2>4
<1> QED
  BY <1>2, <1>3 DEF Next, Kubernetes, Users, Restart, UserChangesSecret, vars

LEMMA HeldInductive ==
    ASSUME PInv, PInv', RP!UidBounded, GenerationsOrdered, HeldOrdered, Shifted \/ Appended,
           [Next]_vars
    PROVE  HeldOrdered'
<1>i. RP!IInv /\ CallOK /\ SpecOK /\ StateOK
  BY DEF PInv
<1>g. /\ Len(spec) \in Nat /\ Len(spec') \in Nat /\ Len(spec) <= Len(spec') /\ Len(spec) >= 1
  BY SpecGrows
<1>v. \A k \in 1 .. Len(log') : Living(log'[k]) =>
         \/ \E m \in 1 .. Len(log) : log'[k] = log[m]
         \/ Appended /\ log'[k].gen = Len(spec')
  BY <1>i, VersionsStep DEF Follows
<1>l. Len(log) \in Nat /\ Len(log) >= 1 /\ 1 \in 1 .. Len(log) /\ Len(log) \in 1 .. Len(log)
  BY <1>i, LogFacts
<1>w. \A k \in 1 .. Len(log) : log[k].gen \in Nat
  BY <1>i, VersionFacts
<1>k. ASSUME Reconciling, obj'.gen = obj.gen
      PROVE  /\ obj'.gen \in 1 .. Len(spec')
             /\ \A k \in 1 .. Len(log') : Living(log'[k]) => obj'.gen <= log'[k].gen
  <2>1. obj.gen \in 1 .. Len(spec) /\ \A k \in 1 .. Len(log) : Living(log[k]) => obj.gen <= log[k].gen
    BY <1>k DEF HeldOrdered
  <2>2. obj.gen \in 1 .. Len(spec') /\ obj.gen <= Len(spec')
    BY <1>g, <2>1
  <2> QED
    BY <1>k, <1>v, <2>1, <2>2
<1>s. ASSUME HeldStarts PROVE HeldOrdered'
  <2>1. /\ log[1].gen \in 1 .. Len(spec)
        /\ \A k \in 1 .. Len(log) : Living(log[k]) => log[1].gen <= log[k].gen
    BY <1>i, <1>s, <1>l DEF HeldStarts, SpecOK, GenerationsOrdered, Living
  <2> QED
    BY <1>s, <2>1 DEF HeldStarts, HeldOrdered, Deleting
<1>a. ASSUME HeldAdds PROVE HeldOrdered'
  <2>1. Api.gen = Len(spec)
    BY <1>i, <1>a DEF HeldAdds, SpecOK, Living
  <2>2. \A k \in 1 .. Len(log) : Living(log[k]) => Api.gen <= log[k].gen
    BY <1>a DEF HeldAdds, HeldOrdered
  <2>3. obj'.gen \in 1 .. Len(spec') /\ obj'.gen <= Len(spec')
    BY <1>a, <1>g, <2>1 DEF HeldAdds
  <2>4. \A k \in 1 .. Len(log') : Living(log'[k]) => obj'.gen <= log'[k].gen
    BY <1>a, <1>v, <2>2, <2>3 DEF HeldAdds
  <2> QED
    BY <1>a, <2>3, <2>4 DEF HeldAdds, HeldOrdered, Deleting
<1>1. CASE Kubernetes \/ Restart
  <2>1. CASE Reconciling' /\ UNCHANGED <<pc, obj, old, call>>
    <3>1. Reconciling
      BY <2>1 DEF Reconciling
    <3> QED
      BY <1>k, <2>1, <3>1 DEF HeldOrdered, Deleting, Reconciling
  <2>2. CASE ~Reconciling'
    <3>1. Deleting' => obj'.uid # 0
      <4>1. CASE R!Start
        BY <1>l, <4>1 DEF R!Start, R!Cached, R!CallCreateOrUpdate, Deleting, GenerationsOrdered,
                          HeldOrdered
      <4>2. CASE Users \/ R!Deliver \/ R!TimerFires
        BY <4>2 DEF Users, R!UserCreate, R!UserEditSpec, R!UserDelete, R!Deliver, R!TimerFires,
                    Deleting, HeldOrdered
      <4>3. CASE \/ R!FinalizerUpdateFails \/ R!PatchStatus \/ R!PatchDeleteStatus
                 \/ R!RemoveFinalizer \/ R!AddFinalizer \/ Restart
        BY <4>3 DEF R!FinalizerUpdateFails, R!PatchStatus, R!PatchDeleteStatus,
             R!RemoveFinalizer, R!AddFinalizer, R!CallCreateOrUpdate, R!Finish, Restart,
             R!Restart, Deleting
      <4> QED
        BY <1>1, <4>1, <4>2, <4>3 DEF Kubernetes, R!Controller
    <3>2. ASSUME pc' = "addFinalizer", fresh'
          PROVE  \A k \in 1 .. Len(log') : Living(log'[k]) => obj'.gen <= log'[k].gen
      <4>1. CASE R!Start
        <5>1. UNCHANGED log
          BY <4>1 DEF R!Start, R!apiVars
        <5>2. CASE log[1].ex /\ fresh' = (Len(log) = 1) /\ obj' = log[1]
          <6>1. Len(log) = 1
            BY <3>2, <5>2, Zenon
          <6>2. \A k \in 1 .. Len(log') : log'[k] = log[1]
            BY <5>1, <6>1
          <6>3. log[1].gen <= log[1].gen
            BY <1>w, <1>l
          <6> QED
            BY <5>2, <6>2, <6>3
        <5>3. pc = "idle" /\ pc' = "addFinalizer"
          BY <3>2, <4>1 DEF R!Start
        <5> QED
          BY <4>1, <5>2, <5>3 DEF R!Start, R!Cached, R!CallCreateOrUpdate
      <4>2. CASE R!Deliver \/ R!TimerFires
        <5>1. UNCHANGED <<pc, obj, fresh>>
          BY <4>2 DEF R!Deliver, R!TimerFires
        <5>2. ~Appended
          <6>1. CASE R!Deliver
            <7>1. Len(log') = Len(log) - 1
              BY <1>i, <6>1, LogFacts DEF R!Deliver
            <7> QED
              BY <1>l, <7>1 DEF Appended
          <6>2. CASE R!TimerFires
            BY <1>l, <6>2 DEF R!TimerFires, R!apiVars, Appended
          <6> QED
            BY <4>2, <6>1, <6>2
        <5> QED
          BY <1>v, <3>2, <5>1, <5>2 DEF HeldOrdered
      <4>3. CASE Users
        BY <3>2, <4>3 DEF Users, R!UserCreate, R!UserEditSpec, R!UserDelete, R!StoreByOther
      <4>4. CASE \/ R!FinalizerUpdateFails \/ R!PatchStatus \/ R!PatchDeleteStatus
                 \/ R!RemoveFinalizer \/ R!AddFinalizer \/ Restart
        BY <3>2, <4>4 DEF R!FinalizerUpdateFails, R!PatchStatus, R!PatchDeleteStatus,
             R!RemoveFinalizer, R!AddFinalizer, R!CallCreateOrUpdate, R!Finish, Restart,
             R!Restart
      <4> QED
        BY <1>1, <4>1, <4>2, <4>3, <4>4 DEF Kubernetes, R!Controller
    <3> QED
      BY <2>2, <3>1, <3>2 DEF HeldOrdered, Reconciling
  <2> QED
    BY <1>1, <1>s, <1>a, <2>1, <2>2, KubernetesHolds
<1>2. CASE (CreateOrUpdate \/ Delete) /\ UNCHANGED spec
  <2>1. CallStep /\ obj \in R!Version
    BY <1>i, <1>2, ReconcilerFacts, CreateOrUpdateStep, DeleteStep DEF StateOK
  <2>2. CASE UNCHANGED reconcilerVars
    BY <1>2, <2>2 DEF reconcilerVars, HeldOrdered, Reconciling, Deleting, Living
  <2>3. ASSUME NEW st, NEW r, R!CreateOrUpdateReturns(st, r)
        PROVE  HeldOrdered'
    <3>1. /\ pc = "createOrUpdate" /\ pc' = "patchStatus" /\ UNCHANGED log
          /\ obj'.gen = obj.gen
      BY <2>1, <2>3 DEF R!CreateOrUpdateReturns, R!Version, R!apiVars
    <3> QED
      BY <1>k, <3>1 DEF HeldOrdered, Reconciling, Deleting
  <2>4. ASSUME NEW st, NEW out, R!DeleteReturns(st, out)
        PROVE  HeldOrdered'
    <3>1. /\ pc = "delete"
          /\ \/ pc' \in {"removeFinalizer", "patchDeleteStatus"} /\ obj' = [obj EXCEPT !.st = st]
             \/ pc' = "idle"
      BY <2>4 DEF R!DeleteReturns, R!Finish
    <3>2. [obj EXCEPT !.st = st].uid = obj.uid
      BY <2>1 DEF R!Version
    <3> QED
      BY <3>1, <3>2 DEF HeldOrdered, Reconciling, Deleting
  <2> QED
    BY <2>1, <2>2, <2>3, <2>4 DEF CallStep
<1>3. CASE UserChangesSecret \/ (Oci /\ UNCHANGED <<reconcilerVars, spec, secret, call, histVars>>)
            \/ UNCHANGED vars
  <2>1. UNCHANGED <<log, spec, pc, obj, old, fresh>>
    BY <1>3 DEF UserChangesSecret, vars, reconcilerVars
  <2> QED
    BY <2>1, Zenon DEF HeldOrdered, Reconciling, Deleting, Living
<1> QED
  BY <1>1, <1>2, <1>3 DEF Next

\* The database has what it is to have, unless an operation is in progress.
LEMMA WantInductive ==
    ASSUME PInv, WantInForce, [Next]_vars
    PROVE  WantInForce'
<1>t. DbType
  BY DEF PInv, StateOK, DbType
<1>u. UNCHANGED db => WantInForce'
  BY DEF WantInForce
<1>a. ASSUME NEW phase, NEW want, NEW w, Accepted(phase, want, w) PROVE WantInForce'
  BY <1>a, <1>t DEF Accepted, WantInForce, DbType
<1>1. CASE Oci
  BY <1>1, <1>t DEF Oci, OperationSucceeds, UpdateFails, WantInForce, DbType
<1>2. CASE DeleteDatabase
  BY <1>2, <1>t, <1>u DEF DeleteDatabase, WantInForce, DbType, ociVars
<1>3. CASE ChangeCompartment \/ Create \/ Update
  BY <1>3, <1>a, <1>u DEF ChangeCompartment, Create, Update, Write, ociVars
<1>4. CASE UNCHANGED db
  BY <1>4, <1>u
<1> QED
  BY <1>1, <1>2, <1>3, <1>4
     DEF Next, Kubernetes, Restart, UserChangesSecret, vars, ociVars,
         CreateOrUpdate, LoadPasswordTrackingState, ReadForChange, FollowChangeWorkRequest,
         ConfirmChange, ResumeWorkRequest, CompleteWorkRequestWrite, ResolveExisting,
         CreatePasswordStateSecret, RereadPasswordStateSecret, UpdatePasswordStateSecret,
         Delete, StartDelete, GuardPendingWrite, ConfirmPendingWriteReadback,
         DeletePasswordStateSecret, EraseSecret

-----------------------------------------------------------------------------
(* Statuses. *)

\* What a merge patch does to the OCID and the work request.
LEMMA MergeLeaves ==
    ASSUME NEW a \in OSOKStatus, NEW b \in OSOKStatus, NEW c \in OSOKStatus
    PROVE  /\ MergeFrom(a, b, c).ocid = (IF c.ocid = b.ocid THEN a.ocid ELSE c.ocid)
           /\ \/ MergeFrom(a, b, c).async.wr = 0
              \/ MergeFrom(a, b, c).async.wr =
                    IF c.async.wr = b.async.wr THEN a.async.wr ELSE c.async.wr
<1> DEFINE leaf(s, x, y) == IF y = x THEN s ELSE y
           merged == [f \in DOMAIN NoAsync |-> leaf(a.async[f], b.async[f], c.async[f])]
<1>1. MergeFrom(a, b, c) =
        [ocid |-> leaf(a.ocid, b.ocid, c.ocid), reason |-> leaf(a.reason, b.reason, c.reason),
         async |-> IF c.async = NoAsync /\ b.async # NoAsync THEN NoAsync ELSE merged]
  BY DEF MergeFrom
<1>2. merged.wr = leaf(a.async.wr, b.async.wr, c.async.wr) /\ NoAsync.wr = 0
  BY DEF NoAsync
<1> QED
  BY <1>1, <1>2

LEMMA MergeQuiet ==
    ASSUME NEW a \in OSOKStatus, NEW b \in OSOKStatus, NEW c \in OSOKStatus,
           a.ocid = 1, a.async.wr = 0, Quiet(b, c)
    PROVE  MergeFrom(a, b, c).ocid = 1 /\ MergeFrom(a, b, c).async.wr = 0
  BY MergeLeaves DEF Quiet

LEMMA MergeKnown ==
    ASSUME NEW a \in OSOKStatus, NEW b \in OSOKStatus, NEW c \in OSOKStatus, NEW ws,
           Known(a, ws), Known(c, ws)
    PROVE  Known(MergeFrom(a, b, c), ws)
  BY MergeLeaves DEF Known

LEMMA ApplyKeeps ==
    ASSUME NEW st \in OSOKStatus, NEW cur \in AsyncOperation
    PROVE  /\ ApplyAsyncOperation(st, cur).ocid = st.ocid
           /\ ApplyAsyncOperation(st, cur).async.wr \in {st.async.wr, cur.wr, 0}
           /\ ApplyAsyncOperation(st, cur).async.class = cur.class
           /\ ApplyAsyncOperation(st, cur).async.phase = cur.phase
           /\ ApplyAsyncOperation(st, cur).async.source = cur.source
           /\ ApplyAsyncOperation(st, cur).reason
                = ProjectAsyncCondition(cur.class, cur.phase).condition
<1> DEFINE wr == IF cur.wr # 0 THEN cur.wr ELSE PreservedInFlightWorkRequestID(st.async, cur)
           op == [cur EXCEPT !.wr = wr]
           reason == ProjectAsyncCondition(cur.class, cur.phase).condition
<1>1. wr \in {st.async.wr, cur.wr, 0}
  BY DEF PreservedInFlightWorkRequestID
<1>2. /\ op.wr = wr /\ op.class = cur.class /\ op.phase = cur.phase
      /\ op.source = cur.source
  BY DEF AsyncOperation
<1>3. ApplyAsyncOperation(st, cur) = [st EXCEPT !.reason = reason, !.async = op]
  BY DEF ApplyAsyncOperation
<1> HIDE DEF op, reason, wr
<1>4. /\ ApplyAsyncOperation(st, cur).ocid = st.ocid
      /\ ApplyAsyncOperation(st, cur).async = op
      /\ ApplyAsyncOperation(st, cur).reason = reason
  BY <1>3 DEF OSOKStatus
<1> QED
  BY <1>1, <1>2, <1>4 DEF reason

\* A failure keeps OCID and work request.
LEMMA FailureKeeps ==
    ASSUME NEW st \in OSOKStatus
    PROVE  /\ Failed(st).ocid = st.ocid /\ Failed(st).async = st.async
           /\ Failed(st).reason = "Failed"
           /\ MarkFailure(st).ocid = st.ocid /\ MarkFailure(st).async.wr \in {st.async.wr, 0}
           /\ MarkFailure(st).reason = "Failed"
<1>1. /\ Failed(st).ocid = st.ocid /\ Failed(st).async = st.async
      /\ Failed(st).reason = "Failed"
  BY DEF Failed, OSOKStatus
<1>2. CASE st.async = NoAsync
  BY <1>1, <1>2 DEF MarkFailure, OSOKStatus
<1>3. CASE st.async # NoAsync
  <2> DEFINE cur == [st.async EXCEPT !.class = "failed"]
  <2>1. cur \in AsyncOperation /\ cur.wr = st.async.wr /\ cur.class = "failed"
    BY DEF OSOKStatus, AsyncOperation, Classes
  <2>2. MarkFailure(st) = ApplyAsyncOperation(st, cur)
    BY <1>3 DEF MarkFailure
  <2> HIDE DEF cur
  <2>3. ProjectAsyncCondition("failed", cur.phase).condition = "Failed"
    BY DEF ProjectAsyncCondition
  <2> QED
    BY <1>1, <2>1, <2>2, <2>3, ApplyKeeps
<1> QED
  BY <1>2, <1>3

LEMMA PendingNotRecorded ==
    ASSUME NEW st, st.async.class = "pending"
    PROVE  st.async # NoAsync /\ ~ShouldRecordPasswordHash(st)
<1>1. NoAsync.class = ""
  BY DEF NoAsync
<1>2. st.async # NoAsync
  BY <1>1
<1>3. st.async.class # "succeeded"
  OBVIOUS
<1> QED
  BY <1>2, <1>3, Zenon DEF ShouldRecordPasswordHash

LEMMA WorkRequestKeeps ==
    ASSUME NEW st \in OSOKStatus, NEW phase \in Phases, NEW wr \in WorkRequestIDs \cup {0}
    PROVE  /\ \A class \in Classes :
                /\ SetWorkRequestOperation(st, phase, wr, class).ocid = st.ocid
                /\ SetWorkRequestOperation(st, phase, wr, class).async.wr \in {st.async.wr, wr, 0}
           /\ SetWorkRequestOperation(st, phase, wr, "failed").reason = "Failed"
           /\ SetWorkRequestOperation(st, phase, wr, "pending").reason # "Active"
           /\ ~ShouldRecordPasswordHash(SetWorkRequestOperation(st, phase, wr, "pending"))
           /\ SeedOpeningWorkRequestID(st, phase, wr)
                = SetWorkRequestOperation(st, phase, wr, "pending")
<1> DEFINE op(c) == [source |-> "workrequest", phase |-> phase, wr |-> wr, class |-> c]
<1>1. \A c \in Classes : op(c) \in AsyncOperation
  BY DEF AsyncOperation
<1>2. {"failed", "pending"} \subseteq Classes
  BY DEF Classes
<1>3. \A c : op(c).wr = wr /\ op(c).class = c /\ op(c).phase = phase /\ op(c).source = "workrequest"
  OBVIOUS
<1>4. \A c : SetWorkRequestOperation(st, phase, wr, c) = ApplyAsyncOperation(st, op(c))
  BY DEF SetWorkRequestOperation
<1>5. SeedOpeningWorkRequestID(st, phase, wr) = ApplyAsyncOperation(st, op("pending"))
  BY DEF SeedOpeningWorkRequestID
<1>6. /\ ProjectAsyncCondition("failed", phase).condition = "Failed"
      /\ ProjectAsyncCondition("pending", phase).condition # "Active"
      /\ ProjectAsyncCondition("pending", phase).requeue = TRUE
  BY DEF ProjectAsyncCondition, ConditionForAsyncPhase
<1> HIDE DEF op
<1>7. \A c \in Classes :
        /\ ApplyAsyncOperation(st, op(c)).ocid = st.ocid
        /\ ApplyAsyncOperation(st, op(c)).async.wr \in {st.async.wr, wr, 0}
        /\ ApplyAsyncOperation(st, op(c)).async.class = c
        /\ ApplyAsyncOperation(st, op(c)).async.phase = phase
        /\ ApplyAsyncOperation(st, op(c)).reason = ProjectAsyncCondition(c, phase).condition
  BY <1>1, <1>3, ApplyKeeps
<1>8. ~ShouldRecordPasswordHash(ApplyAsyncOperation(st, op("pending")))
  <2> DEFINE t == ApplyAsyncOperation(st, op("pending"))
  <2>1. t.async.class = "pending" /\ t.async.phase = phase
    BY <1>2, <1>7
  <2> HIDE DEF t
  <2>3. ~ShouldRecordPasswordHash(t)
    BY <2>1, PendingNotRecorded
  <2> QED
    BY <2>3 DEF t
<1> QED
  BY <1>2, <1>4, <1>5, <1>6, <1>7, <1>8

\* Observing the database keeps the work request or drops it; an operation
\* in progress is not recorded and not Active.
LEMMA ObservationKeeps ==
    ASSUME NEW st \in OSOKStatus, NEW state, NEW phase \in Phases \cup {""}
    PROVE  /\ ApplySuccess(st, 1, state, phase).ocid = 1
           /\ ApplySuccess(st, 1, state, phase).async.wr \in {st.async.wr, 0}
           /\ state = "UPDATING" =>
                 /\ ApplySuccess(st, 1, state, phase).reason # "Active"
                 /\ ~ShouldRecordPasswordHash(ApplySuccess(st, 1, state, phase))
<1> DEFINE tracked == [st EXCEPT !.ocid = 1]
           op == ClassifyLifecycle(tracked, state, phase)
           lifecycle(p, c) == [source |-> "lifecycle", phase |-> p, wr |-> 0, class |-> c]
<1>o. 1 \in OCIDs \cup {0}
  BY ProtectedDatabaseAssumption
<1>1. tracked \in OSOKStatus /\ tracked.ocid = 1 /\ tracked.async = st.async
  BY <1>o DEF OSOKStatus
<1>2. ApplySuccess(st, 1, state, phase) =
        IF op # NoAsync THEN ApplyAsyncOperation(tracked, op)
        ELSE [ClearAsyncOperation(tracked) EXCEPT
                !.reason = IF state = "FAILED" THEN "Failed" ELSE "Active"]
  BY DEF ApplySuccess
<1>3. ApplySuccess(st, 1, state, phase).ocid = 1
  BY <1>o, ApplySuccessType
<1> HIDE DEF tracked
<1>4. \/ op = NoAsync /\ state # "UPDATING"
      \/ \E p \in Phases, c \in Classes : op = lifecycle(p, c)
  <2>1. (IF phase # "" THEN phase ELSE tracked.async.phase) \in Phases \cup {""}
    BY <1>1 DEF OSOKStatus, AsyncOperation
  <2>2. {"create", "update", "delete"} = Phases
        /\ {"pending", "succeeded", "failed", "unknown"} = Classes
    BY DEF Phases, Classes
  <2> QED
    BY <2>1, <2>2 DEF ClassifyLifecycle
<1>5. state = "UPDATING" => op = lifecycle("update", "pending")
  BY DEF ClassifyLifecycle
<1>6. \A p \in Phases, c \in Classes : lifecycle(p, c) \in AsyncOperation /\ lifecycle(p, c).wr = 0
  BY DEF AsyncOperation
<1>7. CASE op = NoAsync
  <2>1. [ClearAsyncOperation(tracked) EXCEPT
           !.reason = IF state = "FAILED" THEN "Failed" ELSE "Active"].async = NoAsync
    BY <1>1 DEF ClearAsyncOperation, OSOKStatus
  <2>2. NoAsync.wr = 0 /\ lifecycle("update", "pending").class # NoAsync.class
    BY DEF NoAsync
  <2>3. state # "UPDATING"
    BY <1>5, <1>7, <2>2
  <2> HIDE DEF op
  <2> QED
    BY <1>2, <1>3, <1>7, <2>1, <2>2, <2>3
<1>8. CASE op # NoAsync
  <2> HIDE DEF op
  <2>1. op \in AsyncOperation /\ op.wr = 0
    BY <1>4, <1>6, <1>8
  <2>2. ApplySuccess(st, 1, state, phase) = ApplyAsyncOperation(tracked, op)
    BY <1>2, <1>8
  <2>3. /\ ApplyAsyncOperation(tracked, op).async.wr \in {st.async.wr, 0}
        /\ ApplyAsyncOperation(tracked, op).async.class = op.class
        /\ ApplyAsyncOperation(tracked, op).async.phase = op.phase
        /\ ApplyAsyncOperation(tracked, op).reason
             = ProjectAsyncCondition(op.class, op.phase).condition
    BY <1>1, <2>1, ApplyKeeps
  <2>4. ASSUME state = "UPDATING"
        PROVE  /\ ApplyAsyncOperation(tracked, op).reason # "Active"
               /\ ~ShouldRecordPasswordHash(ApplyAsyncOperation(tracked, op))
    <3>0. lifecycle("update", "pending").class = "pending"
      OBVIOUS
    <3>1. op.class = "pending"
      BY <1>5, <2>4, <3>0
    <3>3. ProjectAsyncCondition(op.class, op.phase).condition # "Active"
      BY <3>1 DEF ProjectAsyncCondition, ConditionForAsyncPhase
    <3>4. ~ShouldRecordPasswordHash(ApplyAsyncOperation(tracked, op))
      BY <2>3, <3>1, PendingNotRecorded
    <3> QED
      BY <2>3, <3>3, <3>4
  <2> QED
    BY <1>3, <2>2, <2>3, <2>4
<1> QED
  BY <1>7, <1>8

\* The OCID is kept, and the work request kept or dropped.
Near(b, a) == a.ocid = b.ocid /\ a.async.wr \in {b.async.wr, 0}

LEMMA NearKeeps ==
    ASSUME NEW a, NEW b, Near(b, a)
    PROVE  /\ \A c : Quiet(c, b) => Quiet(c, a)
           /\ \A ws : Known(b, ws) => Known(a, ws)
  BY DEF Near, Quiet, Known

LEMMA ClearKeeps ==
    ASSUME NEW st \in OSOKStatus
    PROVE  /\ Near(st, ClearFailedPasswordUpdate(st))
           /\ ClearFailedPasswordUpdate(st).reason = st.reason
<1>1. /\ ClearAsyncOperation(st).ocid = st.ocid /\ ClearAsyncOperation(st).async = NoAsync
      /\ ClearAsyncOperation(st).reason = st.reason
  BY DEF ClearAsyncOperation, OSOKStatus
<1>2. NoAsync.wr = 0
  BY DEF NoAsync
<1>3. \/ ClearFailedPasswordUpdate(st) = ClearAsyncOperation(st)
      \/ ClearFailedPasswordUpdate(st) = st
  BY DEF ClearFailedPasswordUpdate
<1> QED
  BY <1>1, <1>2, <1>3 DEF Near

\* The statuses that the steps of CreateOrUpdate leave on a failure, or while
\* a tracked work request goes on.
LEMMA StepStatuses ==
    ASSUME call.st \in OSOKStatus
    PROVE  /\ Near(call.st, Failed(call.st)) /\ Failed(call.st).reason = "Failed"
           /\ Near(call.st, MarkFailure(call.st)) /\ MarkFailure(call.st).reason = "Failed"
           /\ call.st.async.phase \in Phases =>
                LET observed(class) ==
                      SetWorkRequestOperation(call.st, call.st.async.phase, Tracked, class)
                IN  /\ \A class \in {"pending", "failed"} :
                         observed(class) \in OSOKStatus /\ Near(call.st, observed(class))
                    /\ observed("failed").reason = "Failed"
                    /\ observed("pending").reason # "Active"
                    /\ ~ShouldRecordPasswordHash(observed("pending"))
<1>1. /\ Near(call.st, Failed(call.st)) /\ Failed(call.st).reason = "Failed"
      /\ Near(call.st, MarkFailure(call.st)) /\ MarkFailure(call.st).reason = "Failed"
  BY FailureKeeps DEF Near
<1>2. Tracked \in {call.st.async.wr, 0} /\ Tracked \in WorkRequestIDs \cup {0}
  BY TrackedPhase DEF Tracked, ResolveTrackedWorkRequest
<1>3. {"pending", "failed"} \subseteq Classes
  BY DEF Classes
<1> SUFFICES ASSUME call.st.async.phase \in Phases
             PROVE  LET observed(class) ==
                          SetWorkRequestOperation(call.st, call.st.async.phase, Tracked, class)
                    IN  /\ \A class \in {"pending", "failed"} :
                             observed(class) \in OSOKStatus /\ Near(call.st, observed(class))
                        /\ observed("failed").reason = "Failed"
                        /\ observed("pending").reason # "Active"
                        /\ ~ShouldRecordPasswordHash(observed("pending"))
  BY <1>1
<1> DEFINE observed(class) ==
             SetWorkRequestOperation(call.st, call.st.async.phase, Tracked, class)
<1>4. \A class \in {"pending", "failed"} : observed(class) \in OSOKStatus
  BY <1>2, <1>3, WorkRequestStatus
<1>5. /\ \A class \in Classes : /\ observed(class).ocid = call.st.ocid
                                /\ observed(class).async.wr \in {call.st.async.wr, Tracked, 0}
      /\ observed("failed").reason = "Failed"
      /\ observed("pending").reason # "Active"
      /\ ~ShouldRecordPasswordHash(observed("pending"))
  BY <1>2, WorkRequestKeeps
<1> HIDE DEF observed
<1>6. \A class \in {"pending", "failed"} : Near(call.st, observed(class))
  BY <1>2, <1>3, <1>5 DEF Near
<1>7. /\ \A class \in {"pending", "failed"} :
           observed(class) \in OSOKStatus /\ Near(call.st, observed(class))
      /\ observed("failed").reason = "Failed" /\ observed("pending").reason # "Active"
      /\ ~ShouldRecordPasswordHash(observed("pending"))
  BY <1>4, <1>5, <1>6
<1> QED
  BY <1>7 DEF observed

-----------------------------------------------------------------------------
(* Steps of CreateOrUpdate. *)

LEMMA SpecFacts ==
    ASSUME SpecOK
    PROVE  /\ Len(spec) \in Nat /\ Len(spec) >= 1 /\ (Len(spec) = 1 \/ Len(spec) > 1)
           /\ Latest \in Specs
           /\ Latest.pw \in Passwords
           /\ Len(spec) > 1 => Earlier \in Specs /\ Earlier.pw \in Passwords
<1>1. Len(spec) \in 1 .. MaxGen /\ spec \in WrittenSpecs(Len(spec)) /\ MaxGen \in Nat
  BY ReconcilerBounds DEF SpecOK
<1>2. Len(spec) \in Nat /\ Len(spec) >= 1 /\ \A i \in 1 .. Len(spec) : spec[i] \in Specs
  BY <1>1, WrittenType
<1>3. \A n \in Nat : n >= 1 =>
        n \in 1 .. n /\ (n = 1 \/ n > 1) /\ (n > 1 => n - 1 \in 1 .. n)
  OBVIOUS
<1> QED
  BY <1>2, <1>3 DEF Latest, Earlier, Specs

\* A call of CreateOrUpdate runs in the reconciler's step of that name.
LEMMA StepOfCreate ==
    ASSUME CallOK, CreateOrUpdate
    PROVE  pc = "createOrUpdate" /\ (~At("none") => Running)
<1>1. pc = "createOrUpdate"
  BY DEF CreateOrUpdate, LoadPasswordTrackingState, ReadForChange, ChangeCompartment,
         FollowChangeWorkRequest, ConfirmChange, ResumeWorkRequest, CompleteWorkRequestWrite,
         ResolveExisting, Create, Update, CreatePasswordStateSecret,
         RereadPasswordStateSecret, UpdatePasswordStateSecret, At, CallOK, CreateSteps
<1> QED
  BY <1>1 DEF Running, At

LEMMA ReturnsEffect ==
    ASSUME RP!IInv, NEW st, NEW r, Returns(st, r)
    PROVE  /\ pc = "createOrUpdate" /\ pc' = "patchStatus" /\ UNCHANGED <<log, old, fresh>>
           /\ obj'.gen = obj.gen /\ obj'.st = st /\ call'.step = "none"
<1>1. obj \in R!Version
  BY ReconcilerFacts
<1> QED
  BY <1>1, NoCallOK DEF Returns, R!CreateOrUpdateReturns, R!Version, R!apiVars

LEMMA ContinueEffect ==
    ASSUME CallOK, NEW s, NEW st, Continue(s, st)
    PROVE  /\ UNCHANGED <<pc, obj, old, fresh, log>>
           /\ call'.step = s /\ call'.st = st /\ call'.hash = call.hash
<1>1. call \in CallRecord
  BY DEF CallOK
<1> QED
  BY <1>1 DEF Continue, CallRecord, reconcilerVars

\* What CreateOrUpdate asks the service for.
LEMMA CallWrites ==
    ASSUME DbType, CreateOrUpdate
    PROVE  \/ UNCHANGED <<db, wrs>>
           \/ /\ db'.spec = db.spec
              /\ db'.want \in {[db.spec EXCEPT !.comp = Desired.comp], Desired, UpdateBody}
<1>1. ASSUME NEW phase, NEW want, NEW w, Accepted(phase, want, w)
      PROVE  db'.spec = db.spec /\ db'.want = want
  BY <1>1 DEF Accepted, DbType
<1>2. CASE ChangeCompartment \/ Create \/ Update
  BY <1>1, <1>2 DEF ChangeCompartment, Create, Update, Write, ociVars
<1> QED
  BY <1>2 DEF CreateOrUpdate, LoadPasswordTrackingState, ReadForChange,
         FollowChangeWorkRequest, ConfirmChange, ResumeWorkRequest, CompleteWorkRequestWrite,
         ResolveExisting, CreatePasswordStateSecret, RereadPasswordStateSecret,
         UpdatePasswordStateSecret, ociVars

\* What a step of an earlier generation may do to the rest.
FrozenStep ==
    /\ UNCHANGED <<db, spec>>
    /\ secret' \in {Earlier.pw, "", "foreign"}
    /\ \/ \E st, r : Returns(st, r) /\ Quiet(old, st)
       \/ /\ UNCHANGED <<pc, obj, old, log>>
          /\ call'.step \in FrozenSteps /\ call'.hash \in {Earlier.pw, ""}
          /\ Quiet(old, call'.st)

LEMMA FrozenStays ==
    ASSUME RP!IInv, pc = "createOrUpdate", Frozen, FrozenStep
    PROVE  Frozen'
<1>1. /\ db.state = "ACTIVE" /\ db.spec = Earlier /\ db.want = Earlier
      /\ FrozenLog /\ spec[obj.gen] = Earlier /\ UNCHANGED <<db, spec>>
      /\ secret' \in {Earlier.pw, "", "foreign"} /\ Earlier' = Earlier
  BY DEF Frozen, FrozenStep, Reconciling, Earlier
<1>2. CASE \E st, r : Returns(st, r) /\ Quiet(old, st)
  <2>1. PICK st, r : Returns(st, r) /\ Quiet(old, st)
    BY <1>2
  <2>2. /\ pc' = "patchStatus" /\ UNCHANGED <<log, old>>
        /\ obj'.gen = obj.gen /\ obj'.st = st
    BY <2>1, ReturnsEffect
  <2>3. FrozenLog'
    BY <1>1, <2>2 DEF FrozenLog, Living
  <2> QED
    BY <1>1, <2>1, <2>2, <2>3 DEF Frozen, Running
<1>3. CASE /\ UNCHANGED <<pc, obj, old, log>>
           /\ call'.step \in FrozenSteps /\ call'.hash \in {Earlier.pw, ""}
           /\ Quiet(old, call'.st)
  <2>1. FrozenLog' /\ FrozenCall'
    BY <1>1, <1>3 DEF FrozenLog, Living, FrozenCall
  <2> QED
    BY <1>1, <1>3, <2>1 DEF Frozen
<1> QED
  BY <1>2, <1>3 DEF FrozenStep

\* A reconcile of an earlier generation finds what it wants.
LEMMA CreateWhileFrozen ==
    ASSUME PInv, HeldOrdered, Len(spec) > 1, Frozen, CreateOrUpdate, UNCHANGED spec
    PROVE  FrozenStep
<1>i. RP!IInv /\ CallOK /\ SpecOK /\ DbType /\ WrsType /\ secret \in Secrets
  BY DEF PInv, StateOK, DbType, WrsType
<1>p. pc = "createOrUpdate" /\ (~At("none") => Running)
  BY <1>i, StepOfCreate
<1>c. call \in CallRecord /\ call.st \in OSOKStatus
  BY <1>i DEF CallOK, CallRecord
<1>d. /\ db.state = "ACTIVE" /\ db.spec = Earlier /\ Desired = Earlier
      /\ secret \in {Earlier.pw, "", "foreign"}
  BY <1>p DEF Frozen, Reconciling, Desired
<1>e. Earlier \in Specs /\ Earlier.pw \in Passwords /\ Earlier.pw \notin {"", "foreign"}
  BY <1>i, SpecFacts DEF Passwords
<1>f. ~At("none") => call.step \in FrozenSteps /\ call.hash \in {Earlier.pw, ""} /\ Quiet(old, call.st)
  BY <1>p DEF Frozen, FrozenCall
<1>g. ~At("none") => ~PasswordUpdate
  BY <1>d, <1>f DEF PasswordUpdate
<1>q. Quiet(old, call.st) =>
        Quiet(old, Failed(call.st)) /\ Quiet(old, MarkFailure(call.st))
  BY <1>c, StepStatuses, NearKeeps
<1>t. Failed(call.st) \in OSOKStatus /\ MarkFailure(call.st) \in OSOKStatus
  BY <1>c, StatusType, MarkType
<1>u. ASSUME UNCHANGED db, secret' \in {Earlier.pw, "", "foreign"}, NEW st, NEW r,
             Returns(st, r), Quiet(old, st)
      PROVE  FrozenStep
  BY <1>u DEF FrozenStep
<1>v. ASSUME UNCHANGED <<db, secret>>, NEW st \in OSOKStatus, Quiet(old, st), DelegateFails(st)
      PROVE  FrozenStep
  <2>1. Quiet(old, ClearFailedPasswordUpdate(st))
    BY <1>v, ClearKeeps, NearKeeps
  <2> QED
    BY <1>d, <1>u, <1>v, <2>1 DEF DelegateFails
<1>w. ASSUME UNCHANGED <<db, secret>>, ~At("none"), NEW s \in FrozenSteps, NEW st, Quiet(old, st),
             Continue(s, st)
      PROVE  FrozenStep
  <2>1. /\ UNCHANGED <<pc, obj, old, log>>
        /\ call'.step = s /\ call'.st = st /\ call'.hash = call.hash
    BY <1>i, <1>w, ContinueEffect
  <2> QED
    BY <1>d, <1>f, <1>w, <2>1 DEF FrozenStep
<1>x. ASSUME UNCHANGED <<db, secret>>, ~At("none"), NEW st, Quiet(old, st), DelegateReturns(st)
      PROVE  FrozenStep
  <2>1. "record" \in FrozenSteps
    BY DEF FrozenSteps
  <2>2. Continue("record", st) \/ Returns(st, ResponseFor(st))
    BY <1>x DEF DelegateReturns
  <2> QED
    BY <1>d, <1>u, <1>w, <1>x, <2>1, <2>2
<1>1. CASE LoadPasswordTrackingState
  <2>1. old = obj.st /\ obj.st \in OSOKStatus /\ UNCHANGED <<db, secret>>
    BY <1>i, <1>p, <1>1, ReconcilerFacts DEF HeldOrdered, LoadPasswordTrackingState, ociVars
  <2>2. Quiet(old, obj.st) /\ Quiet(old, Failed(obj.st))
    BY <2>1, FailureKeeps DEF Quiet
  <2>3. CASE Returns(Failed(obj.st), Failure)
    BY <1>d, <1>u, <2>1, <2>2, <2>3
  <2>4. CASE /\ call' = [NoCall EXCEPT
                  !.st = obj.st, !.hash = IF secret = "foreign" THEN "" ELSE secret,
                  !.step = IF obj.st.ocid # 0 THEN "readForChange" ELSE "enter"]
             /\ UNCHANGED reconcilerVars
    <3>1. /\ call'.st = obj.st /\ call'.hash \in {Earlier.pw, ""}
          /\ call'.step \in {"readForChange", "enter"}
      BY <1>d, <2>4 DEF NoCall
    <3>2. UNCHANGED <<pc, obj, old, log>>
      BY <2>4 DEF reconcilerVars
    <3> QED
      BY <1>d, <2>1, <2>2, <3>1, <3>2 DEF FrozenStep, FrozenSteps
  <2> QED
    BY <1>1, <2>3, <2>4 DEF LoadPasswordTrackingState
<1>2. CASE ReadForChange
  <2>1. ~At("none") /\ UNCHANGED <<db, secret>> /\ Continue("enter", call.st)
    BY <1>2, <1>d DEF ReadForChange, At, ociVars
  <2> QED
    BY <1>f, <1>w, <2>1 DEF FrozenSteps
<1>3. CASE ResumeWorkRequest
  <2> DEFINE observed(class) ==
               SetWorkRequestOperation(call.st, call.st.async.phase, Tracked, class)
  <2>1. ~At("none") /\ UNCHANGED <<db, secret>> /\ Tracked # 0
    BY <1>3 DEF ResumeWorkRequest, At, ociVars
  <2>2. call.st.async.phase \in Phases
    BY <1>c, <2>1, TrackedPhase
  <2>3. \A class \in {"pending", "failed"} :
           observed(class) \in OSOKStatus /\ Near(call.st, observed(class))
    BY <1>c, <2>2, StepStatuses
  <2>4. \/ DelegateFails(MarkFailure(call.st)) \/ DelegateReturns(observed("pending"))
        \/ DelegateFails(observed("failed")) \/ Continue("readBack", call.st)
    BY <1>3, NormalizeType DEF ResumeWorkRequest
  <2> HIDE DEF observed
  <2>5. Quiet(old, observed("pending")) /\ Quiet(old, observed("failed"))
    BY <1>f, <2>1, <2>3, NearKeeps
  <2> QED
    BY <1>f, <1>q, <1>t, <1>v, <1>w, <1>x, <2>1, <2>3, <2>4, <2>5 DEF FrozenSteps
<1>4. CASE CompleteWorkRequestWrite
  <2> DEFINE failed == SetWorkRequestOperation(call.st, call.st.async.phase, Tracked, "failed")
             seen == ApplySuccess(call.st, 1, db.state, call.st.async.phase)
  <2>1. ~At("none") /\ UNCHANGED <<db, secret>> /\ Tracked # 0
    BY <1>4, <1>i DEF CompleteWorkRequestWrite, At, ociVars, CallOK
  <2>2. call.st.async.phase \in Phases /\ call.st.async.phase \in Phases \cup {""}
    BY <1>c, <2>1, TrackedPhase
  <2>3. failed \in OSOKStatus /\ Near(call.st, failed)
    BY <1>c, <2>2, StepStatuses
  <2>4. seen.ocid = 1 /\ seen.async.wr \in {call.st.async.wr, 0}
    BY <1>c, <2>2, ObservationKeeps
  <2>5. DelegateFails(failed) \/ DelegateReturns(seen)
    BY <1>4 DEF CompleteWorkRequestWrite
  <2> HIDE DEF failed, seen
  <2>6. Quiet(old, failed) /\ Quiet(old, seen)
    BY <1>f, <2>1, <2>3, <2>4, NearKeeps DEF Quiet
  <2> QED
    BY <1>v, <1>x, <2>1, <2>3, <2>5, <2>6
<1>5. CASE ResolveExisting
  <2> DEFINE seen == ApplySuccess(call.st, 1, "ACTIVE", "")
  <2>1. ~At("none") /\ UNCHANGED <<db, secret>>
    BY <1>5 DEF ResolveExisting, At, ociVars
  <2>2. seen.ocid = 1 /\ seen.async.wr \in {call.st.async.wr, 0}
    BY <1>c, ObservationKeeps
  <2>3. Visible
    BY <1>d DEF Visible
  <2>4. DelegateFails(MarkFailure(call.st)) \/ DelegateReturns(seen)
    BY <1>5, <1>d, <1>g, <2>1, <2>3 DEF ResolveExisting
  <2> HIDE DEF seen
  <2>5. Quiet(old, seen)
    BY <1>f, <2>1, <2>2 DEF Quiet
  <2> QED
    BY <1>f, <1>q, <1>t, <1>v, <1>x, <2>1, <2>4, <2>5
<1>6. CASE CreatePasswordStateSecret
  BY <1>6, <1>d, <1>f, <1>q, <1>u, <1>w
     DEF CreatePasswordStateSecret, SecretFails, SecretWritten, At, ociVars, FrozenSteps
<1>7. CASE RereadPasswordStateSecret
  <2>1. ~At("none") /\ UNCHANGED <<db, secret>> /\ call \in CallRecord
    BY <1>7, <1>c DEF RereadPasswordStateSecret, At, ociVars
  <2>2. CASE call' = [call EXCEPT !.step = "rewrite", !.seen = secret] /\ UNCHANGED reconcilerVars
    <3>1. /\ call'.step = "rewrite" /\ call'.st = call.st /\ call'.hash = call.hash
          /\ UNCHANGED <<pc, obj, old, log>>
      BY <2>1, <2>2 DEF CallRecord, reconcilerVars
    <3> QED
      BY <1>d, <1>f, <2>1, <3>1 DEF FrozenStep, FrozenSteps
  <2> QED
    BY <1>7, <1>d, <1>f, <1>q, <1>u, <2>1, <2>2 DEF RereadPasswordStateSecret, SecretFails
<1>8. CASE UpdatePasswordStateSecret
  BY <1>8, <1>d, <1>f, <1>q, <1>u
     DEF UpdatePasswordStateSecret, SecretFails, SecretWritten, At, ociVars
<1>9. CASE ChangeCompartment \/ FollowChangeWorkRequest \/ ConfirmChange \/ Create \/ Update
  BY <1>9, <1>f DEF ChangeCompartment, FollowChangeWorkRequest, ConfirmChange, Create, Update,
                    At, FrozenSteps
<1> QED
  BY <1>1, <1>2, <1>3, <1>4, <1>5, <1>6, <1>7, <1>8, <1>9 DEF CreateOrUpdate

-----------------------------------------------------------------------------
(* CreateOrUpdate of the last generation. *)

\* While there is one generation the database has or gets its spec.
LEMMA CreateWithOneSpec ==
    ASSUME PInv, CreateOrUpdate, UNCHANGED spec, Len(spec) = 1,
           db.spec = spec[1], db.want = spec[1]
    PROVE  db'.spec = spec'[1] /\ db'.want = spec'[1]
<1>i. CallOK /\ SpecOK /\ DbType
  BY DEF PInv, StateOK, DbType
<1>1. pc = "createOrUpdate"
  BY <1>i, StepOfCreate
<1>2. obj.gen \in 1 .. 1
  BY <1>i, <1>1 DEF SpecOK
<1>3. Desired = db.spec /\ db.spec \in Specs
  BY <1>i, <1>2 DEF Desired, DbType
<1>4. UpdateBody = [db.spec EXCEPT !.other = db.spec.other, !.pw = db.spec.pw]
  BY <1>3 DEF UpdateBody
<1>5. /\ [db.spec EXCEPT !.comp = Desired.comp] = db.spec
      /\ [db.spec EXCEPT !.other = db.spec.other, !.pw = db.spec.pw] = db.spec
  BY <1>3 DEF Specs
<1> QED
  BY <1>i, <1>3, <1>4, <1>5, CallWrites

\* What is applied is not taken back.
LEMMA CreateWhileApplied ==
    ASSUME PInv, CreateOrUpdate, UNCHANGED spec, Desired = Latest, Applied
    PROVE  Applied'
<1>i. SpecOK /\ DbType
  BY DEF PInv, StateOK, DbType
<1>1. Latest \in Specs /\ db.spec \in Specs /\ Latest' = Latest
  BY <1>i, SpecFacts DEF DbType, Latest
<1>2. [db.spec EXCEPT !.comp = Desired.comp].pw = db.spec.pw
  BY <1>1 DEF Specs
<1>3. UpdateBody.pw \in {db.spec.pw, Desired.pw}
  BY <1>1 DEF UpdateBody, Specs
<1> QED
  BY <1>i, <1>1, <1>2, <1>3, CallWrites DEF Applied

\* What a reconcile does while the password is not applied.
UnappliedStep ==
    /\ UNCHANGED <<spec, secret>>
    /\ \A st \in OSOKStatus : Known(st, wrs) => Known(st, wrs')
    /\ UnappliedDb'
    /\ \/ \E st, r : Returns(st, r) /\ Known(st, wrs') /\ st.reason # "Active"
       \/ UNCHANGED <<pc, obj, old, log>> /\ UnappliedCall'

LEMMA UnappliedStays ==
    ASSUME RP!IInv, pc = "createOrUpdate", Unapplied, UnappliedStep
    PROVE  Unapplied'
<1>1. /\ Latest' = Latest /\ KnownLog /\ Known(obj.st, wrs) /\ UNCHANGED log
      /\ obj.st \in OSOKStatus /\ \A k \in 1 .. Len(log) : log[k].st \in OSOKStatus
  BY ReturnsEffect, ReconcilerFacts, VersionFacts DEF Latest, UnappliedStep, Unapplied, Reconciling
<1>2. KnownLog'
  BY <1>1 DEF KnownLog, UnappliedStep, Living
<1>3. CASE \E st, r : Returns(st, r) /\ Known(st, wrs') /\ st.reason # "Active"
  <2>1. PICK st, r : Returns(st, r) /\ Known(st, wrs') /\ st.reason # "Active"
    BY <1>3
  <2>2. pc' = "patchStatus" /\ obj'.st = st
    BY <2>1, ReturnsEffect
  <2> QED
    BY <1>1, <1>2, <2>1, <2>2 DEF Unapplied, UnappliedStep, Running
<1>4. CASE UNCHANGED <<pc, obj, old, log>> /\ UnappliedCall'
  BY <1>1, <1>2, <1>4 DEF Unapplied, UnappliedStep
<1> QED
  BY <1>3, <1>4 DEF UnappliedStep

LEMMA CreateWhileUnapplied ==
    ASSUME PInv, Desired = Latest, Unapplied, CreateOrUpdate, UNCHANGED spec
    PROVE  UnappliedStep
<1>i. RP!IInv /\ CallOK /\ SpecOK /\ DbType /\ WrsType /\ secret \in Secrets
  BY DEF PInv, StateOK, DbType, WrsType
<1>p. pc = "createOrUpdate" /\ (~At("none") => Running)
  BY <1>i, StepOfCreate
<1>c. call \in CallRecord /\ call.st \in OSOKStatus
  BY <1>i DEF CallOK, CallRecord
<1>e. Latest \in Specs /\ Latest.pw \in Passwords /\ Latest.pw # "" /\ Latest' = Latest
  BY <1>i, SpecFacts DEF Passwords, Latest
<1>d. /\ db.state \in {"ACTIVE", "UPDATING"} /\ db.spec.pw # Latest.pw
      /\ db.spec.comp = Latest.comp /\ secret # Latest.pw /\ Known(obj.st, wrs) /\ UnappliedDb
  BY <1>p DEF Unapplied, UnappliedDb, Reconciling
<1>f. ~At("none") => UnappliedCall
  BY <1>p DEF Unapplied
<1>q. Known(call.st, wrs) =>
        /\ Known(Failed(call.st), wrs) /\ Known(MarkFailure(call.st), wrs)
        /\ MarkFailure(call.st).reason # "Active"
  BY <1>c, StepStatuses, NearKeeps
<1>t. MarkFailure(call.st) \in OSOKStatus
  BY <1>c, MarkType
<1>o. UNCHANGED ociVars => UnappliedDb' /\ UNCHANGED wrs
  BY <1>d, <1>e DEF UnappliedDb, ociVars
<1>u. ASSUME UNCHANGED <<secret, ociVars>>, NEW st, NEW r, Returns(st, r),
             Known(st, wrs), st.reason # "Active"
      PROVE  UnappliedStep
  BY <1>o, <1>u DEF UnappliedStep
<1>v. ASSUME UNCHANGED <<secret, ociVars>>, NEW st \in OSOKStatus, Known(st, wrs),
             st.reason # "Active", DelegateFails(st)
      PROVE  UnappliedStep
  <2>1. /\ Known(ClearFailedPasswordUpdate(st), wrs)
        /\ ClearFailedPasswordUpdate(st).reason # "Active"
    BY <1>v, ClearKeeps, NearKeeps
  <2> QED
    BY <1>u, <1>v, <2>1 DEF DelegateFails
<1>x. ASSUME UNCHANGED <<secret, ociVars>>, NEW st, Known(st, wrs), st.reason # "Active",
             ~ShouldRecordPasswordHash(st), DelegateReturns(st)
      PROVE  UnappliedStep
  BY <1>u, <1>x DEF DelegateReturns
<1>1. CASE LoadPasswordTrackingState
  <2>1. obj.st \in OSOKStatus /\ UNCHANGED <<secret, ociVars>>
    BY <1>i, <1>1, ReconcilerFacts DEF LoadPasswordTrackingState
  <2>2. Known(Failed(obj.st), wrs) /\ Failed(obj.st).reason # "Active"
    BY <1>d, <2>1, FailureKeeps DEF Known
  <2>3. CASE Returns(Failed(obj.st), Failure)
    BY <1>u, <2>1, <2>2, <2>3
  <2>4. CASE /\ call' = [NoCall EXCEPT
                  !.st = obj.st, !.hash = IF secret = "foreign" THEN "" ELSE secret,
                  !.step = IF obj.st.ocid # 0 THEN "readForChange" ELSE "enter"]
             /\ UNCHANGED reconcilerVars
    <3>1. /\ call'.st = obj.st /\ call'.hash # Latest.pw
          /\ call'.step \in {"readForChange", "enter"}
      BY <1>d, <1>e, <2>4 DEF NoCall
    <3>2. UNCHANGED <<pc, obj, old, log>>
      BY <2>4 DEF reconcilerVars
    <3>3. UnappliedCall'
      BY <1>d, <1>e, <1>o, <2>1, <3>1 DEF UnappliedCall
    <3> QED
      BY <1>o, <2>1, <3>2, <3>3 DEF UnappliedStep
  <2> QED
    BY <1>1, <2>3, <2>4 DEF LoadPasswordTrackingState
<1>2. CASE ReadForChange
  <2>1. ~At("none") /\ UNCHANGED <<secret, ociVars>> /\ Continue("enter", call.st)
    BY <1>2, <1>d DEF ReadForChange, At
  <2>2. /\ UNCHANGED <<pc, obj, old, log>>
        /\ call'.step = "enter" /\ call'.st = call.st /\ call'.hash = call.hash
    BY <1>i, <2>1, ContinueEffect
  <2>3. UnappliedCall'
    BY <1>e, <1>f, <1>o, <2>1, <2>2 DEF UnappliedCall
  <2> QED
    BY <1>o, <2>1, <2>2, <2>3 DEF UnappliedStep
<1>3. CASE ResumeWorkRequest
  <2> DEFINE observed(class) ==
               SetWorkRequestOperation(call.st, call.st.async.phase, Tracked, class)
  <2>1. ~At("none") /\ UNCHANGED <<secret, ociVars>> /\ Tracked # 0
    BY <1>3 DEF ResumeWorkRequest, At
  <2>2. call.st.async.phase \in Phases /\ Known(call.st, wrs)
    BY <1>c, <1>f, <2>1, TrackedPhase DEF UnappliedCall
  <2>3. /\ \A class \in {"pending", "failed"} :
             observed(class) \in OSOKStatus /\ Near(call.st, observed(class))
        /\ observed("failed").reason = "Failed" /\ observed("pending").reason # "Active"
        /\ ~ShouldRecordPasswordHash(observed("pending"))
    BY <1>c, <2>2, StepStatuses
  <2>4. wrs[Tracked].status # "SUCCEEDED"
    BY <2>1, <2>2 DEF Tracked, ResolveTrackedWorkRequest, Known
  <2>5. \/ DelegateFails(MarkFailure(call.st)) \/ DelegateReturns(observed("pending"))
        \/ DelegateFails(observed("failed"))
    BY <1>3, <2>4, NormalizeType DEF ResumeWorkRequest
  <2> HIDE DEF observed
  <2>6. Known(observed("pending"), wrs) /\ Known(observed("failed"), wrs)
    BY <2>2, <2>3, NearKeeps
  <2> QED
    BY <1>q, <1>t, <1>v, <1>x, <2>1, <2>2, <2>3, <2>5, <2>6
<1>4. CASE ResolveExisting
  <2> DEFINE seen == ApplySuccess(call.st, 1, "UPDATING", "")
  <2>1. ~At("none") /\ UNCHANGED <<secret, ociVars>> /\ UnappliedCall
    BY <1>4, <1>f DEF ResolveExisting, At
  <2>2. /\ seen.ocid = 1 /\ seen.async.wr \in {call.st.async.wr, 0}
        /\ seen.reason # "Active" /\ ~ShouldRecordPasswordHash(seen)
    BY <1>c, ObservationKeeps
  <2>v. Visible /\ call.st.ocid = 1 /\ call.hash # Latest.pw /\ Known(call.st, wrs)
    BY <1>d, <2>1 DEF Visible, UnappliedCall, Known
  <2>3. /\ Visible /\ call.st.ocid = 1 /\ call.st.ocid # 0 /\ call.hash # Latest.pw
        /\ Known(call.st, wrs)
    BY <2>v
  <2>4. \/ DelegateFails(MarkFailure(call.st))
        \/ DelegateReturns(seen)
        \/ ~PasswordUntracked /\ Continue("update", [call.st EXCEPT !.ocid = 1])
    <3>1. ~PasswordUntracked => PasswordUpdate
      BY <2>3 DEF PasswordUntracked, PasswordUpdate
    <3> HIDE DEF seen
    <3>2. db.state # "ACTIVE" => ApplySuccess(call.st, 1, db.state, "") = seen
      BY <1>d DEF seen
    <3> QED
      BY <1>4, <1>d, <2>3, <3>1, <3>2 DEF ResolveExisting
  <2> HIDE DEF seen
  <2>5. CASE ~PasswordUntracked /\ Continue("update", [call.st EXCEPT !.ocid = 1])
    <3>1. [call.st EXCEPT !.ocid = 1] = call.st
      BY <1>c, <2>3 DEF OSOKStatus
    <3>2. /\ UNCHANGED <<pc, obj, old, log>>
          /\ call'.step = "update" /\ call'.st = call.st /\ call'.hash = call.hash
      BY <1>i, <2>5, <3>1, ContinueEffect
    <3>3. UnappliedCall'
      BY <1>e, <1>o, <2>1, <2>3, <2>5, <3>2 DEF UnappliedCall, PasswordUntracked
    <3> QED
      BY <1>o, <2>1, <3>2, <3>3 DEF UnappliedStep
  <2>6. Known(seen, wrs)
    BY <2>2, <2>3 DEF Known
  <2> QED
    BY <1>q, <1>t, <1>v, <1>x, <2>1, <2>2, <2>3, <2>4, <2>5, <2>6
<1>5. CASE Update
  <2>1. ~At("none") /\ UNCHANGED secret /\ UnappliedCall /\ call.step = "update"
    BY <1>5, <1>f DEF Update, Write, At
  <2>2. PasswordUpdate /\ Known(call.st, wrs)
    BY <2>1 DEF UnappliedCall, PasswordUpdate
  <2>3. UpdateBody.pw = Latest.pw
    BY <1>i, <1>e, <2>2 DEF UpdateBody, DbType, Specs
  <2>4. CASE DelegateFails(MarkFailure(call.st)) /\ UNCHANGED ociVars
    BY <1>q, <1>t, <1>v, <2>1, <2>2, <2>4
  <2>5. ASSUME NEW w \in WorkRequestIDs, Accepted("update", UpdateBody, w)
        PROVE  /\ UnappliedDb' /\ \A st \in OSOKStatus : Known(st, wrs) => Known(st, wrs')
               /\ wrs'[w].status # "SUCCEEDED"
    <3>1. db'.state = "UPDATING" /\ db'.want.pw = Latest.pw /\ db'.spec = db.spec
      BY <1>i, <2>3, <2>5 DEF Accepted, DbType
    <3>2. UnappliedDb'
      BY <1>d, <1>e, <3>1 DEF UnappliedDb
    <3>3. wrs' = [wrs EXCEPT ![w] = [phase |-> "update", status |-> "IN_PROGRESS"]]
      BY <2>5, IdentifierAssumption DEF Accepted, OpenWorkRequest
    <3>4. \A x \in WorkRequestIDs : wrs[x].status # "SUCCEEDED" => wrs'[x].status # "SUCCEEDED"
      BY <1>i, <3>3 DEF WrsType
    <3>5. wrs'[w].status # "SUCCEEDED"
      BY <1>i, <3>3 DEF WrsType
    <3>6. \A st \in OSOKStatus : st.async.wr \in WorkRequestIDs \cup {0}
      BY DEF OSOKStatus, AsyncOperation
    <3> QED
      BY <3>2, <3>4, <3>5, <3>6 DEF Known
  <2>6. ASSUME NEW w \in WorkRequestIDs, Accepted("update", UpdateBody, w),
               DelegateFails(MarkFailure(call.st))
        PROVE  UnappliedStep
    <3>1. /\ Known(ClearFailedPasswordUpdate(MarkFailure(call.st)), wrs)
          /\ ClearFailedPasswordUpdate(MarkFailure(call.st)).reason # "Active"
          /\ ClearFailedPasswordUpdate(MarkFailure(call.st)) \in OSOKStatus
      BY <1>q, <1>t, <2>2, ClearKeeps, NearKeeps, StatusType
    <3> QED
      BY <2>1, <2>5, <2>6, <3>1 DEF UnappliedStep, DelegateFails
  <2>7. ASSUME NEW w \in WorkRequestIDs, Accepted("update", UpdateBody, w),
               Continue("enter", SeedOpeningWorkRequestID(
                                   [call.st EXCEPT !.ocid = 1], "update", w))
        PROVE  UnappliedStep
    <3> DEFINE st == SeedOpeningWorkRequestID(call.st, "update", w)
    <3>1. [call.st EXCEPT !.ocid = 1] = call.st /\ call.st.ocid = 1
      BY <1>c, <2>2 DEF OSOKStatus, Known
    <3>2. "update" \in Phases /\ w \in WorkRequestIDs \cup {0} /\ "pending" \in Classes
      BY DEF Phases, Classes
    <3>3. st.ocid = 1 /\ st.async.wr \in {call.st.async.wr, w, 0}
      BY <1>c, <3>1, <3>2, WorkRequestKeeps
    <3> HIDE DEF st
    <3>4. /\ UNCHANGED <<pc, obj, old, log>>
          /\ call'.step = "enter" /\ call'.st = st /\ call'.hash = call.hash
      BY <1>i, <2>7, <3>1, ContinueEffect DEF st
    <3>k. Known(call.st, wrs') /\ wrs'[w].status # "SUCCEEDED"
      BY <1>c, <2>2, <2>5, <2>7
    <3>5. Known(st, wrs')
      BY <3>3, <3>k DEF Known
    <3>6. UnappliedCall'
      BY <1>e, <2>1, <3>4, <3>5 DEF UnappliedCall
    <3> QED
      BY <2>1, <2>5, <2>7, <3>4, <3>6 DEF UnappliedStep
  <2> QED
    BY <1>5, <2>4, <2>6, <2>7 DEF Update, Write
<1>6. CASE \/ ChangeCompartment \/ FollowChangeWorkRequest \/ ConfirmChange \/ Create
           \/ CompleteWorkRequestWrite \/ CreatePasswordStateSecret
           \/ RereadPasswordStateSecret \/ UpdatePasswordStateSecret
  BY <1>6, <1>f
     DEF ChangeCompartment, FollowChangeWorkRequest, ConfirmChange, Create,
         CompleteWorkRequestWrite, CreatePasswordStateSecret, RereadPasswordStateSecret,
         UpdatePasswordStateSecret, At, UnappliedCall
<1> QED
  BY <1>1, <1>2, <1>3, <1>4, <1>5, <1>6 DEF CreateOrUpdate

-----------------------------------------------------------------------------
(* Steps of Kubernetes and of the reconciler. *)

\* The generations of the versions that call for CreateOrUpdate.
LEMMA BehindFacts ==
    ASSUME SpecOK, HeldOrdered
    PROVE  /\ \A k \in 1 .. Len(log) : Living(log[k]) => log[k].gen \in 1 .. Len(spec)
           /\ ~Behind => /\ \A k \in 1 .. Len(log) : Living(log[k]) => log[k].gen = Len(spec)
                         /\ Reconciling => obj.gen = Len(spec)
<1>1. Len(spec) \in Nat
  BY SpecFacts
<1>2. /\ \A k \in 1 .. Len(log) : Living(log[k]) => log[k].gen \in 1 .. Len(spec)
      /\ Reconciling => obj.gen \in 1 .. Len(spec)
  BY DEF SpecOK, HeldOrdered, Living
<1>3. \A g \in 1 .. Len(spec) : ~(g < Len(spec)) => g = Len(spec)
  BY <1>1
<1> QED
  BY <1>2, <1>3 DEF Behind

\* An edit made when the one before is settled finds the database with the
\* password of every generation that may still be reconciled.
LEMMA EditFreezes ==
    ASSUME PInv, HeldOrdered, WantInForce, Progress, Settled, Appended,
           Living(Api), Len(spec') = Len(spec) + 1, UNCHANGED <<pc, db, secret>>,
           \A i \in 1 .. Len(spec) : spec'[i] = spec[i]
    PROVE  Behind' /\ Frozen'
<1>i. RP!IInv /\ SpecOK /\ DbType
  BY DEF PInv, StateOK, DbType
<1>n. /\ Len(spec) \in Nat /\ Len(spec) >= 1 /\ Len(spec) + 1 > Len(spec)
      /\ Len(spec) = 1 \/ Len(spec) > 1
  BY <1>i, SpecFacts
<1>l. /\ Len(log) \in Nat /\ Len(log) >= 1 /\ Len(log) \in 1 .. Len(log)
      /\ Len(log) \in 1 .. Len(log) + 1 /\ Api = log[Len(log)] /\ Api.st \in OSOKStatus
  BY <1>i, LogFacts DEF RP!Version
<1>s. /\ pc = "idle" /\ db.state = "ACTIVE" /\ db.spec = Latest /\ secret = Latest.pw
      /\ Api.st.ocid # 0 /\ Api.st.async = NoAsync
  BY DEF Settled, Latest
<1>1. Living(Api) /\ pc' = "idle"
  BY <1>s
<1>2. Api.st.ocid = 1 /\ Api.st.async.wr = 0
  <2>1. Api.st.ocid \in {1} \cup {0} /\ NoAsync.wr = 0
    BY <1>l, ProtectedDatabaseAssumption DEF OSOKStatus, NoAsync
  <2> QED
    BY <1>s, <2>1
<1>3. Earlier' = Latest /\ db.want = Latest
  <2>1. Len(spec') - 1 = Len(spec) /\ Len(spec) \in 1 .. Len(spec)
    BY <1>n
  <2> QED
    BY <1>i, <1>s, <2>1 DEF Earlier, Latest, WantInForce
<1>4. \A k \in 1 .. Len(log) : Living(log[k]) =>
         log[k].gen \in 1 .. Len(spec) /\ spec[log[k].gen] = Latest
  <2>1. \A k \in 1 .. Len(log) : Living(log[k]) => log[k].gen \in 1 .. Len(spec)
    BY <1>i, BehindFacts
  <2>2. CASE Len(spec) = 1
    BY <2>1, <2>2 DEF Latest
  <2>3. CASE Len(spec) > 1 /\ Behind
    <3>1. Frozen
      BY <1>i, <1>l, <1>1, <2>3 DEF Progress, InUse
    <3>2. Earlier = Latest /\ FrozenLog
      BY <1>s, <3>1 DEF Frozen
    <3> QED
      BY <1>n, <2>1, <3>2 DEF FrozenLog, Latest
  <2>4. CASE ~Behind
    BY <1>i, <2>1, <2>4, BehindFacts DEF Latest
  <2> QED
    BY <1>n, <2>2, <2>3, <2>4
<1>5. ASSUME NEW k \in 1 .. Len(log'), Living(log'[k])
      PROVE  \/ k \in 1 .. Len(log) /\ log'[k] = log[k]
             \/ log'[k].gen = Len(spec') /\ log'[k].st = Api.st
  <2>1. k \in 1 .. Len(log) \/ k = Len(log) + 1
    BY <1>l DEF Appended
  <2>2. CASE k = Len(log) + 1
    <3>1. Follows(log'[k])
      BY <2>2 DEF Appended
    <3> QED
      BY <1>1, <1>5, <1>s, <3>1 DEF Follows, Living
  <2> QED
    BY <2>1, <2>2 DEF Appended
<1>6. FrozenLog'
  <2> SUFFICES ASSUME NEW k \in 1 .. Len(log'), Living(log'[k])
               PROVE  IF log'[k].gen < Len(spec') THEN spec'[log'[k].gen] = Earlier'
                      ELSE log'[k].st.ocid = 1 /\ log'[k].st.async.wr = 0
    BY DEF FrozenLog, Living
  <2>1. CASE k \in 1 .. Len(log) /\ log'[k] = log[k]
    <3>1. log[k].gen \in 1 .. Len(spec) /\ spec[log[k].gen] = Latest
      BY <1>4, <2>1
    <3>2. log[k].gen < Len(spec')
      BY <1>n, <3>1
    <3> QED
      BY <1>3, <2>1, <3>1, <3>2
  <2>2. CASE log'[k].gen = Len(spec') /\ log'[k].st = Api.st
    BY <1>2, <1>n, <2>2
  <2> QED
    BY <1>5, <2>1, <2>2
<1>7. Behind'
  <2>1. Len(log) \in 1 .. Len(log') /\ log'[Len(log)] = Api
    BY <1>l DEF Appended
  <2>2. Api.gen < Len(spec')
    BY <1>1, <1>i, <1>n DEF SpecOK, Living
  <2> QED
    BY <1>1, <2>1, <2>2 DEF Behind, Living
<1> QED
  BY <1>1, <1>3, <1>6, <1>7, <1>s DEF Frozen, Reconciling, Running

\* What the other steps of Kubernetes leave alone.
LEMMA KubernetesKeeps ==
    ASSUME Kubernetes \/ Restart
    PROVE  /\ UNCHANGED <<db, wrs, secret>>
           /\ \/ UNCHANGED <<spec, late>>
              \/ /\ R!UserEditSpec /\ ~Api.del /\ late' = (late \/ ~Settled)
                 /\ \E next \in WrittenSpecs(Len(spec) + 1) :
                       SubSeq(next, 1, Len(spec)) = spec /\ spec' = next
  BY DEF Kubernetes, Users, Restart, ociVars, histVars

\* No call runs when the reconciler starts one.
LEMMA NoCallAtStart ==
    ASSUME CallOK, HeldStarts \/ HeldAdds
    PROVE  call'.step = "none"
<1>1. call.step \in CallSteps /\ call' = call /\ pc \notin {"createOrUpdate", "delete"}
  BY DEF CallOK, CallRecord, HeldStarts, HeldAdds
<1> QED
  BY <1>1 DEF CallOK, CallSteps, CreateSteps, DeleteSteps

\* A version that a reconcile may find after the step.
LEMMA LogOfStep ==
    ASSUME PInv, Len(spec) > 1, UNCHANGED spec, Shifted \/ Appended,
           NEW k \in 1 .. Len(log'), Living(log'[k])
    PROVE  \/ \E m \in 1 .. Len(log) : log'[k] = log[m]
           \/ /\ log'[k].gen = Len(spec) /\ Living(Api)
              /\ \/ log'[k].st = Api.st
                 \/ pc = "patchStatus" /\ log'[k].st = MergeFrom(Api.st, old, obj.st)
<1>i. RP!IInv /\ SpecOK
  BY DEF PInv
<1>1. Len(spec') # 1
  <2>1. \A n \in Nat : n > 1 => n # 1
    OBVIOUS
  <2> QED
    BY <1>i, <2>1, SpecFacts
<1> QED
  BY <1>i, <1>1, VersionsStep DEF Follows

\* With the stored version in hand.
LEMMA ApiInLog ==
    ASSUME PInv
    PROVE  /\ Len(log) \in 1 .. Len(log) /\ 1 \in 1 .. Len(log) /\ Api = log[Len(log)]
           /\ Living(Api) => Api.gen = Len(spec)
           /\ Api.st \in OSOKStatus /\ old \in OSOKStatus /\ obj.st \in OSOKStatus
<1>1. RP!IInv /\ SpecOK
  BY DEF PInv
<1> QED
  BY <1>1, LogFacts, ReconcilerFacts DEF SpecOK, Living, RP!Version

\* The reconciler takes up a version of the log, or goes on with the one it has.
LEMMA HeldOfStep ==
    ASSUME PInv, Kubernetes \/ Restart, UNCHANGED spec, Reconciling'
    PROVE  \/ Reconciling /\ UNCHANGED <<pc, obj, old, call>>
           \/ call'.step = "none" /\ pc' = "createOrUpdate" /\ ~Reconciling /\ HeldStarts
           \/ /\ call'.step = "none" /\ pc' = "createOrUpdate" /\ ~Reconciling /\ HeldAdds
              /\ obj'.gen = Len(spec)
<1>1. CallOK
  BY DEF PInv
<1>2. CASE HeldStarts
  BY <1>1, <1>2, NoCallAtStart DEF HeldStarts, Reconciling
<1>3. CASE HeldAdds
  BY <1>1, <1>3, NoCallAtStart, ApiInLog DEF HeldAdds, Reconciling
<1> QED
  BY <1>2, <1>3, KubernetesHolds DEF Reconciling

\* Without an edit no step of Kubernetes brings back an earlier generation.
LEMMA BehindEnds ==
    ASSUME PInv, HeldOrdered, Len(spec) > 1, Kubernetes \/ Restart, UNCHANGED spec,
           Shifted \/ Appended
    PROVE  (InUse' => InUse) /\ (Behind' => Behind)
<1>n. Len(spec) \in Nat /\ ~(Len(spec) < Len(spec))
  BY SpecFacts DEF PInv
<1>1. ASSUME NEW k \in 1 .. Len(log'), Living(log'[k])
      PROVE  InUse /\ (log'[k].gen < Len(spec) => Behind)
  <2>1. CASE \E m \in 1 .. Len(log) : log'[k] = log[m]
    BY <1>1, <2>1 DEF InUse, Behind
  <2>2. CASE log'[k].gen = Len(spec) /\ Living(Api)
    BY <1>n, <2>2, ApiInLog DEF InUse
  <2> QED
    BY <1>1, <2>1, <2>2, LogOfStep
<1>2. ASSUME Reconciling'
      PROVE  InUse /\ (obj'.gen < Len(spec) => Behind)
  <2>1. CASE Reconciling /\ UNCHANGED <<pc, obj, old, call>>
    BY <2>1 DEF InUse, Behind
  <2>2. CASE HeldStarts
    BY <2>2, ApiInLog DEF HeldStarts, InUse, Behind
  <2>3. CASE HeldAdds /\ obj'.gen = Len(spec)
    BY <1>n, <2>3, ApiInLog DEF HeldAdds, InUse
  <2> QED
    BY <1>2, <2>1, <2>2, <2>3, HeldOfStep
<1>3. InUse' => Reconciling' \/ \E k \in 1 .. Len(log') : Living(log'[k])
  BY DEF InUse, Reconciling, Living
<1>4. Behind' => \/ Reconciling' /\ obj'.gen < Len(spec)
                 \/ \E k \in 1 .. Len(log') : Living(log'[k]) /\ log'[k].gen < Len(spec)
  BY DEF Behind, Reconciling, Living
<1> QED
  BY <1>1, <1>2, <1>3, <1>4

\* While a reconcile of an earlier generation runs or is to come, the log
\* tells nothing new.
LEMMA FrozenLogStays ==
    ASSUME PInv, Len(spec) > 1, Frozen, UNCHANGED spec, Shifted \/ Appended
    PROVE  FrozenLog'
<1>n. Len(spec) \in Nat /\ ~(Len(spec) < Len(spec))
  BY SpecFacts DEF PInv
<1>1. FrozenLog /\ Earlier' = Earlier
  BY DEF Frozen, Earlier
<1> SUFFICES ASSUME NEW k \in 1 .. Len(log'), Living(log'[k])
             PROVE  IF log'[k].gen < Len(spec) THEN spec[log'[k].gen] = Earlier
                    ELSE log'[k].st.ocid = 1 /\ log'[k].st.async.wr = 0
  BY <1>1 DEF FrozenLog, Living
<1>2. CASE \E m \in 1 .. Len(log) : log'[k] = log[m]
  BY <1>1, <1>2 DEF FrozenLog
<1>3. CASE /\ log'[k].gen = Len(spec) /\ Living(Api)
           /\ \/ log'[k].st = Api.st
              \/ pc = "patchStatus" /\ log'[k].st = MergeFrom(Api.st, old, obj.st)
  <2>1. Api.st.ocid = 1 /\ Api.st.async.wr = 0
    BY <1>1, <1>3, <1>n, ApiInLog DEF FrozenLog
  <2>2. CASE pc = "patchStatus" /\ log'[k].st = MergeFrom(Api.st, old, obj.st)
    <3>1. Quiet(old, obj.st)
      BY <2>2 DEF Frozen
    <3>2. MergeFrom(Api.st, old, obj.st).ocid = 1 /\ MergeFrom(Api.st, old, obj.st).async.wr = 0
      BY <2>1, <3>1, ApiInLog, MergeQuiet
    <3> QED
      BY <1>3, <1>n, <2>2, <3>2
  <2> QED
    BY <1>3, <1>n, <2>1, <2>2
<1> QED
  BY <1>2, <1>3, LogOfStep

\* While an earlier generation is being reconciled, or after it.
LEMMA KubernetesWhileFrozen ==
    ASSUME MovesAlone, PInv, PInv', GenerationsOrdered, HeldOrdered, HeldOrdered', Len(spec) > 1,
           Behind, Frozen, Kubernetes \/ Restart, UNCHANGED spec, Shifted \/ Appended
    PROVE  IF Behind' THEN Frozen' ELSE Applied' \/ Unapplied'
<1>i. SpecOK /\ SpecOK' /\ Len(spec) \in Nat
  BY SpecFacts DEF PInv
<1>d. /\ UNCHANGED <<db, wrs, secret>> /\ Earlier' = Earlier /\ Latest' = Latest
      /\ db.state = "ACTIVE" /\ db.spec = Earlier /\ db.want = Earlier
      /\ secret \in {Earlier.pw, "", "foreign"}
  BY KubernetesKeeps DEF Frozen, Earlier, Latest
<1>l. FrozenLog'
  BY FrozenLogStays
<1>b. Behind' => \/ Reconciling' /\ obj'.gen < Len(spec)
                 \/ \E k \in 1 .. Len(log') : Living(log'[k]) /\ log'[k].gen < Len(spec)
  BY DEF Behind, Reconciling, Living
<1>c. (Reconciling' /\ obj'.gen < Len(spec) => Behind')
      /\ \A k \in 1 .. Len(log') : Living(log'[k]) /\ log'[k].gen < Len(spec) => Behind'
  BY DEF Behind, Reconciling, Living
<1>o. ASSUME NEW k \in 1 .. Len(log'), Living(log'[k]), log'[k].gen < Len(spec)
      PROVE  \E m \in 1 .. Len(log) : log'[k] = log[m]
  BY <1>i, <1>o, LogOfStep
<1>a. ~HeldAdds
  <2> SUFFICES ASSUME HeldAdds PROVE FALSE
    OBVIOUS
  <2>1. /\ pc = "addFinalizer" /\ fresh /\ obj.gen = Len(spec) /\ ~Reconciling
        /\ \A k \in 1 .. Len(log) : Living(log[k]) => obj.gen <= log[k].gen
    BY ApiInLog DEF HeldAdds, HeldOrdered, Reconciling
  <2>2. \A k \in 1 .. Len(log) : log[k].gen \in Nat
    BY VersionFacts DEF PInv
  <2> QED
    BY <1>i, <2>1, <2>2 DEF Behind
<1>s. ASSUME HeldStarts, ~Reconciling
      PROVE  Behind' /\ spec[log[1].gen] = Earlier
  <2>1. PICK k \in 1 .. Len(log) : Living(log[k]) /\ log[k].gen < Len(spec)
    BY <1>s DEF Behind
  <2>2. UNCHANGED log /\ Living(log[1])
    BY <1>s DEF HeldStarts
  <2>3. Behind'
    BY <1>c, <2>1, <2>2
  <2>4. log[1].gen \in Nat /\ log[k].gen \in Nat /\ log[1].gen <= log[k].gen /\ 1 \in 1 .. Len(log)
    BY <2>1, <2>2, ApiInLog, VersionFacts DEF GenerationsOrdered, PInv
  <2>5. log[1].gen < Len(spec)
    BY <1>i, <2>1, <2>4
  <2> QED
    BY <2>2, <2>3, <2>4, <2>5 DEF Frozen, FrozenLog
<1>1. CASE Behind'
  <2>1. CASE Reconciling /\ UNCHANGED <<pc, obj, old, call>>
    <3>1. spec'[obj'.gen] = Earlier'
      BY <1>d, <2>1 DEF Frozen
    <3>2. Running' => FrozenCall'
      BY <1>d, <2>1 DEF Frozen, Running, FrozenCall
    <3>3. pc' = "patchStatus" => Quiet(old', obj'.st)
      BY <2>1 DEF Frozen
    <3> QED
      BY <1>1, <1>d, <1>l, <3>1, <3>2, <3>3 DEF Frozen
  <2>2. CASE call'.step = "none" /\ pc' = "createOrUpdate" /\ ~Reconciling /\ HeldStarts
    <3>1. spec'[obj'.gen] = Earlier'
      BY <1>d, <1>s, <2>2 DEF HeldStarts
    <3> QED
      BY <1>1, <1>d, <1>l, <2>2, <3>1 DEF Frozen, Running
  <2>3. CASE ~Reconciling'
    BY <1>1, <1>d, <1>l, <2>3 DEF Frozen, Running, Reconciling
  <2> QED
    BY <1>a, <2>1, <2>2, <2>3, HeldOfStep
<1>2. CASE ~Behind'
  <2>1. ~Reconciling'
    <3>1. CASE Reconciling /\ UNCHANGED <<pc, obj, old, call>>
      <4>1. Reconciling' /\ ~(obj.gen < Len(spec))
        BY <1>2, <1>c, <3>1 DEF Reconciling
      <4>2. PICK k \in 1 .. Len(log) : Living(log[k]) /\ log[k].gen < Len(spec)
        BY <4>1 DEF Behind
      <4>3. obj.gen <= log[k].gen /\ obj.gen \in 1 .. Len(spec) /\ log[k].gen \in Nat
        BY <3>1, <4>2, VersionFacts DEF HeldOrdered, PInv
      <4> QED
        BY <1>i, <4>1, <4>2, <4>3
    <3> QED
      BY <1>2, <1>a, <1>s, <3>1, HeldOfStep
  <2>2. CASE Earlier.pw = Latest.pw
    BY <1>2, <1>d, <2>2 DEF Applied
  <2>3. CASE Earlier.pw # Latest.pw
    <3>1. Earlier.comp = Latest.comp
      BY <1>i, <2>3, MoveKeepsPassword
    <3>2. Latest.pw \notin {"", "foreign"}
      BY <1>i, SpecFacts DEF Passwords
    <3>3. \A k \in 1 .. Len(log') : Living(log'[k]) => ~(log'[k].gen < Len(spec))
      BY <1>2, <1>c
    <3>4. KnownLog'
      BY <1>l, <3>3 DEF KnownLog, FrozenLog, Living, Known
    <3>5. UnappliedDb'
      BY <1>d, <2>3, <3>1 DEF UnappliedDb
    <3>6. Unapplied'
      BY <1>d, <2>1, <2>3, <3>2, <3>4, <3>5 DEF Unapplied, Running, Reconciling
    <3> QED
      BY <1>2, <3>6
  <2> QED
    BY <2>2, <2>3
<1> QED
  BY <1>1, <1>2

\* When only the last generation is left.
LEMMA KubernetesWhileUnapplied ==
    ASSUME PInv, HeldOrdered, Len(spec) > 1, Unapplied, Kubernetes \/ Restart, UNCHANGED spec,
           Shifted \/ Appended
    PROVE  Unapplied'
<1>d. UNCHANGED <<db, wrs, secret>> /\ Latest' = Latest
  BY KubernetesKeeps DEF Latest
<1>k. KnownLog
  BY DEF Unapplied
<1>1. KnownLog'
  <2> SUFFICES ASSUME NEW k \in 1 .. Len(log'), Living(log'[k])
               PROVE  Known(log'[k].st, wrs)
    BY <1>d DEF KnownLog, Living
  <2>1. CASE \E m \in 1 .. Len(log) : log'[k] = log[m]
    BY <1>k, <2>1 DEF KnownLog
  <2>2. CASE /\ Living(Api)
             /\ \/ log'[k].st = Api.st
                \/ pc = "patchStatus" /\ log'[k].st = MergeFrom(Api.st, old, obj.st)
    <3>1. Known(Api.st, wrs)
      BY <1>k, <2>2, ApiInLog DEF KnownLog
    <3>2. pc = "patchStatus" => Known(obj.st, wrs)
      BY DEF Unapplied, Reconciling
    <3> QED
      BY <2>2, <3>1, <3>2, ApiInLog, MergeKnown
  <2> QED
    BY <2>1, <2>2, LogOfStep
<1>2. UnappliedDb'
  BY <1>d DEF Unapplied, UnappliedDb
<1>3. CASE Reconciling /\ UNCHANGED <<pc, obj, old, call>>
  <2>1. Running' => UnappliedCall'
    BY <1>3, <1>d DEF Unapplied, Running, UnappliedCall
  <2> QED
    BY <1>1, <1>2, <1>3, <1>d, <2>1 DEF Unapplied
<1>4. CASE call'.step = "none" /\ pc' = "createOrUpdate" /\ (HeldStarts \/ HeldAdds)
  <2>1. Known(obj'.st, wrs)
    BY <1>4, <1>k, ApiInLog DEF KnownLog, HeldStarts, HeldAdds
  <2> QED
    BY <1>1, <1>2, <1>4, <1>d, <2>1 DEF Unapplied, Running
<1>5. CASE ~Reconciling'
  BY <1>1, <1>2, <1>5, <1>d DEF Unapplied, Running, Reconciling
<1> QED
  BY <1>3, <1>4, <1>5, HeldOfStep

-----------------------------------------------------------------------------
(* The invariant holds. *)

\* No CreateOrUpdate follows a Delete.
LEMMA DeleteEnds ==
    ASSUME PInv, RP!UidBounded, HeldOrdered, Delete
    PROVE  /\ ~InUse' /\ UNCHANGED log
           /\ db'.spec = db.spec /\ db'.want = db.want
<1>i. RP!IInv /\ CallOK /\ StateOK /\ DbType
  BY DEF PInv, StateOK, DbType
<1>1. pc = "delete"
  BY <1>i DEF Delete, StartDelete, GuardPendingWrite, ConfirmPendingWriteReadback,
              DeleteDatabase, DeletePasswordStateSecret, EraseSecret, At, CallOK, DeleteSteps
<1>2. \A k \in 1 .. Len(log) : ~Living(log[k])
  BY <1>i, <1>1, DeletingEnds DEF Deleting
<1>3. CallStep
  BY <1>i, ReconcilerFacts, DeleteStep DEF StateOK
<1>4. UNCHANGED log /\ pc' \notin {"createOrUpdate", "patchStatus"}
  BY <1>1, <1>3 DEF CallStep, reconcilerVars, R!CreateOrUpdateReturns, R!DeleteReturns,
                    R!apiVars, R!Finish
<1>5. ~InUse'
  BY <1>2, <1>4 DEF InUse, Reconciling, Living
<1>6. db'.spec = db.spec /\ db'.want = db.want
  BY <1>i DEF Delete, StartDelete, GuardPendingWrite, ConfirmPendingWriteReadback,
              DeleteDatabase, DeletePasswordStateSecret, EraseSecret, ociVars, DbType
<1> QED
  BY <1>4, <1>5, <1>6

\* Operations of the service end.
LEMMA OciKeepsProgress ==
    ASSUME PInv, WantInForce, Progress, Oci,
           UNCHANGED <<log, pc, obj, old, spec, secret, call>>
    PROVE  Progress'
<1>i. SpecOK /\ DbType /\ WrsType /\ RP!IInv
  BY DEF PInv, StateOK, DbType, WrsType
<1>u. /\ InUse' = InUse /\ Behind' = Behind /\ Latest' = Latest
      /\ Running' = Running /\ Reconciling' = Reconciling
  BY DEF InUse, Behind, Latest, Running, Reconciling, Living
<1>d. /\ db.state # "ACTIVE"
      /\ \/ db'.spec = db.want /\ db'.want = db.want /\ db.state \in {"CREATING", "UPDATING", "DELETING"}
         \/ /\ db'.spec = db.spec /\ db'.want = db.spec /\ db'.state = "ACTIVE"
            /\ WorkRequestsEnd("FAILED")
  BY <1>i DEF Oci, OperationSucceeds, UpdateFails, DbType
<1>1. Len(spec') = 1 => db'.spec = spec'[1] /\ db'.want = spec'[1]
  BY <1>d DEF Progress
<1>2. ASSUME Len(spec) > 1, InUse
      PROVE  ~Behind /\ (Applied' \/ Unapplied')
  <2>1. ~Behind /\ (Applied \/ Unapplied)
    BY <1>2, <1>d DEF Progress, Frozen
  <2>2. CASE Applied
    BY <1>d, <1>u, <2>1, <2>2 DEF Applied
  <2>3. CASE Unapplied /\ db'.spec = db.want /\ db'.want = db.want
    BY <1>d, <1>u, <2>1, <2>3 DEF Unapplied, UnappliedDb, Applied
  <2>4. CASE /\ Unapplied /\ db'.spec = db.spec /\ db'.state = "ACTIVE"
             /\ WorkRequestsEnd("FAILED")
    <3>1. \A st \in OSOKStatus : Known(st, wrs) => Known(st, wrs')
      <4>1. \A x \in WorkRequestIDs : wrs[x].status # "SUCCEEDED" => wrs'[x].status # "SUCCEEDED"
        BY <1>i, <2>4 DEF WorkRequestsEnd, WrsType
      <4>2. \A st \in OSOKStatus : st.async.wr \in WorkRequestIDs \cup {0}
        BY DEF OSOKStatus, AsyncOperation
      <4> QED
        BY <4>1, <4>2 DEF Known
    <3>2. KnownLog'
      BY <1>i, <2>4, <3>1, VersionFacts DEF Unapplied, KnownLog, Living
    <3>3. Reconciling => Known(obj.st, wrs')
      BY <1>i, <2>4, <3>1, ReconcilerFacts DEF Unapplied
    <3>4. Running => UnappliedCall'
      <4>1. call.st \in OSOKStatus
        BY DEF PInv, CallOK, CallRecord
      <4> QED
        BY <1>u, <2>4, <3>1, <4>1 DEF Unapplied, UnappliedCall
    <3>5. UnappliedDb'
      BY <1>u, <2>4 DEF Unapplied, UnappliedDb
    <3>6. Unapplied'
      BY <1>u, <2>4, <3>2, <3>3, <3>4, <3>5 DEF Unapplied
    <3> QED
      BY <2>1, <3>6
  <2> QED
    BY <1>d, <2>1, <2>2, <2>3, <2>4
<1> QED
  BY <1>1, <1>2, <1>u DEF Progress

LEMMA SecretChangeKeepsProgress ==
    ASSUME PInv, Progress, secret' \in {secret, "", "foreign"},
           UNCHANGED <<log, pc, obj, old, spec, db, wrs, call>>
    PROVE  Progress'
<1>u. /\ InUse' = InUse /\ Behind' = Behind /\ Latest' = Latest /\ Earlier' = Earlier
      /\ Running' = Running /\ Reconciling' = Reconciling /\ (FrozenLog => FrozenLog')
      /\ (FrozenCall => FrozenCall') /\ (UnappliedCall => UnappliedCall')
      /\ (KnownLog => KnownLog') /\ (UnappliedDb => UnappliedDb') /\ (Applied => Applied')
  BY DEF InUse, Behind, Latest, Earlier, Running, Reconciling, Living, FrozenLog, FrozenCall,
         UnappliedCall, KnownLog, UnappliedDb, Applied
<1>1. Latest.pw \notin {"", "foreign"}
  BY SpecFacts DEF PInv, Passwords
<1>2. Frozen => Frozen'
  BY <1>u DEF Frozen
<1>3. Unapplied => Unapplied'
  BY <1>u, <1>1 DEF Unapplied
<1> QED
  BY <1>u, <1>2, <1>3 DEF Progress

LEMMA CreateKeepsProgress ==
    ASSUME PInv, HeldOrdered, Progress, CreateOrUpdate, UNCHANGED spec
    PROVE  Progress'
<1>i. RP!IInv /\ CallOK /\ SpecOK /\ StateOK
  BY DEF PInv
<1>p. pc = "createOrUpdate" /\ Reconciling /\ InUse
  BY <1>i, StepOfCreate DEF Reconciling, InUse
<1>1. Reconciling' /\ UNCHANGED log /\ obj'.gen = obj.gen
  <2>1. CallStep
    BY <1>i, ReconcilerFacts, CreateOrUpdateStep DEF StateOK
  <2>2. CASE UNCHANGED reconcilerVars
    BY <1>p, <2>2 DEF reconcilerVars, Reconciling
  <2>3. ASSUME NEW st, NEW r, R!CreateOrUpdateReturns(st, r), call' = NoCall
        PROVE  Reconciling' /\ UNCHANGED log /\ obj'.gen = obj.gen
    BY <1>i, <2>3, ReturnsEffect DEF Returns, Reconciling
  <2>4. ASSUME NEW st, NEW out, R!DeleteReturns(st, out)
        PROVE  FALSE
    BY <1>p, <2>4 DEF R!DeleteReturns
  <2> QED
    BY <2>1, <2>2, <2>3, <2>4 DEF CallStep
<1>2. Behind' <=> Behind
  BY <1>1, <1>p DEF Behind, Living
<1>3. Len(spec') = 1 => db'.spec = spec'[1] /\ db'.want = spec'[1]
  BY CreateWithOneSpec DEF Progress
<1>4. ASSUME Len(spec) > 1
      PROVE  IF Behind' THEN Frozen' ELSE Applied' \/ Unapplied'
  <2>1. CASE Behind
    <3>1. Frozen
      BY <1>4, <1>p, <2>1 DEF Progress
    <3> QED
      BY <1>2, <1>4, <1>i, <1>p, <2>1, <3>1, CreateWhileFrozen, FrozenStays
  <2>2. CASE ~Behind
    <3>1. Applied \/ Unapplied
      BY <1>4, <1>p, <2>2 DEF Progress
    <3>2. Desired = Latest
      BY <1>i, <1>p, <2>2, BehindFacts DEF Desired, Latest
    <3> QED
      BY <1>2, <1>i, <1>p, <2>2, <3>1, <3>2, CreateWhileApplied, CreateWhileUnapplied,
         UnappliedStays
  <2> QED
    BY <2>1, <2>2
<1> QED
  BY <1>3, <1>4 DEF Progress

LEMMA KubernetesKeepsProgress ==
    ASSUME MovesAlone, PInv, PInv', GenerationsOrdered, HeldOrdered, HeldOrdered', Progress,
           Kubernetes \/ Restart, UNCHANGED spec, Shifted \/ Appended
    PROVE  Progress'
<1>1. UNCHANGED db
  BY KubernetesKeeps
<1>2. Len(spec') = 1 => db'.spec = spec'[1] /\ db'.want = spec'[1]
  BY <1>1 DEF Progress
<1>3. ASSUME Len(spec) > 1, InUse'
      PROVE  IF Behind' THEN Frozen' ELSE Applied' \/ Unapplied'
  <2>1. InUse /\ (Behind' => Behind)
    BY <1>3, BehindEnds
  <2>2. CASE Behind
    <3>1. Frozen
      BY <1>3, <2>1, <2>2 DEF Progress
    <3> QED
      BY <1>3, <2>2, <3>1, KubernetesWhileFrozen
  <2>3. CASE ~Behind
    <3>1. Applied \/ Unapplied
      BY <1>3, <2>1, <2>3 DEF Progress
    <3>2. Applied => Applied'
      BY <1>1 DEF Applied, Latest
    <3> QED
      BY <1>3, <2>1, <2>3, <3>1, <3>2, KubernetesWhileUnapplied
  <2> QED
    BY <2>2, <2>3
<1> QED
  BY <1>2, <1>3 DEF Progress

LEMMA ProgressInductive ==
    ASSUME MovesAlone, PInv, PInv', RP!UidBounded, GenerationsOrdered, HeldOrdered,
           HeldOrdered', WantInForce, Shifted \/ Appended, [Next]_vars, ~late => Progress
    PROVE  ~late' => Progress'
<1>1. CASE (Kubernetes \/ Restart) /\ UNCHANGED <<spec, late>>
  BY <1>1, KubernetesKeepsProgress
<1>2. CASE (Kubernetes \/ Restart) /\ ~UNCHANGED <<spec, late>>
  <2>1. /\ R!UserEditSpec /\ ~Api.del /\ late' = (late \/ ~Settled)
        /\ UNCHANGED <<db, secret>>
        /\ \E next \in WrittenSpecs(Len(spec) + 1) :
              SubSeq(next, 1, Len(spec)) = spec /\ spec' = next
    BY <1>2, KubernetesKeeps
  <2>2. UNCHANGED pc /\ Living(Api) /\ R!StoreByOther([Api EXCEPT !.gen = @ + 1]) /\ Api.gen < MaxGen
    BY <2>1 DEF R!UserEditSpec, Living, Api
  <2>3. Api.gen = Len(spec) /\ Len(spec) \in Nat /\ Len(spec) >= 1 /\ MaxGen \in Nat
    BY <2>2, ApiInLog, SpecFacts, ReconcilerBounds DEF PInv
  <2>4. Len(spec) + 1 \in 1 .. MaxGen
    BY <2>2, <2>3
  <2>5. Len(spec') = Len(spec) + 1
    BY <2>1, <2>4, WrittenType
  <2>6. \A i \in 1 .. Len(spec) : spec'[i] = spec[i]
    BY SpecGrows
  <2>7. Appended
    <3>1. CASE Shifted
      <4>1. Len(log') = Len(log) + 1 /\ Len(log) \in Nat
        BY <2>2, LogFacts DEF R!StoreByOther, R!Store, PInv
      <4>2. PICK d \in 0 .. Len(log) - 1 : Len(log') = Len(log) - d
        BY <3>1 DEF Shifted
      <4> QED
        BY <4>1, <4>2
    <3> QED
      BY <3>1
  <2>8. ASSUME ~late, Settled PROVE Behind' /\ Frozen'
    <3>1. Progress
      BY <2>8
    <3> QED
      BY <2>1, <2>2, <2>5, <2>6, <2>7, <2>8, <3>1, EditFreezes
  <2>9. Len(spec') # 1
    <3>1. \A n \in Nat : n >= 1 => n + 1 # 1
      OBVIOUS
    <3> QED
      BY <2>3, <2>5, <3>1
  <2>10. ~late' => ~late /\ Settled
    BY <2>1
  <2> QED
    BY <2>8, <2>9, <2>10 DEF Progress
<1>3. CASE CreateOrUpdate /\ UNCHANGED <<spec, late>>
  BY <1>3, CreateKeepsProgress
<1>4. CASE Delete /\ UNCHANGED <<spec, late>>
  BY <1>4, DeleteEnds DEF Progress
<1>5. CASE Oci /\ UNCHANGED <<reconcilerVars, spec, secret, call, histVars>>
  <2>1. UNCHANGED <<log, pc, obj, old, spec, secret, call, late>>
    BY <1>5 DEF reconcilerVars, histVars
  <2> QED
    BY <1>5, <2>1, OciKeepsProgress
<1>6. CASE UserChangesSecret \/ UNCHANGED vars
  <2>1. /\ UNCHANGED <<log, pc, obj, old, spec, db, wrs, call, late>>
        /\ secret' \in {secret, "", "foreign"}
    BY <1>6 DEF UserChangesSecret, vars, reconcilerVars, ociVars, histVars
  <2> QED
    BY <2>1, SecretChangeKeepsProgress
<1> QED
  BY <1>1, <1>2, <1>3, <1>4, <1>5, <1>6 DEF Next

LEMMA WInvInductive ==
    ASSUME MovesAlone, WInv, [Next]_vars
    PROVE  WInv'
<1>i. /\ PInv /\ RP!UidBounded /\ GenerationsOrdered /\ HeldOrdered /\ WantInForce
      /\ ~late => Progress
  BY DEF WInv
<1>1. PInv'
  BY <1>i, PInvInductive
<1>2. RP!UidBounded'
  <2>1. [R!Next]_(R!vars)
    BY <1>i, StepRefines, NamedStep, SameReconcilerVars DEF PInv
  <2>2. [RP!Next]_(RP!vars)
    BY <2>1, SameNext, SameVars
  <2> QED
    BY <1>i, <2>2, StatusFits, BoundsFit, RP!BoundedInductive DEF PInv
<1>3. Shifted \/ Appended
  BY <1>i, LogStep
<1>4. GenerationsOrdered'
  BY <1>i, <1>1, <1>3, GenerationsInductive
<1>5. HeldOrdered'
  BY <1>i, <1>1, <1>3, HeldInductive
<1>6. WantInForce'
  BY <1>i, WantInductive
<1>7. ~late' => Progress'
  BY <1>i, <1>1, <1>3, <1>5, ProgressInductive
<1> QED
  BY <1>1, <1>2, <1>4, <1>5, <1>6, <1>7 DEF WInv

LEMMA InitWInv == Init => WInv
<1> SUFFICES ASSUME Init PROVE WInv
  OBVIOUS
<1>1. PInv
  BY InitPInv
<1>2. RP!UidBounded
  BY SameInit, StatusFits, BoundsFit, RP!InitBounded DEF Init
<1>3. /\ log = <<R!Gone(0)>> /\ pc = "idle" /\ fresh = FALSE
      /\ db = [state |-> "NONE", spec |-> spec[1], want |-> spec[1]]
  BY DEF Init, R!Init
<1>4. \A k \in 1 .. Len(log) : ~log[k].ex
  BY <1>3 DEF R!Gone
<1>5. GenerationsOrdered
  BY <1>4 DEF GenerationsOrdered, Living
<1>6. HeldOrdered
  BY <1>3 DEF HeldOrdered, Reconciling, Deleting
<1>7. WantInForce
  BY <1>3 DEF WantInForce
<1>8. Progress
  BY <1>3, <1>4 DEF Progress, InUse, Reconciling, Living
<1> QED
  BY <1>1, <1>2, <1>5, <1>6, <1>7, <1>8 DEF WInv

-----------------------------------------------------------------------------
(* The theorem. *)

\* A CreateOrUpdate that ends in Active leaves the database with the password
\* of the spec, whatever is stale, lost, refused or restarted, if each edit is
\* made when the one before it is settled and none changes password and
\* compartment at once.
THEOREM ActiveHasPassword == MovesAlone => (Spec => []ActiveMeansPassword)
<1> SUFFICES ASSUME MovesAlone PROVE Spec => []ActiveMeansPassword
  OBVIOUS
<1>1. Init => WInv
  BY InitWInv
<1>2. WInv /\ [Next]_vars => WInv'
  BY WInvInductive
<1>3. WInv => ActiveMeansPassword
  <2> SUFFICES ASSUME WInv, pc = "patchStatus", obj.st.reason = "Active", ~late
               PROVE  db.spec.pw = Desired.pw
    BY DEF ActiveMeansPassword
  <2>1. PInv /\ HeldOrdered /\ Progress /\ SpecOK /\ Reconciling /\ InUse
    BY DEF WInv, PInv, Reconciling, InUse
  <2>2. obj.gen \in 1 .. Len(spec)
    BY <2>1 DEF HeldOrdered
  <2>3. CASE Len(spec) = 1
    BY <2>1, <2>2, <2>3 DEF Progress, Desired
  <2>4. CASE Len(spec) > 1 /\ Behind
    BY <2>1, <2>4 DEF Progress, Frozen, Desired
  <2>5. CASE Len(spec) > 1 /\ ~Behind
    <3>1. Desired = Latest
      BY <2>1, <2>5, BehindFacts DEF Desired, Latest
    <3> QED
      BY <2>1, <2>5, <3>1 DEF Progress, Applied, Unapplied
  <2> QED
    BY <2>1, <2>3, <2>4, <2>5, SpecFacts
<1> QED
  BY <1>1, <1>2, <1>3, PTL DEF Spec
=============================================================================
