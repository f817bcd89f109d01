# TLA+ verification of the OCI Service Operator for Kubernetes (OSOK)

OSOK lets users manage Oracle Cloud resources as Kubernetes custom resources. A user
creates, edits and deletes a custom resource; the operator calls the OCI service until the
cloud agrees with the object, and records what it knows in the object's status. The two
things a user relies on are that **no cloud resource is lost or created twice**, and that
**the status tells the truth**. Neither is easy: the operator sees the object through a
cache that lags, OCI works asynchronously, and either side can fail between any two calls.

This directory models the operator's own core, `pkg/core`, `pkg/servicemanager` and
`pkg/servicemanager/generatedruntime`, checks it with TLC on small instances, and proves
with TLAPS, for all values of the parameters, the central facts about the reconciler, that each
modelled service manager is one the reconciler allows, and what each of them promises about
duplicates, orphans, Secrets, passwords and what Active means.
`PROJECT.json` holds the map from every definition to its source lines, the runs, the
mutants that show that each property can fail, the findings, and the list of hazards.

- [1. Inventory](#1-inventory)
- [2. Modules](#2-modules)
- [3. Runs](#3-runs)
- [4. Bounds](#4-bounds)
- [5. Fairness](#5-fairness)
- [6. Proofs](#6-proofs)
- [7. What the checks found](#7-what-the-checks-found)
- [8. Not modelled](#8-not-modelled)
- [9. Plan](#9-plan)

## 1. Inventory

The repository has several hundred thousand lines outside `vendor/`, most of them generated: API
types, one controller and one service-manager package per OCI resource kind (several
hundred). All of them run through the same few thousand lines of hand-written code.

| Component | State it keeps | Operations | Talks to |
|---|---|---|---|
| `BaseReconciler` (`pkg/core/reconciler.go`, `predicate.go`, `finalizers.go`, `pkg/util/helpers.go`) | none of its own between reconciles: the object in the API server (finalizer, deletionTimestamp, status), the work queue | `Reconcile`, `ReconcileResource`, `deleteResourceResult`, `patchDeleteStatusIfChanged`, `addFinalizer`, `removeFinalizer`, `ReconcilePredicate` | API server (cached reads, `Update`, status patches); the service manager |
| Service manager interface (`pkg/servicemanager/interfaces.go`) | – | `CreateOrUpdate`, `Delete`/`DeleteWithResult` | called by `BaseReconciler` |
| Delete error classification (`pkg/errorutil/delete_classification.go`) | – | `ClassifyDeleteError` | OCI errors |
| Shared async status (`pkg/servicemanager/async_status.go`) | `status.async.current`: source, phase, work request, normalized class | `ApplyAsyncOperation`, `ClearAsyncOperation`, `ProjectAsyncCondition`, `ResolveTrackedWorkRequest`, the adapters' `Normalize` | the status of the object |
| Generated runtime (`pkg/servicemanager/generatedruntime`) | `status.ocid`, the tracker; within a call the current response and id | `CreateOrUpdate`, `DeleteWithResult`, resume of work requests, list-before-create, read-after-write, delete confirmation | OCI `Create`, `Get`, `List`, `Update`, `Delete`, `GetWorkRequest` |
| Endpoint secrets (`streaming/stream/stream_endpoint_secret_client.go`; Queue and MySQL DbSystem alike) through `pkg/credhelper/kubesecret` | a Secret with the name of the custom resource, labelled with its UID | sync after Active, adopt, cleanup after delete; guarded update and delete | the wrapped client, API server |
| Managed secret helpers (`managed_secret_helpers.go`) | Secrets owned by kind and name | `EnsureOwnedSecret`, `DeleteOwnedSecretIfPresent` | API server |
| `WebAppAcceleration` service manager (`waa/webappacceleration`) | as the runtime, with the raw operation type in the tracker | its own create, update, compartment move, delete; guards that wait for writes before a delete | OCI, the shared tracker |
| `ProtectedDatabase` service manager (`recovery/protecteddatabase`) | a Secret with the hash of the password last applied | password tracking, compartment change, delete confirmation around the generated runtime | the runtime, OCI, `KubeSecretClient`, the managed secret helpers |
| Other overlays (per-service hand-written clients) | as the runtime | single steps replaced or wrapped | the runtime, OCI |
| Controllers, manager process, auth, metrics, logging | process-wide configuration | start-up, forwarding | – |
| Generators and validators (`internal/...`) | files | build-time | – |

**How they interact.** The informer delivers watch events through `ReconcilePredicate` into
a work queue. A worker dequeues a request and runs `Reconcile`: it reads the object from the
cache; if the object is being deleted it calls the service manager's delete and removes the
finalizer when that reports the resource gone; otherwise it adds the finalizer, calls
`CreateOrUpdate` and patches the status. The result decides whether the request is queued
again after a delay. Controllers run three workers, but controller-runtime never gives one
request to two of them, and objects share no state: one object is enough for a model.

**What is hard.**
- *Stale reads.* Each reconcile works on a cached object that may be several versions old,
  or belong to an incarnation of the name that is gone. `Update` is protected by
  `resourceVersion`; status patches are not protected by anything.
- *Patches are leafwise.* A status patch holds the leaves in which two in-memory copies
  differ. Applied to a newer status it yields a combination nobody computed.
- *Filtered events.* Status changes and resyncs do not wake the controller and most errors
  are swallowed, so that every path must leave a requeue behind if one is needed.
- *Asynchronous OCI.* Resources pass through lifecycle states; work requests may end before
  the resource can be read, fail, or cease to be readable; responses get lost after the call
  took effect.
- *Restarts* between any two calls: only what has been written to the API server survives.

**What makes each component correct.** `BaseReconciler`: the finalizer stays until OCI
confirmed the deletion, `CreateOrUpdate` runs only under the finalizer, no wake-up is lost,
deletions end. Async status: patches keep the status well-formed; the projection and the
response agree. Generated runtime with an OCI service: no orphan, no duplicate, Active only
for the applied spec, deletions end. Endpoint secrets: the Secret goes with its owner, and
users' Secrets and changes are never overwritten. `WebAppAcceleration`: no duplicate, Active
only for the applied spec, and gone only when it is, although reads lag behind writes.
`ProtectedDatabase`: Active only with the password of the spec in force, which nobody can
read back; its Secret goes with the object. The hazards behind these are listed in `PROJECT.json`,
each at the line where it bites.

## 2. Modules

```
Reconciler  <--EXTENDS-- ReconcilerProofs, MCReconciler
     ^
     | INSTANCE (Status <- OSOKStatus, MergePatch <- MergeFrom)
Operator    <--EXTENDS-- MCOperator, OperatorProofs
     | EXTENDS
GeneratedRuntime --EXTENDS--> OciService --EXTENDS--> AsyncStatus <-- AsyncStatusProofs

EndpointSecret     --INSTANCE--> Reconciler
WebAppAcceleration --INSTANCE--> Reconciler, AsyncStatus
ProtectedDatabase  --INSTANCE--> Reconciler;  --EXTENDS--> AsyncStatus
MC<Module>         --EXTENDS-->  <Module>
<Module>Proofs     --EXTENDS-->  <Module>;  --INSTANCE--> ReconcilerProofs (the managers)
PasswordProofs     --EXTENDS-->  ProtectedDatabaseProofs
ConfirmationProofs --EXTENDS-->  WebAppAccelerationProofs
```

**`Reconciler`** is `BaseReconciler` for one name with *any* service manager. It is the
abstract specification of what each controller does, whichever manager it is given.
- `log` is the API server as the informer sees it: the last element is the stored object,
  the first is the cached one, the rest are watch events on their way. `fresh` says whether
  the object in the hands of the reconcile still has the stored `resourceVersion`.
- A version keeps existence, uid, generation, the OSOK finalizer, a foreign finalizer,
  deletionTimestamp and the status.
- `pc` is the step of the running reconcile; there is a step wherever the code calls out,
  since the rest of the world can move only there to any effect. `Start` is `Reconcile` up
  to the first call; `AddFinalizer`, `FinalizerUpdateFails`, `CreateOrUpdateReturns`,
  `PatchStatus`, `DeleteReturns`, `PatchDeleteStatus`, `RemoveFinalizer` are the calls with
  the code that follows each. `Finish(requeueAfter)` is the return. `timer` stands for
  both `RequeueAfter > 0` and rate-limited requeues.
- Users create, edit, delete and re-create; another controller may hold a finalizer.
  `Restart` loses memory, queue and delays, and lists the cache anew.
- `touched`, `confirmed` and `tried` are history variables that the properties use; no
  guard reads them.

**`AsyncStatus`** has the tracker as functions from status to status, and `MergeFrom`, the
JSON merge patch of controller-runtime: leaf by leaf, except that a tracker that becomes nil
is removed whole.

**`OciService`** is external: resources with lifecycle states, retry tokens and work
requests, as far as the runtime's calls can tell. Its constants choose the kind of service:
with work requests or without, OCID in the create response or not, whether a new resource is
unreadable at first (`HidesNew`), whether resources may fail, whether work requests may
become unreadable. A retry token is honoured for the same request and refused for another.
`DeletedOutOfBand` is somebody else deleting a resource whose object lives, with its retry
token remembered or expired; the composition counts it as a fault.

**`GeneratedRuntime`** is `ServiceClient.CreateOrUpdate` and `DeleteWithResult` with one step
per OCI call, in the configuration most services use: formal semantics, Get and List,
list-before-create, a deterministic retry token, the `required` delete policy with
confirm-delete. `call` is the memory of the call. A read and the decision taken from it are
one step; a fault is possible at each call, before or after the call took effect.

**`Operator`** composes them: the reconciler's own actions come from `Reconciler` by
`INSTANCE`, and its arbitrary manager is replaced by the generated runtime. A restart also
ends the call in flight while OCI keeps what it accepted. `ImplementsReconciler` states that
the composition is still a `Reconciler`, so that what is proved of the latter holds here.

**`EndpointSecret`** is another composition with `Reconciler`: a service manager that wraps
any client and keeps the endpoint Secret of a Stream. `secret` is the stored Secret (UID,
owner label, data), `call` the memory of the running call: the record on which it decided,
and `current`, which says whether the Secret still has the `resourceVersion` of the second
read. Users create, change, unlabel and delete the Secret between any two calls. They do not
forge owner labels.

**`WebAppAcceleration`** is a service manager that does not use the generated runtime:
`webappacceleration_runtime_client.go` under `Reconciler`. It has one step per OCI call, named
after the function that makes it, with the decision taken from the answer. The tracker also
has the raw operation type, which tells a move from an update; a spec is a compartment, a load
balancer (which must not change) and a body (which Update sends). The service part of the
module is external and is as difficult as the client and its tests assume: an accepted write
need not show in a read, not even when its work request has succeeded; an answer may come
without a work request, that of an operation in `Untracked` at any time and that of the others
when there are none left; a new resource may be unreadable at first. `MaxTroubles` bounds all
that goes wrong: failing calls (before or after they took effect), failing operations, work
requests that vanish, lost writes to the API server (`WriteLost`) and restarts.

**`ProtectedDatabase`** is the password of a ProtectedDatabase: password tracking, change
operations and delete confirmation of `protecteddatabase_runtime_client.go`, around the
generated runtime in its work request form, under `Reconciler`. `secret` is the Secret of the
object's name: none, somebody else's, or a hash, which stands for its password. `db.spec.pw`
is the password in force, which no read shows. Each call of OCI and of `KubeSecretClient` is
a step, the two of `DeleteOwnedSecretIfPresent` and of `updatePasswordStateSecretIfNeeded`
included. The history variables `late` (the spec was edited before the last edit was settled,
that is, in force, recorded and with nothing left under way) and `raw404` (Delete ended with a 404 that a wrapper passed on) delimit two
properties; no guard reads them. A change of the compartment is answered with a work request or
without one; creates and updates always have one. The runtime's delete is one step per call of `Delete`, without
its work request; `GeneratedRuntime` has that in full.

The **`MC`** modules name small values for the constants. The configurations give values to
constants only.

## 3. Runs

Deadlock is not checked (`CHECK_DEADLOCK FALSE`): once the bounded users have used up their
actions the system is idle, which is where a reconciler should be.

| Run | States | Checks |
|---|---|---|
| `reconciler` | 89,778 | `TypeOK`, `FinalizerRetention`, `CreateOnGuardedObject`, `NoLostWakeup`, and under fairness `DeletionCompletes` and `GenerationReachesManager`, for any manager (one that asks for a requeue without a duration included), with a re-created name, two generations, two undelivered events, a foreign finalizer and a restart |
| `operator_lifecycle` | 1,618,785 | `TypeOK`, `NoOrphan`, `NoDuplicate`, `ActiveMeansApplied`, `ImplementsReconciler`, for a service without work requests, with an edit, failing resources, two of lost calls, lost responses and resources deleted out of band, and a restart |
| `operator_workrequest` | 3,183,750 | `NoOrphan` with work requests in all phases, an edit and a fault or a resource deleted out of band, when resources can be listed at once and work requests stay readable |
| `operator_workrequest_faults` | 286,777 | `NoDuplicate`, `ImplementsReconciler` and under fairness `DeletionEnds`, with operations that fail, work requests that vanish, resources hidden at first and conflicting updates |
| `endpoint_secret` | 1,195,516 | `TypeOK`, `NoSecretLeftBehind`, `GuardedMutation`, `ImplementsReconciler`, with two incarnations of the Stream, two changes by users or failed calls (before or after they took effect) and a restart |
| `webappacceleration` | 2,186,277 | `TypeOK`, `NoDuplicate`, `ActiveMeansApplied`, `ConfirmedMeansGone`, `ImplementsReconciler`, with an edit that moves and updates the resource or asks for what must not change, moves with and without a work request, late reads, and one trouble of any kind at any point |
| `protected_database` | 1,603,542 | `TypeOK`, `ActiveMeansPassword`, `NoSecretLeftBehind`, `ForeignSecretKept`, `ImplementsReconciler`, with an edit of the password, or of compartment and other fields, a move with or without a work request, and one trouble of any kind at any point |
| `operator_pending_create`, `operator_lost_workrequest`, `operator_edit_in_flight`, `webappacceleration_deletion`, `protected_database_move` | – | violations, see section 7 |

What the passing runs show, beyond the single properties:
- A reconcile on a cache that is stale in any way cannot start creating for an object that
  is being deleted or is gone: the refused `addFinalizer` always stops it. The unguarded
  status patch after `CreateOrUpdate` is safe *because* the finalizer keeps the incarnation
  alive (`CreateOnGuardedObject`); the one on the delete path is not (see the hazard at
  `reconciler.go:263`).
- Although `Reconcile` returns no error to controller-runtime, a deletion that waits for the
  finalizer and a generation that the manager has not seen are never without a wake-up.
- After a lost create response, list-before-create finds the resource, and the retry token
  keeps a second `Create` from making a second one (`NoDuplicate`). The list alone would not
  be enough: the mutant without a token violates the property.
- A deletion ends although OCI fails and forgets things (`DeletionEnds`), except in two
  situations, which `DeletionBlocked` describes: the delete itself failed in OCI (its work
  request stays tracked and every retry polls it again), and a stale status patch that left
  another operation's work request under the phase `delete`. The second is reached because a
  patch carries only the leaves that changed.
- A client that judges by reads has to know what it wrote: `ActiveMeansApplied` of
  `WebAppAcceleration` fails at once when the readback looks at the lifecycle state only. It is
  a property of the step that returns, since its exception (`UntrackedMove`,
  section 7) is told from the memory of the call.
- The hash of a password is recorded after the write and lost by no failure or restart in
  between: whatever goes wrong once, Active means that the password is in force
  (`ActiveMeansPassword`). `ActiveHasPassword` proves it for any number of troubles and edits.
- `ForeignSecretKept` makes the check-then-act of the managed secret helpers precise: a Secret
  of somebody else is lost only when it took the place of the operator's between two calls.
  The guarded client of the endpoint secrets does not have this window (`GuardedMutation`).
- A delete reconcile of an old incarnation can run while a new Stream of the same name has a
  Secret; the UID label and the snapshot check keep it away from that Secret.

`GenerationReachesManager` promises one attempt for a generation. It does not promise that
an attempt which failed is repeated: the code drops the error of `CreateOrUpdate` unless the
manager asks for a requeue.

## 4. Bounds

| Bound | Meaning | Value and why |
|---|---|---|
| `MaxUid` | incarnations of the name | 2 in `reconciler`: confusion needs an old and a new one. 1 in the runs of managers with OCI: with two, the status patch at `reconciler.go:263` can carry the old OCID into the new object (listed as a hazard), and `NoOrphan` fails for another reason (section 7). The theorems, except those on `ProtectedDatabase`, `ConfirmedAccelerationGone`, `ActiveAccelerationApplied`, `NoOrphanLeft` and `ActiveIsApplied`, hold for any number |
| `MaxGen` | edits of a spec | 2: an edit at any point of the first generation. Runs with `MaxGen = 1` ask about create and delete only (deletion adds one more generation) |
| `MaxLag` | undelivered watch events | 2 in `reconciler`: a cache that skips over a whole deletion; 1 in the operator runs: a stale cache. A writer waits when the log is full, which delays but forbids nothing |
| `MaxCrashes` | restarts | 1: at any point of any call; a second one meets the states that the first left. 0 in the two runs with work requests: in `operator_workrequest` a fault loses an answer as a restart does, and in `operator_workrequest_faults` failing operations are the question and the weak fairness of OCI makes the run large. 0 in the violation runs, which do not need one, except `webappacceleration_deletion` |
| `MaxFaults` | OCI calls failing for no reason of their own, and resources deleted out of band | 2 in `operator_lifecycle`: a lost create response and a lost read after it, or a resource deleted out of band and the answer to the creation of its replacement lost. 0 where vanishing and failing work requests are the question |
| `MaxTroubles` | failed calls, changes of the Secret by users; in `WebAppAcceleration` and `ProtectedDatabase` also failed operations, lost API writes and restarts | 2 in `endpoint_secret`: one before a decision and one between decision and write, or one of them and a failure. 1 in the two others: at any call or step of OCI; the stale cache and the late reads are not counted |
| `Edits` | the specs that users may write | one edit each, of all the kinds the client distinguishes. `ActiveMeansApplied` of `WebAppAcceleration` holds for any number of edits of which none is taken back (section 6); section 7 has what happens otherwise |
| `OCIDs` | resources OCI can create | 2: a duplicate needs two. 1 in `ProtectedDatabase`, which asks about the password |
| `WorkRequestIDs` | work requests | 2 for create and delete, 3 with an update; beyond that the service refuses, as a limit does, or in `WebAppAcceleration` answers without one |
| `Untracked` | operations of `WebAppAcceleration` that may be answered without a work request although there are some left | moves in `webappacceleration`, none in `webappacceleration_deletion`. Moves are the ones that the client handles in a way of their own; updates and deletes come without one when the two are used up. The theorems hold for any choice |

Identifiers are handed out in order, which removes the symmetry that a `SYMMETRY` clause would.

## 5. Fairness

- The informer delivers, delays elapse, a dequeued request goes on, calls return: weak
  fairness of `Deliver`, `TimerFires`, `Controller`, and of the manager. This is what
  controller-runtime's watch, rate-limited queue and worker loop guarantee while the process
  runs; restarts are bounded.
- Finalizer updates: strong fairness of `AddFinalizer` and `RemoveFinalizer`. An update may
  conflict time after time, but one that is acceptable again and again is not refused for ever.
- In `Reconciler` the manager is arbitrary, so its deletions would never need to succeed:
  strong fairness of `DeleteReturns(_, "deleted")` for a `fresh` object says that OCI deletes
  in the end, and that a Delete called for the stored version again and again tells so. It is
  not assumed in `Operator`, where it follows from the runtime and from OCI making progress
  (weak fairness of `ResourceProgresses` and `WorkRequestEnds`).
- `WebAppAcceleration`: weak fairness of the same steps, of the manager, and of OCI showing
  and finishing operations. Here a lost API write is a bounded trouble, so that finalizer
  updates need no strong fairness.
- `operator_workrequest_faults` lets operations fail and work requests vanish; what then
  keeps a deletion from ending is part of `DeletionEnds`, not excluded by an assumption.

Users are never fair: nobody has to edit or delete anything.

## 6. Proofs

Eight modules hold theorems; each holds for every value of the constants that satisfies the
named assumptions, that is for any number of incarnations (but see below for `ProtectedDatabase`,
`ConfirmedAccelerationGone`, `ActiveAccelerationApplied`, `NoOrphanLeft` and `ActiveIsApplied`),
edits, undelivered events, restarts, failures, resources and work requests.

| Module | Theorem | Statement |
|---|---|---|
| `ReconcilerProofs` | `TypeCorrect`, `FinalizerIsRetained`, `CreateIsGuarded`, `NoWakeupIsLost` | `Spec => []TypeOK`, `[]FinalizerRetention`, `[]CreateOnGuardedObject`, `[]NoLostWakeup` for every service manager |
| `AsyncStatusProofs` | `MergeFromIsStatus` | statuses are closed under leafwise patches; the type lemmas of the tracker's functions |
| `OperatorProofs` | `OperatorTypeCorrect`, `OperatorRefinesReconciler`, `NoDuplicateCreated` | `Spec => []TypeOK`, `ImplementsReconciler`, `[]NoDuplicate` |
| `OperatorProofs` | `NoOrphanLeft` | `MaxUid = 1 /\ ReadsAreCurrent => (Spec => []NoOrphan)` |
| `OperatorProofs` | `ActiveIsApplied` | `MaxUid = 1 /\ WorkRequests = {} => (Spec => []ActiveMeansApplied)` |
| `EndpointSecretProofs` | `SecretTypeCorrect`, `SecretRefinesReconciler`, `SecretGoesWithStream`, `SecretMutationIsGuarded` | `Spec => []TypeOK`, `ImplementsReconciler`, `[]NoSecretLeftBehind`, `GuardedMutation` |
| `ProtectedDatabaseProofs` | `DatabaseTypeCorrect`, `DatabaseRefinesReconciler`, `HashGoesWithObject`, `ForeignSecretIsKept` | `Spec => []TypeOK`, `ImplementsReconciler`, `[]NoSecretLeftBehind`, `ForeignSecretKept` |
| `PasswordProofs` | `ActiveHasPassword` | `MovesAlone => (Spec => []ActiveMeansPassword)` |
| `WebAppAccelerationProofs` | `AccelerationTypeCorrect`, `AccelerationRefinesReconciler`, `NoDuplicateAcceleration` | `Spec => []TypeOK`, `ImplementsReconciler`, `[]NoDuplicate` |
| `ConfirmationProofs` | `ConfirmedAccelerationGone` | `MaxUid = 1 => (Spec => ConfirmedMeansGone)` |
| `ConfirmationProofs` | `ActiveAccelerationApplied` | `MaxUid = 1 /\ NoneTakenBack => (Spec => ActiveMeansApplied)` |
| the managers' four | `OperatorKeepsReconcilerSafe`, `SecretKeepsReconcilerSafe`, `DatabaseKeepsReconcilerSafe`, `AccelerationKeepsReconcilerSafe` | `Spec => [](R!FinalizerRetention /\ R!CreateOnGuardedObject /\ R!NoLostWakeup)` |

**Assumptions.** Of `Reconciler`: `StatusAssumption` (the patch of statuses is a status) and
`BoundsAssumption` (the bounds are naturals, at least one event may be in flight). The managers
do not assume the first: each proves it for its own statuses and merge patch (`StatusFits`), and
the second follows from `ReconcilerBounds` (`BoundsFit`). Their other assumptions are the types
of their constants. `ProtectedDatabase` also assumes `MaxUid = 1` and one resource: it has the specs
and the database of one incarnation. TLC evaluates all of them in the runs. `ActiveHasPassword`
has one hypothesis more, `MovesAlone`: no edit changes password and compartment at once. The edits
of the run `protected_database` satisfy it, and without it the statement is false: that is
the run `protected_database_move`. `ConfirmedAccelerationGone` has the hypothesis `MaxUid = 1`, which
is the bound of the run too: with two incarnations the statement is false (section 7).
`ActiveAccelerationApplied` has it as well, and `NoneTakenBack`: a compartment, or the other fields, that
two generations share is that of the generations between them. Every single edit satisfies it, so the
run's do, and so does a user who only goes forward. Without either hypothesis the statement is false
(section 7). Which answers come without a work request is left open (`Untracked`); the one case in which
that leads to Active too soon is an exception in the property itself (`UntrackedMove`), not a hypothesis.
`NoOrphanLeft` assumes one incarnation and `ReadsAreCurrent` (a resource can be read as soon as it is
created, a work request for ever), `ActiveIsApplied` one incarnation and a service without work
requests. The values of the runs satisfy them; each excludes what section 7 shows to break the
statement (`operator_pending_create`, `operator_lost_workrequest`, `operator_edit_in_flight`, two
incarnations). Faults, restarts, lag,
edits, failing resources and resources deleted out of band stay unlimited in both.

**The reconciler.** `FinalizerRetention` speaks of the stored object, but `RemoveFinalizer` is
decided on a copy read from the cache some steps ago. `IInv` ties the copies to the store:
- `LogOrdered`: along the log, uids never decrease, and within an incarnation a requested
  deletion is never taken back, so an older version limits the newer ones;
- `FinalizerMeansTouched`: a version with the finalizer belongs to an incarnation that was
  handed to `CreateOrUpdate` (this makes the retained-until-confirmed argument closed);
- `ConfirmedIsDeleting`: a confirmed incarnation is one being deleted or gone, hence no
  reconcile can create for it any more;
- `HeldIsDeleting`, `HeldIsStored`, `HeldInStep`: what the running reconcile holds agrees
  with the log: a held object on the delete path is being deleted, and a `fresh` one is the
  stored one.

Storing a version (`StoreKeepsLogFacts`) and dropping a prefix of the log
(`SuffixKeepsLogFacts`: delivery, restart) preserve the facts about the log; with them each
action is one step of `SafeInductive`.

**Wake-ups.** The event filter drops updates that change the status only, and a reconcile may
run on an old version and end without a requeue. `WInv` adds `AgreesOrWakes`: each version in
the log agrees with the stored object in existence, uid, generation and deletion, or an event at
or behind it passes the filter. So a reconcile that used up its wake-up on an old version either
has seen what counts, or a watch event still comes.

**The managers** share one argument. `RP` is an instance of `ReconcilerProofs`, and with it of the
reconciler's definitions, lemmas and theorems, for the manager's statuses; the `Same...` lemmas
identify it with `R`, the instance the specification uses. `CallOK` says what the memory of a
running call may hold in each step (in particular that a status put together by a call is a
status, and that a step that polls tracks a work request). From `CallOK` every step of the
manager is one of `CreateOrUpdateReturns` and `DeleteReturns`, or changes nothing that the
reconciler sees; that is the refinement, and the reconciler's invariant `RP!IInv` then holds of
the composition too and is available for what else is to be proved:
- `OInv` (`Operator`) needs of it only the types: `CallOK`, and that an opened work request keeps
  a status. `NoDuplicate` needs `Tokens`: a retry token names the incarnation whose resource it
  created, and creates one resource only, unless that was removed by somebody else.
- `SInv` (`EndpointSecret`): `Decided`, that the record on which a call decides is what the
  Secret was if it is still `current`; `OwnerGuarded`, that the incarnation on a Secret's label was
  handed to `CreateOrUpdate` and its deletion is not confirmed. With `FinalizerRetention` this is
  `NoSecretLeftBehind`. The hard case is a Delete for an old incarnation that runs while a new
  Stream has a Secret.
- `PInv` (`ProtectedDatabase`): `SpecOK`, that the generation a CreateOrUpdate holds was written;
  `HashGuarded`, the same idea as `OwnerGuarded` for a Secret without UID.
- `AInv` (`WebAppAcceleration`): `SpecOK` for any number of incarnations, which needs that the
  versions of the stored incarnation in the log have generations that were written; and `Owners`,
  that `NoDuplicate` holds and no operation runs on a resource that is gone. Without the latter
  an operation could bring a resource back when another has taken its place.

**Orphans, and what Active means** (`OperatorProofs`, second half). Both theorems have to follow an
OCID from OCI through a call, the held object, the patch, the store and the cache back into a call.
`CarriedIn(S)` says that all the statuses on this way are in `S`, and `KubernetesCarries` shows once that the
reconciler preserves it for every `S` that is `ClosedUnderPatch`. `BInv` is `OInv`, `Tokens` and
the reconciler's `RP!IInv` with
- `CallInStep`: a call belongs to the reconcile step that made it, and is about the object held there;
- `Owners`: what exists in OCI belongs to an incarnation handed to `CreateOrUpdate`;
- `KnownOCIDs`: the OCIDs in statuses, calls and work requests are of resources that were created.

`ServiceInductive` sums up what any step does to the resources: it creates one, in the call's name, or
none comes into being, keeps another owner or gets a spec by other means than the call's Update. With
one incarnation `Tokens` leaves one resource that nobody else has deleted (`OneResource`).

- `NoOrphanLeft` adds `Clean`: of an incarnation whose deletion is `Reported`, confirmed or about to be by
  the call that has just ended, nothing remains but a replacement. `DoneMeansGone` is the heart: each of the five ways in which
  Delete comes to "deleted" is a read, or a Delete refused, which with one resource and
  current reads shows that nothing remains; the sixth is the 404 of a work request, which `Answered` excludes.
  What is clean stays so, because only a CreateOrUpdate of an incarnation not confirmed can create (`CreatorExists`).
- `ActiveIsApplied` adds `NothingTracked` (no status tracks a work request, so no call polls one) and `Applied`: the read
  after a write can only meet the spec that was written (`OnlySpec`), and a call that returns Active has seen the
  resource with its spec (`HasSpec`); nothing but this call could change it until the patch (`AppliedStays`).

**The password** (`PasswordProofs`). What makes `ActiveMeansPassword` hard is that the password
in force is never read: the client concludes from a recorded hash and from a work request that
succeeded, both of which may stem from another generation. `WInv` strengthens `PInv` by an order
and by what it implies:
- `GenerationsOrdered`, `HeldOrdered`: generations only grow along the log, and the reconcile in
  progress is not of a later one than those to come. Once the last generation has been taken up,
  no earlier one comes back (`BehindEnds`).
- `WantInForce`: the database changes only through an operation in progress.
- `Progress`, for edits that were not `late`, in three phases. While a reconcile of an earlier
  generation runs or may still start (`Behind`), everything is `Frozen` as the edit found it: the
  database has the earlier spec, the Secret its hash or none, and no status names a work
  request, however patches of old reconciles are merged (`MergeQuiet`). Afterwards the password
  is either `Applied`, and no step takes it back, or `Unapplied`: then no status anywhere tracks
  a work request that has succeeded and no hash is the new one, so that no reconcile can end in
  Active before the update is in force. An update that fails, or whose answer is lost, stays in this
  phase; one that succeeds ends it.

`MovesAlone` is used where `Frozen` ends: if the compartment differs too, the move's
work request succeeds without the password, and `Unapplied` is lost. TLC checked `WInv` with three
generations, three undelivered events and three troubles before it was proved.

**Confirmed deletions** (`ConfirmationProofs`). Delete takes a resource that it cannot read for one
that is gone, and a resource that was just accepted cannot be read either. What keeps Delete from
mistaking the one for the other is the tracker of the create, which passes through the call, the held object,
the patch and the cache. `CInv` strengthens `AInv` by
- `EndsInLog`: along the log a deletion is never taken back, and Delete runs only in one;
- `ResourcesOnce`, `WorkRequestsOnce`: a resource that cannot be read yet is the only one there ever
  was, and its create has one work request, in progress, or none;
- `DeleteOfTracked`: a running Delete is about the OCID of the status it was called on;
- `YoungInv`, while nothing has failed and no resource could be read (`Young`): each status in the log,
  held or in a call names nothing, or names the accepted resource and tracks its create
  (`CreateKind`, `DeleteKind`), and a running Delete is in its guard. Patches carry
  single leaves, so these kinds have to be closed under `MergeFrom` of any stored status with any pair
  that a call leaves (`MergeCreate`, `MergeDelete`). Once the first resource can be read, `Young` is
  over for good, since a second create needs the end of the first.

So a confirming step on an accepted resource is outside `YoungInv`: something has failed, which is
the exception that `ConfirmedMeansGone` names. TLC checked `CInv` before it was proved.

**Active means applied** (`ConfirmationProofs`, second half). The client ends in Active when a read agrees with
the spec. That says nothing about an update or a move that OCI has accepted and does not show yet, which may
come from an older generation. `BInv` strengthens `AInv` by
- `EndsInLog` and `ResourcesOnce` from above;
- `GensInLog`, `GensHeld`: generations only grow along the log, and `CreateOrUpdate` is never called on one
  older than it was called on before, however stale the cache;
- `FormsOK`: what a resource shows, and what it will show once its operation is done, is in compartment
  and in the other fields as a generation `h` and a generation `g` had it, with `h <= g`, neither older than
  the one it was created from nor newer than the last one tried. With no update or move under
  way the two are the same;
- `Reading`: what each step of a running call has established before it (the resource was created, the load
  balancer agrees, a move or an update with a work request is tracked).

`CreateReads` shows of each step of `CreateOrUpdate` that it goes on, or returns a status that says Active
only of a resource that shows what the spec wants (`Shows`), or is an `UntrackedMove`; `AppliedStep` that no
other step reports Active.

`ReadIsApplied` is the step that matters: if what is shown agrees with generation `k`, the last one tried, then
`h` agrees with `k`, and by `NoneTakenBack` so does every `g` between them; what is under way
changes nothing. A move that is not visible is kept from being reported as Active by its tracker, which
`Reading` carries to the read after it; without a work request there is none, and that is the exception. TLC checked the parts of `BInv` with three generations before they were proved.

**Only model-checked.** The liveness properties `DeletionCompletes`, `GenerationReachesManager`,
`DeletionEnds`: fairness and `ENABLED` are outside the prover. Every invariant and every action
property that a passing run checks is stated by a theorem.

## 7. What the checks found

Each has a run that ends in the violation and an entry under `findings` with the documented
behaviour it departs from.

1. `operator_pending_create` – deleting an object while its create work request runs and the
   resource is not listed yet: the runtime does not resume the create, finds nothing and
   lets the finalizer go; the resource appears afterwards and is orphaned.
2. `operator_lost_workrequest` – a 404 for the *work request* of a delete is taken for the
   *resource* being gone.
3. `operator_edit_in_flight` – an edit during a work request: the reconcile of the new
   generation resumes the old operation, ends in Active and is not requeued.
4. `webappacceleration_deletion` – Delete goes on over a create or update tracker without
   clearing it. If then one write to the API server, or the answer of Delete, is lost, the
   tracker outlives the resource: every later Delete reads 404, takes it for a create that is
   not visible yet and waits. The object stays.
5. `protected_database_move` – one edit of password and compartment: the work request of the
   move is resumed by the generated runtime, which ends in Active without comparing anything,
   whereupon the hash of the new password is recorded. The password was never sent and never
   will be. Nothing has to fail for this.

Not runs, but worth knowing. A sync of the endpoint Secret that meets drift fails without
asking for a requeue, where `formal/controllers/streaming/stream/logic-gaps.md` speaks of a
retry. A work request under the wrong phase is refused, where
`docs/contributor/shared-async-contract.md` lets the observed phase win; a stale status patch
can produce one, and deletion then does not end (`DeletionBlocked`). And
`ReconcileResource` passes a zero `RequeueDuration` on as
`RequeueAfter`, which controller-runtime takes for "do not requeue" (`RequeueOf`). The service
environment client returns such responses for resources in progress, which are then not polled
again. The delete path has a default.

A resource deleted out of band is replaced by the next reconcile. If the OCID of the
replacement does not reach the status (a lost patch or a restart) and the object is then
deleted, Delete lists the replacement, sends Delete for the old OCID, takes the 404 for
"deleted" and leaves the replacement behind (`delete.go:80`). `NoOrphan` excludes it by name
(`Replacement`).

The attempt to prove `NoOrphan` for any number of incarnations showed that it needs one. With two
of them, resources that may fail, no work requests and one lost answer, TLC finds: the resource of
the first incarnation is DELETED and still listed; that of the second has FAILED and its OCID was
never stored; Delete lists by name, and `deleteListItemPriority` (`read_resolver.go:668`) ranks
DELETED above FAILED. Delete takes the old resource, finds it deleted and confirms; the failed one
stays. `ActiveMeansApplied` needs one incarnation too: an orphan of the first can be listed before the resource of the
second, whose Create answered without an OCID, and the read after the create takes it for its own.

A compartment move of a WebAppAcceleration that is answered without a work request leaves no tracker
(`seedMoveWorkRequest`, `webappacceleration_runtime_client.go:989`). If the read after it still shows the
old compartment and ACTIVE, `markMovePending` (line 1539) takes that read for the result: the object is Active
and is not requeued, whether or not the move takes effect, and an update in the same edit is not
sent. An update without a work request is tracked in the same situation, and
`webappacceleration_runtime_client_test.go:1383` wants a "successful requeue for stale move readback" of a
tracked move. The run `webappacceleration` contains this behaviour; nothing has to fail for it. `ActiveMeansApplied` excludes
it by name (`UntrackedMove`), and TLC reports it at once when that disjunct is taken out.

The proof of `ActiveMeansApplied` of `WebAppAcceleration` shows what it depends on. When an edit is
taken back while its update is accepted but not visible yet, the
read agrees with the spec, CreateOrUpdate ends in Active, and the update takes effect afterwards. Two
incarnations can do the same without an edit being taken back: the work request of a move vanishes, Delete
takes its 404 for the resource (`webappacceleration_runtime_client.go:465`), the second incarnation adopts
the resource in its old form, ends in Active, and the move takes effect (TLC, with `MaxUid = 2` in the
run's configuration).

The proof of `ConfirmedMeansGone` needs one incarnation, and TLC shows why: two incarnations, two
generations, one work request and nothing that fails are enough. The deletion of the first incarnation
leaves its resource behind: a reconcile of its second generation could not read the accepted resource
yet, and erased its OCID. The second incarnation
adopts it from the list, then, from a status that is stale in the cache, creates its own; a status patch
of the Delete that follows, computed from the stale status, puts the leaves of a pending delete on the OCID
of the new resource. That resource is only accepted, the next Delete polls no create, reads 404 and confirms.

The proof of `ActiveMeansPassword` for any number of edits showed what an edit has to wait for.
It is not enough that the one before it left nothing under way: it may not have been tried yet.
When generation 2 sets a new password and generation 3 takes it back before a reconcile has
noticed, the reconcile of generation 2 (a stale cache) sends the new password; if its status or
the operator is then lost, the reconcile of generation 3 finds the hash of the old password recorded,
which is the one it wants (`setProtectedDatabasePasswordUpdate`, line 633), and ends in Active with the
other one in force. `Settled` therefore requires the last spec to be in force; with one edit, as in
the run, that makes no difference.

`NoOrphan` therefore holds only where resources can be read as soon as they are created and work
requests stay readable: these are the constants of the passing runs and the hypotheses of
`NoOrphanLeft`. Work requests are not needed for the first: when a restart, or a lost answer, follows a create,
and the object is deleted before the new resource is listed, Delete finds nothing and confirms
(TLC finds it in `operator_lifecycle` with `HidesNew = TRUE`). `ActiveMeansApplied` holds without work
requests, also while resources are hidden; with them an edit in flight breaks it.

## 8. Not modelled

- `EnsureOwnedSecret` of the managed secret helpers: only the legacy build calls it. Resolution
  of secret inputs, request building and response merging by reflection are data conversion
  without control.
- Of `ProtectedDatabase`: the change of the subscription, which is made as the compartment
  change is; hashes that an older operator left in the status message; the delete work request.
- The other per-service packages. Nearly all of the repository's lines are generated or
  repeat, service by service, the configuration of the runtime that `GeneratedRuntime` models
  once; a share of lines says little here. The hand-written overlays that remain replace single
  steps, and each is covered by `Reconciler` as an arbitrary manager.
- The legacy work request fields in `async_status.go`, `deleteWithoutSemantics`, the
  `best-effort` policy (25 of the configurations; it appears as a mutant of `NoOrphan`),
  clients without formal semantics, and per-service hooks that replace parts of the runtime.
- List matching field by field: all resources of the model match the object's criteria.
- Objects of other names and kinds: they share no state with the modelled one.
- Leader election, start-up, authentication, metrics, events, logging; the generators and
  validators, which run at build time.
- In `Operator`, foreign finalizers and edits after a deletion; `Reconciler` is checked with
  both.

## 9. Plan

Done, in this order: `Reconciler` with its runs; `AsyncStatus`, `OciService`,
`GeneratedRuntime`; `Operator` with its runs; `ReconcilerProofs`, `AsyncStatusProofs`;
`EndpointSecret`; `WebAppAcceleration`; `ProtectedDatabase`, with the managed secret helpers;
`DeletionEnds` in `Operator`; resources deleted out of band; the proof that no wake-up is lost; types, refinement and
first safety properties of the four service managers; `PasswordProofs`; `ConfirmationProofs`; orphans and
Active in `OperatorProofs`; Active in `ConfirmationProofs`.

Next, the model:
1. Two incarnations in `Operator`, with a property about whose OCID an object tracks.
2. The `best-effort` policy and `deleteWithoutSemantics` as configurations; the legacy bridge
   of the tracker.
3. Work requests in a subset of the phases.
