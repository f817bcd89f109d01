----------------------------- MODULE OciService -----------------------------
(***************************************************************************)
(* An OCI service, as generatedruntime uses it (external to the            *)
(* repository): the resources it keeps, the work requests it runs, which   *)
(* calls it accepts and what reading it finds.  All resources here match   *)
(* the list criteria of the one custom resource that is modelled.          *)
(***************************************************************************)
EXTENDS AsyncStatus, FiniteSets

CONSTANTS WorkRequests,       \* phases whose call answers with a work request
          IdInResponse,       \* does Create answer with the resource's OCID?
          HidesNew,           \* may a new resource be unreadable for a while?
          MayFail,            \* may a resource end up FAILED?
          WorkRequestsVanish  \* may reading a work request give 404?

ASSUME ServiceAssumption ==
    /\ OCIDs \subseteq Nat /\ WorkRequestIDs \subseteq Nat
    /\ WorkRequests \in {{}, Phases}
    /\ {IdInResponse, HidesNew, MayFail, WorkRequestsVanish} \subseteq BOOLEAN

VARIABLES res, \* OCID -> [own: incarnation it was created for, tok: retry token,
               \*          gen: applied spec, state]
          wrs  \* work request -> [phase, res, status]

ociVars == <<res, wrs>>

LifecycleStates == {"ACCEPTED", "CREATING", "ACTIVE", "UPDATING", "FAILED",
                    "DELETING", "DELETED"}

OciTypeOK ==
    /\ res \in [OCIDs -> [own : Nat, tok : Nat, gen : Nat,
                          state : LifecycleStates \cup {"NONE", "REMOVED"}]]
    /\ wrs \in [WorkRequestIDs ->
                  [phase : Phases \cup {""}, res : OCIDs \cup {0},
                   status : {"", "IN_PROGRESS", "SUCCEEDED", "FAILED", "UNKNOWN"}]]

OciInit ==
    /\ res = [i \in OCIDs |->
                [own |-> 0, tok |-> 0, gen |-> 0, state |-> "NONE"]]
    /\ wrs = [w \in WorkRequestIDs |-> [phase |-> "", res |-> 0, status |-> ""]]

\* Get answers; a NONE resource does not exist (any more), a REMOVED one was
\* deleted by somebody else and an ACCEPTED one cannot be read yet.
Readable(i) == i # 0 /\ res[i].state \notin {"NONE", "REMOVED", "ACCEPTED"}

\* The resource costs money.
Remaining(i) == res[i].state \notin {"NONE", "REMOVED", "DELETED"}

\* Identifiers are handed out in order; used ones are never handed out again.
NextFree(S, Used(_)) ==
    {x \in S : ~Used(x) /\ \A y \in S : y < x => Used(y)}

OpenWorkRequest(phase, i, w) ==
    IF phase \in WorkRequests
      THEN /\ w \in NextFree(WorkRequestIDs, LAMBDA x : wrs[x].phase # "")
           /\ wrs' = [wrs EXCEPT ![w] = [phase |-> phase, res |-> i,
                                         status |-> "IN_PROGRESS"]]
      ELSE w = 0 /\ UNCHANGED wrs

\* The service has a limit on work requests; beyond it calls are refused.
CanOpen(phase) ==
    phase \in WorkRequests => \E w \in WorkRequestIDs : wrs[w].phase = ""

\* A retry token that was used before answers for the resource it created if
\* the request is the same, and is refused otherwise.  Token 0 is none.
TokenUsed(tok) == tok # 0 /\ \E i \in OCIDs : res[i].tok = tok

CreateAccepted(own, tok, gen, i, w) ==
    \/ /\ TokenUsed(tok)
       /\ res[i].tok = tok /\ res[i].gen = gen /\ Remaining(i)
       /\ IF "create" \in WorkRequests
            THEN w # 0 /\ wrs[w].res = i /\ wrs[w].phase = "create" ELSE w = 0
       /\ UNCHANGED ociVars
    \/ /\ ~TokenUsed(tok)
       /\ i \in NextFree(OCIDs, LAMBDA x : res[x].own # 0)
       /\ res' = [res EXCEPT ![i] = [own |-> own, tok |-> tok, gen |-> gen, state |->
                                     IF HidesNew THEN "ACCEPTED" ELSE "CREATING"]]
       /\ OpenWorkRequest("create", i, w)

CreateRefused(tok, gen) ==
    IF TokenUsed(tok)
      THEN \A i \in OCIDs : res[i].tok = tok => res[i].gen # gen \/ ~Remaining(i)
      ELSE ~CanOpen("create") \/ \A i \in OCIDs : res[i].own # 0

UpdateAccepted(i, gen, w) ==
    /\ res[i].state = "ACTIVE"
    /\ res' = [res EXCEPT ![i].gen = gen, ![i].state = "UPDATING"]
    /\ OpenWorkRequest("update", i, w)

UpdateRefused(i) == res[i].state # "ACTIVE" \/ ~CanOpen("update")

DeleteAccepted(i, w) ==
    /\ res[i].state \in {"ACTIVE", "FAILED"}
    /\ res' = [res EXCEPT ![i].state = "DELETING"]
    /\ OpenWorkRequest("delete", i, w)

\* The service works on a resource.
ResourceProgresses ==
    /\ \E i \in OCIDs, to \in {"CREATING", "ACTIVE", "FAILED", "DELETED", "NONE"} :
          /\ \/ res[i].state = "ACCEPTED" /\ to = "CREATING"
             \/ res[i].state \in {"CREATING", "UPDATING"} /\ to = "ACTIVE"
             \/ res[i].state = "DELETING" /\ to \in {"DELETED", "NONE"}
             \/ res[i].state = "DELETED" /\ to = "NONE"
             \/ /\ MayFail /\ to = "FAILED"
                /\ res[i].state \in {"CREATING", "UPDATING", "DELETING"}
          /\ res' = [res EXCEPT ![i].state = to]
    /\ UNCHANGED wrs

\* Somebody deletes a resource in OCI, not through its object.  Its retry
\* token may be remembered or have expired.
DeletedOutOfBand ==
    /\ \E i \in OCIDs : \E tok \in {res[i].tok, 0} :
          /\ res[i].state \in {"ACTIVE", "FAILED"}
          /\ res' = [res EXCEPT ![i] = [@ EXCEPT !.state = "REMOVED", !.tok = tok]]
    /\ UNCHANGED wrs

\* A work request ends, maybe before a read shows what it did.
WorkRequestEnds ==
    /\ \E w \in WorkRequestIDs :
          /\ wrs[w].status = "IN_PROGRESS"
          /\ wrs' = [wrs EXCEPT ![w].status =
                       IF res[wrs[w].res].state = "FAILED" THEN "FAILED"
                       ELSE "SUCCEEDED"]
    /\ UNCHANGED res

\* A work request cannot be read any more: 404.
WorkRequestVanishes ==
    /\ WorkRequestsVanish
    /\ \E w \in WorkRequestIDs :
          /\ wrs[w].status \in {"IN_PROGRESS", "SUCCEEDED", "FAILED"}
          /\ wrs' = [wrs EXCEPT ![w].status = "UNKNOWN"]
    /\ UNCHANGED res

Oci == ResourceProgresses \/ WorkRequestEnds \/ WorkRequestVanishes
=============================================================================
