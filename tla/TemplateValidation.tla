-------------------------- MODULE TemplateValidation --------------------------
(***************************************************************************)
(* The FenceAgentsRemediationTemplate reconciler.  It runs the fence       *)
(* agent's status action for a sample of the template's nodes, one node    *)
(* per reconcile, and keeps its progress in the template's own status.     *)
(*                                                                         *)
(* The status is read from the informer's cache and written with a JSON    *)
(* merge patch against what was read.  The patch carries no                *)
(* resourceVersion, so it never conflicts: it is merged into whatever the  *)
(* server has by then.                                                     *)
(*                                                                         *)
(* Simplifications: one template; node names are numbers, ordered like the *)
(* names; an invalid sample, which the CRD's rule refuses today, is kept   *)
(* because the reconciler handles it; BuildFenceAgentParams either works   *)
(* or gives an error message.                                              *)
(***************************************************************************)
EXTENDS Integers, FiniteSets, Sequences, FiniteSetsExt

CONSTANTS
    NodeNames,      \* names that may occur in NodeParameters and NodeSecretNames
    Specs,          \* the specs users may give the template
    CacheLags,      \* FALSE: no reconcile starts before the cache is up to date
    MaxEdits,       \* bound: edits of the spec
    MaxCrashes,     \* bound: restarts of the manager
    MaxApiErrors    \* bound: patches that fail, or whose reply is lost

\* StatusValidationSample: missing, a number, a percentage, or not parseable.
Sample == [kind : {"nil", "invalid"}, val : {0}] \cup [kind : {"int", "percent"}, val : Nat]

ASSUME TemplateAssumption ==
    /\ NodeNames \subseteq Nat /\ IsFiniteSet(NodeNames)
    /\ Specs \subseteq [nodes : SUBSET NodeNames, sample : Sample]
    /\ CacheLags \in BOOLEAN
    /\ MaxEdits \in Nat /\ MaxCrashes \in Nat /\ MaxApiErrors \in Nat

VARIABLES
    tmpl,     \* the template at the API server
    cache,    \* the template as the informer has it
    pending,  \* later versions whose watch events have not arrived
    queued,   \* a request is in the workqueue
    rec,      \* the reconcile in progress
    specs,    \* history: the spec of every generation
    tested,   \* history: <<generation, node, verdict>> of every status run
    faults    \* how much of each bound has been used

vars == <<tmpl, cache, pending, queued, rec, specs, tested, faults>>

-----------------------------------------------------------------------------
(***************************************************************************)
(* The template's status.  A map has an entry for a node, or not ("").     *)
(***************************************************************************)
Verdicts == {"True", "False", "Unknown"}
Messages == {"params error", "status failed"}

Map(values) == [NodeNames -> values \cup {""}]
EmptyMap == [n \in NodeNames |-> ""]
Keys(m) == {n \in NodeNames : m[n] # ""}

\* FenceAgentStatusValidationSucceeded; "none" is a condition that is not there.
Condition == [status : Verdicts \cup {"none"}, gen : Nat]
NoCondition == [status |-> "none", gen |-> 0]

TemplateStatus == [cond : Condition, failed : Map(Messages), passed : Map({"Success"})]
NoStatus == [cond |-> NoCondition, failed |-> EmptyMap, passed |-> EmptyMap]

Template == [present : BOOLEAN, rv : Nat, gen : Nat, spec : Specs, st : TemplateStatus]

\* runFenceStatus: the agent answers ON, or it fails, is killed by its time-out, or answers
\* something else.
Outcomes == {"Success", "status failed"}

Idle == [pc |-> "idle"]
Request == [pc : {"run", "patch"}, orig : Template, st : TemplateStatus,
            node : NodeNames \cup {-1}, requeue : BOOLEAN]

TypeOK ==
    /\ tmpl \in Template /\ cache \in Template
    /\ pending \in SUBSET Template
    /\ queued \in BOOLEAN
    /\ rec \in {Idle} \cup Request
    /\ specs \in Seq(Specs) /\ Len(specs) = tmpl.gen
    /\ tested \in SUBSET (Nat \X NodeNames \X (Messages \cup {"Success"}))
    /\ faults \in [edit : 0..MaxEdits, crash : 0..MaxCrashes, api : 0..MaxApiErrors]

Init ==
    /\ \E s \in Specs :
          /\ tmpl = [present |-> TRUE, rv |-> 1, gen |-> 1, spec |-> s, st |-> NoStatus]
          /\ specs = <<s>>
    /\ cache = tmpl /\ pending = {}
    /\ queued = TRUE
    /\ rec = Idle
    /\ tested = {}
    /\ faults = [edit |-> 0, crash |-> 0, api |-> 0]

-----------------------------------------------------------------------------
(***************************************************************************)
(* The sample.                                                             *)
(***************************************************************************)
\* intstr.GetScaledValueFromIntOrPercent, rounding up.
ScaledValue(sample, total) ==
    IF sample.kind = "percent" THEN (sample.val * total + 99) \div 100 ELSE sample.val

\* Mutation: the sample is rounded down.
CalculateSampleSizeDown(spec) ==
    LET total == Cardinality(spec.nodes)
        scaled == IF spec.sample.kind = "percent" THEN (spec.sample.val * total) \div 100
                                                  ELSE spec.sample.val
    IN  IF scaled > total THEN total ELSE scaled

CalculateSampleSize(spec) ==
    LET total == Cardinality(spec.nodes)
        scaled == IF spec.sample.kind = "nil" THEN 0 ELSE ScaledValue(spec.sample, total)
    IN  IF scaled > total THEN total ELSE scaled

\* The first CalculateSampleSize nodes in the order of their names.
SelectedNodes(spec) ==
    {n \in spec.nodes : Cardinality({m \in spec.nodes : m < n}) < CalculateSampleSize(spec)}

-----------------------------------------------------------------------------
(***************************************************************************)
(* API server and informer.                                                *)
(***************************************************************************)
\* The server stores a version; its event is on its way.
Store(new) ==
    /\ tmpl' = new
    /\ pending' = pending \cup {new}
    /\ UNCHANGED cache

\* The cache moves on to a later version, and the event enqueues a request.
Deliver ==
    \E v \in pending :
        /\ cache' = v
        /\ pending' = {w \in pending : w.rv > v.rv}
        /\ queued' = TRUE
        /\ UNCHANGED <<tmpl, rec, specs, tested, faults>>

\* A user changes the spec: a new generation.
Edit ==
    /\ tmpl.present /\ faults.edit < MaxEdits
    /\ \E s \in Specs \ {tmpl.spec} :
          /\ Store([tmpl EXCEPT !.rv = @ + 1, !.gen = @ + 1, !.spec = s])
          /\ specs' = Append(specs, s)
    /\ faults' = [faults EXCEPT !.edit = @ + 1]
    /\ UNCHANGED <<queued, rec, tested>>

\* A user deletes the template.
Delete ==
    /\ tmpl.present
    /\ Store([tmpl EXCEPT !.rv = @ + 1, !.present = FALSE])
    /\ UNCHANGED <<queued, rec, specs, tested, faults>>

\* One map of a JSON merge patch.  An empty map is left out of the JSON (omitempty), which
\* the patch turns into the removal of all of it; otherwise only entries that differ
\* between what was read and what is wanted are sent.
MergeMap(server, orig, new) ==
    IF Keys(new) = {} /\ Keys(orig) # {}
       THEN EmptyMap
       ELSE [n \in NodeNames |-> IF new[n] = orig[n] THEN server[n] ELSE new[n]]

\* The patch of a status: conditions are a list and sent whole if they changed.
MergeStatus(server, orig, new) ==
    [cond |-> IF new.cond = orig.cond THEN server.cond ELSE new.cond,
     failed |-> MergeMap(server.failed, orig.failed, new.failed),
     passed |-> MergeMap(server.passed, orig.passed, new.passed)]

-----------------------------------------------------------------------------
(***************************************************************************)
(* validateFenceStatusForTemplate, up to its end or to the first node      *)
(* whose status has to be asked for.                                       *)
(***************************************************************************)
ValidationFinished(o) == o.st.cond.status \in {"True", "False"}
NeedsNewValidation(o) == o.st.cond = NoCondition \/ o.gen # o.st.cond.gen

\* Mutation: a new round keeps the results of the previous one.
StartOfRoundKeeps(o) ==
    IF NeedsNewValidation(o)
       THEN [o.st EXCEPT !.cond = [status |-> "Unknown", gen |-> o.gen]]
       ELSE o.st

\* The status a round starts or goes on with.
StartOfRound(o) ==
    IF NeedsNewValidation(o)
       THEN [NoStatus EXCEPT !.cond = [status |-> "Unknown", gen |-> o.gen]]
       ELSE o.st

Remaining(o) ==
    LET st == StartOfRound(o) IN SelectedNodes(o.spec) \ (Keys(st.failed) \cup Keys(st.passed))

\* Mutation: the failures are cleared with the progress.
FinalStatusClearsAll(o) ==
    LET st == StartOfRound(o)
    IN  [NoStatus EXCEPT !.cond = [status |-> IF Keys(st.failed) = {} THEN "True" ELSE "False",
                                   gen |-> o.gen]]

\* All nodes done: passed entries were only kept to track progress.
FinalStatus(o) ==
    LET st == StartOfRound(o)
    IN  [st EXCEPT !.passed = EmptyMap,
                   !.cond = [status |-> IF Keys(st.failed) = {} THEN "True" ELSE "False",
                             gen |-> o.gen]]

\* The status of a reconcile that asks no node.
StatusWithoutRun(o) ==
    IF (ValidationFinished(o) /\ ~NeedsNewValidation(o)) \/ o.spec.nodes = {} THEN o.st
    ELSE IF o.spec.sample.kind = "invalid"
         THEN [o.st EXCEPT !.cond = [status |-> "False", gen |-> o.gen]]
    ELSE IF CalculateSampleSize(o.spec) = 0 THEN NoStatus
    ELSE FinalStatus(o)

\* A node has to be asked.
NeedsRun(o) ==
    /\ ~(ValidationFinished(o) /\ ~NeedsNewValidation(o))
    /\ o.spec.nodes # {} /\ o.spec.sample.kind # "invalid"
    /\ Remaining(o) # {}

Patching(o, st, requeue) ==
    [pc |-> "patch", orig |-> o, st |-> st, node |-> -1, requeue |-> requeue]

\* Reconcile: the template is read from the cache and is the base of the patch.
Reconcile ==
    /\ rec.pc = "idle" /\ queued
    /\ pending = {} \/ CacheLags
    /\ queued' = FALSE
    /\ \/ ~cache.present /\ rec' = Idle
       \/ /\ cache.present /\ ~NeedsRun(cache)
          /\ rec' = Patching(cache, StatusWithoutRun(cache), FALSE)
       \/ /\ cache.present /\ NeedsRun(cache)
          /\ rec' = [pc |-> "run", orig |-> cache, st |-> StartOfRound(cache),
                     node |-> Min(Remaining(cache)), requeue |-> TRUE]
    /\ UNCHANGED <<tmpl, cache, pending, specs, tested, faults>>

\* Mutation: all results are kept in one map.
RecordInOneMap(outcome) ==
    /\ rec.pc = "run"
    /\ rec' = Patching(rec.orig, [rec.st EXCEPT !.passed[rec.node] = outcome], TRUE)
    /\ tested' = tested \cup {<<rec.orig.gen, rec.node, outcome>>}
    /\ UNCHANGED <<tmpl, cache, pending, queued, specs, faults>>

\* The result for one node goes into one of the maps; the request comes back for the next.
Record(outcome) ==
    /\ rec.pc = "run"
    /\ rec' = Patching(rec.orig,
                       IF outcome = "Success" THEN [rec.st EXCEPT !.passed[rec.node] = outcome]
                                              ELSE [rec.st EXCEPT !.failed[rec.node] = outcome],
                       TRUE)
    /\ tested' = tested \cup {<<rec.orig.gen, rec.node, outcome>>}
    /\ UNCHANGED <<tmpl, cache, pending, queued, specs, faults>>

\* BuildFenceAgentParams fails: the agent is not run.
ParamsError == Record("params error")

RunFenceStatus == \E outcome \in Outcomes : Record(outcome)

-----------------------------------------------------------------------------
(***************************************************************************)
(* The deferred Status().Patch.  A patch that changes nothing makes no new *)
(* version; one of a template that is gone is refused.                     *)
(***************************************************************************)
StorePatch ==
    LET st == MergeStatus(tmpl.st, rec.orig.st, rec.st)
    IN  /\ tmpl.present
        /\ IF st = tmpl.st THEN UNCHANGED <<tmpl, cache, pending>>
                           ELSE Store([tmpl EXCEPT !.rv = @ + 1, !.st = st])

PatchOk ==
    /\ rec.pc = "patch" /\ StorePatch
    /\ queued' = (queued \/ rec.requeue)
    /\ rec' = Idle
    /\ UNCHANGED <<specs, tested, faults>>

\* Mutation: an error of the patch is only logged.
PatchErrorLogged ==
    /\ rec.pc = "patch"
    /\ \/ ~tmpl.present /\ UNCHANGED <<tmpl, cache, pending, faults>>
       \/ /\ faults.api < MaxApiErrors
          /\ faults' = [faults EXCEPT !.api = @ + 1]
          /\ StorePatch \/ UNCHANGED <<tmpl, cache, pending>>
    /\ rec' = Idle
    /\ UNCHANGED <<queued, specs, tested>>

\* An error, also one that hides a stored patch, brings the request back.
PatchError ==
    /\ rec.pc = "patch"
    /\ \/ ~tmpl.present /\ UNCHANGED <<tmpl, cache, pending, faults>>
       \/ /\ faults.api < MaxApiErrors
          /\ faults' = [faults EXCEPT !.api = @ + 1]
          /\ StorePatch \/ UNCHANGED <<tmpl, cache, pending>>
    /\ queued' = TRUE
    /\ rec' = Idle
    /\ UNCHANGED <<specs, tested>>

\* The manager stops at any point and starts again: the cache lists the server.
Restart ==
    /\ faults.crash < MaxCrashes
    /\ faults' = [faults EXCEPT !.crash = @ + 1]
    /\ cache' = tmpl /\ pending' = {}
    /\ queued' = tmpl.present
    /\ rec' = Idle
    /\ UNCHANGED <<tmpl, specs, tested>>

-----------------------------------------------------------------------------
WorkerStep == Reconcile \/ ParamsError \/ RunFenceStatus \/ PatchOk \/ PatchError

Next == WorkerStep \/ Deliver \/ Edit \/ Delete \/ Restart

\* The worker's calls return and the informer catches up; nothing is assumed of users.
Fairness == WF_vars(WorkerStep) /\ WF_vars(Deliver)

Spec == Init /\ [][Next]_vars /\ Fairness

(***************************************************************************)
(* Properties.                                                             *)
(***************************************************************************)

\* Enough nodes: at least the number or the percentage asked for, or all there are.
Covers(nodes, spec) ==
    LET total == Cardinality(spec.nodes)
        asked == IF spec.sample.kind = "percent" THEN spec.sample.val * total
                                                 ELSE spec.sample.val * 100
    IN  Cardinality(nodes) * 100 >= asked \/ nodes = spec.nodes

\* A verdict of success for a generation means that a sample of that generation's nodes,
\* as large as its spec asks for, answered ON to status runs with that generation's
\* parameters (validateFenceStatusForTemplate, over many reconciles, edits and restarts).
VerdictSound ==
    tmpl.st.cond.status = "True" =>
        LET g == tmpl.st.cond.gen
        IN  Covers({n \in specs[g].nodes : <<g, n, "Success">> \in tested}, specs[g])

\* The entries of a round in progress were found in that round: "nodes that have passed
\* validation in the current round" (fenceagentsremediationtemplate_types.go:59).
EntriesOfRound ==
    LET st == tmpl.st IN
    st.cond.status = "Unknown" =>
        /\ \A n \in Keys(st.passed) : <<st.cond.gen, n, "Success">> \in tested
        /\ \A n \in Keys(st.failed) : <<st.cond.gen, n, st.failed[n]>> \in tested

\* Users read the failures next to the verdict: a success lists none, and the failure of
\* a sample lists nodes of the sample.
VerdictMatchesReport ==
    LET st == tmpl.st IN
    /\ st.cond.status = "True" => Keys(st.failed) = {}
    /\ (st.cond.status = "False" /\ specs[st.cond.gen].sample.kind # "invalid") =>
          Keys(st.failed) # {} /\ Keys(st.failed) \subseteq SelectedNodes(specs[st.cond.gen])

\* What a reconcile has to reach for the template's present generation.
Settled ==
    LET st == tmpl.st IN
    IF tmpl.spec.nodes = {} THEN TRUE
    ELSE IF tmpl.spec.sample.kind = "invalid" THEN st.cond = [status |-> "False", gen |-> tmpl.gen]
    ELSE IF CalculateSampleSize(tmpl.spec) = 0 THEN st = NoStatus
    ELSE ValidationFinished(tmpl) /\ st.cond.gen = tmpl.gen /\ Keys(st.passed) = {}

\* Once users leave the template alone its status settles, and stays: the present spec gets
\* its verdict, or validation is switched off and the old results are gone.
EventuallySettled == <>[](~tmpl.present \/ Settled)

=============================================================================
