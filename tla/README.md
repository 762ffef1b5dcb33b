# Fence Agents Remediation in TLA+

A model of the fence-agents-remediation operator (FAR): TLA+ modules translated from the
Go source, TLC runs that check them on small instances, and theorems that TLAPS proves
for every instance. Paths below are relative to the repository (`src/`).

## 1. The system

A `FenceAgentsRemediation` CR asks for one node to be fenced. It is created and deleted
by NodeHealthCheck (NHC) or by hand. The operator taints the node, runs a fence agent
(an external command that power-cycles the machine), and only then removes the node's
workloads, by deleting pods or by setting the out-of-service taint, so that they start
elsewhere. Removing workloads from a node that still runs would run them twice: that the
node is fenced *first* is what the operator is for.

| component | state | operations | hard parts |
|---|---|---|---|
| FAR reconciler, `internal/controller/fenceagentsremediation_controller.go` | none of its own; the CR's finalizer, annotations and conditions | `Reconcile`, `handleFARDeletion`, `updateStatus` | reads caches, several API writes per call, crash between any two |
| Executor, `pkg/cli/cliexecuter.go` | map UID -> routine (a cancel function), goroutines | `AsyncExecute`, `Exists`, `Remove`; the goroutine: `runWithRetry`, `updateStatusWithRetry` | goroutines outlive `Remove`; write the same status as the reconciler; in-memory only |
| Conditions, `pkg/utils/conditions.go` | Processing, FenceAgentActionSucceeded, Succeeded, LastUpdateTime | `UpdateConditions` | order of the reasons |
| Taints, `pkg/utils/taints.go`, `nodes.go` | the node's taints | `AppendTaint`, `RemoveTaint` | read from a cache, shared by CRs of one node |
| Cluster (external) | CRs and nodes at the API server, informer caches, workqueue | conflicts, watch events, NHC's annotation, deletions | lag, lost replies, foreign edits |
| Parameters, `api/v1alpha1/fenceagentsremediation_params.go`, `pkg/template` | none; reads Secrets | `BuildFenceAgentParams`, `validateSpec`, `RenderParameterTemplate` | four sources merged in order, permanent vs. retried errors, Secrets that change |
| Template reconciler, `internal/controller/fenceagentsremediationtemplate_controller.go` | validation progress in the template's status | node-by-node `status` runs | merge patch from a stale cache |
| Webhooks, `internal/webhook/v1alpha1` | none | `Default`, `ValidateCreate`, `ValidateUpdate` of CR and template | two calls per request, a cache of Secrets, called for the operator's own updates too |
| Agent and strategy validation, `pkg/validation`; `cmd/main.go` | the server's version as seen at start-up | start-up, restart on a changed TLS profile | a probe made once |

Interaction: the reconciler calls the executor's methods directly; the executor answers
only through the CR's status, whose change brings the reconciler back by a watch event.
Both write that status under optimistic concurrency (`resourceVersion`). `Remove` cancels
a routine's context but does not wait for it.

What makes each part correct: nothing is reported or evicted before the agent succeeded;
one agent at a time per CR; the node is tainted while its agent runs; an NHC interruption is
final; conditions move in their documented order; the taints go with the CR; a started
remediation is decided; a deleted CR goes away; what was admitted can be carried out; the
agent is only asked to reboot or switch off; each parameter comes from the source that has
precedence. `PROJECT.json` lists the hazards by line.

## 2. Modules

| module | models |
|---|---|
| `Conditions` | reasons, conditions, `UpdateConditions` |
| `Cluster` | API server, informers, workqueue, other actors (all external) |
| `Executer` | extends `Cluster`: the map of routines and the goroutines |
| `Remediation` | extends `Executer`: reconciler, taints, crash and restart; `Next`, `Fairness`, `Spec` |
| `RemediationAbstract` | what a CR promises to NHC, without operator, caches or versions |
| `RemediationProperties` | invariants, action and liveness properties; the mapping to `RemediationAbstract` |
| `MCRemediation` | constants, symmetry and action constraints for TLC |
| `RemediationInvariants` | the inductive invariants about copies, versions, taints and stages |
| `RemediationProofs` | types; nothing is claimed or evicted before the node is fenced |
| `VersionProofs` | versions of a CR; one agent at a time |
| `InterruptionProofs` | an interruption by NHC is final |
| `TaintProofs` | the taints go with the CRs, and are there while an agent runs |
| `StageProofs` | the order of the conditions' reasons |
| `RefinementProofs` | `Remediation` implements `RemediationAbstract` |
| `TemplateValidation` | the template reconciler with its own API server object and informer; specification and properties |
| `TemplateProofs` | types; a verdict is true of the generation it is for |
| `MCTemplate` | specs for TLC |
| `FenceAgentParams` | collection, rendering, merge and validation of parameters, defaulting, as operators |
| `Admission` | extends `FenceAgentParams`: Secrets and their cache, webhooks, start-up, and the reconciler as far as webhooks and Secrets decide about it; specification and properties |
| `AdmissionProofs` | types; what is built and what is admitted, for all specs and Secrets |
| `MCAdmission` | specs, Secrets and the state constraint for TLC |

The two controllers share the executor's code but no state (`SyncExecute` does not touch the
map of routines), so the template reconciler is a specification of its own. `Admission` is a
third one: it meets `Remediation` in two places only, the update of the finalizer and the call of
`BuildFenceAgentParams`. In `Remediation` the first is a write that may be refused and the
second has one of three results; `Admission` shows when which of them comes about.

Definitions whose comment begins with "Mutation:" are deliberately wrong variants of the
definition that follows; they take no part in the specification and show that a property
can fail.

### State and steps

* `far`, `node` are the objects at the server; `farCache`, `nodeCache` what the operator
  reads; `farPending`, `nodePending` the versions whose watch events have not arrived. A
  cache only moves forward and may skip versions. `NodeCacheLags = FALSE` keeps the node cache equal
  to the server.
* The worker `rec` runs one request (MaxConcurrentReconciles is 1). `Reconcile(u)` takes a
  request and runs to the first API write. Then each API write is a step of its own: stored;
  refused (conflict, not found, other error); or stored with the reply lost. The code between two
  writes reads caches and the executor's map only, which no other thread writes, so it
  belongs to the step. Both the CR and the node are read at the start, as in the code; AppendTaint and
  RemoveTaint read the node again.
* `Finish("requeue")` stands for an error, `Requeue` or `RequeueAfter`; the request comes
  back. A nil dereference in `Reconcile` is recovered by controller-runtime after the
  deferred status update and retried (`ReconcileDeletionPanic`); one in a goroutine kills
  the manager (`ExecuterPanic`).
* A goroutine is a slot of `gor`. Its two loops are `wait.ExponentialBackoffWithContext`:
  `steps` counts down, the context is looked at only while steps are left, so a routine that
  is cancelled during its last attempt still goes on to the status update. A killed process is
  an exit error ("failed"); "interrupted" is the context's own error.
* A slot that a goroutine leaves may be taken by another CR's. The map of routines keeps the entry, as in
  the code, whose cancel function is then that of a finished routine: `Remove(u)` cancels the slot
  only if its goroutine is still that of `u`.
* `Crash` loses goroutines, map, worker, caches and workqueue. On restart the caches list
  everything and enqueue every CR.
* `agentOk` and `evicted` are history variables; no action reads them.

### The abstract specification

`RemediationAbstract` has three variables per CR: fenced, evicted, and an outcome (absent, open,
not found, succeeded, failed, gone). `ImplementsAbstract` maps `agentOk`, `evicted` and `OutcomeOf(far[u])`
to them. It says more than the invariants together: eviction happens only while the outcome is
still open, so never for a CR that was interrupted; success needs the eviction; a failure is
final, though a success may still turn into one, as it does when NHC interrupts the CR; a CR that was given
up because its node was not there starts over only if nothing was fenced. It is stated for a cluster whose nodes do not go away:
when a node vanishes the code leaves the agent running and records not-found whatever came before.

### The template reconciler

* `tmpl` is the template at the server with its status: the condition (status and observed
  generation), `failed` and `passed`. `cache`, `pending`, `queued` are the informer and workqueue as above
  (`CacheLags = FALSE`: no reconcile starts before the cache is up to date),
  `rec` the reconcile in progress with the cached object it started from (`orig`).
* `Reconcile` covers everything up to the status run of one node or, if no node has to be
  asked, the whole of `validateFenceStatusForTemplate`. `RunFenceStatus` and `ParamsError` are the result
  for one node. `PatchOk` and `PatchError` are the deferred `Status().Patch`.
* The patch is modelled by what it does: `MergeMap` sends only differing entries and removes the whole map
  when an empty map is wanted (`omitempty`); the list of conditions is sent whole. There is no
  `resourceVersion` in it and no conflict.
* `specs` and `tested` are history variables: the spec of each generation, and what each status run gave.
* Node names are numbers, ordered like the names. A sample is missing, a number, a percentage
  or invalid. Failure messages are reduced to two, so that a message may change or not.

### Parameters and admission

* A Go map is a function over its keys. text/template is the constant operator `Execute` of a value and the
  node's name: it may give any text or `RenderError`, and nothing is assumed of it but that `reboot`, `off` and the
  empty string, which have no template in them, stay what they are. `Rendered` is `RenderParameterTemplate` on top of
  it. `BuildFenceAgentParams` returns parameters, an error that is
  retried, or a permanent one; which of several permanent errors it is does not matter to any caller.
* `req` is the request the API server is admitting: `CallDefault` is the mutating webhook,
  `Admit` and `Reject` the validating one with the server's own check for conflicts.
  `WebhookFails` is a manager that is down, a time-out or a Secret that cannot be read
  (`failurePolicy=fail`). One request is admitted at a time: a second one would meet a conflict, which
  a deletion in between (`DeleteFar`, not admitted by a webhook) also shows.
* The webhooks and the reconciler read Secrets from `secretCache`, which `DeliverSecrets` brings
  up to date. It may do so between the two webhooks, and between the read of the CR and the
  build of the command (`ReconcileExecute`, `BuildAndExecute`).
* The operator's updates of its own finalizer (`ReconcileFinalizer`) are requests like any other and
  pass both webhooks. The worker waits for the reply; a refusal is an error and comes back.
* `StartManager` asks for the server's version once; `Upgrade` may change it later. `StartFails`
  is the probe that gets no answer: `main` logs it, goes on and dereferences a nil validator.
* `unchanged` and `missed` are history variables: the cached Secrets are those with which the CR was last
  admitted; the Secret with the deprecated name has not always been at the server.
* A spec that names no node is validated with the name `temp-validation`. Since `Execute` may depend on
  the name, that tells something of the node only for values which are plain text or insert the name
  (`TextOrName`). `Tried` says when the webhook has seen what the node will get: the spec names the node, or it names
  none and has only such values. `AdmittedBuilds` is stated for these.

### Abstractions

* A CR has a name of its own and never comes back under its UID. Spec fields are constants:
  node, strategy, retry count. The parameters
  are reduced to the three results of building them (`ParamsOk`); `Admission` has them in full.
* Timestamps have whole seconds: the wait in `updateStatus` may accept a cached version older
  than the one written, when its timestamp is equal (`PollDone`), or time out (`PollTimesOut`).
  A version without timestamp never satisfies it.
* A taint is its key and effect. DeletePods is one step that succeeds or fails.
* A read of the node cache and the write based on it are one step: a change in between has
  the effect of a cache that was stale at the read, that is a conflict.
* Events, log output, retry intervals and time-out lengths are left out.

## 3. Runs

The runs use `MCRemediation` and one node, `template` and `v_template` use `MCTemplate`, `admission`
and `v_secret` use `MCAdmission`. `CHECK_DEADLOCK FALSE`: once every CR has been deleted, or the
template is settled, the system has nothing left to do.

| run | instance | properties | states |
|---|---|---|---|
| `core` | 1 CR, ResourceDeletion, 2 attempts, 1 crash, 1 API error, 1 foreign edit, 1 NHC time-out, lagging caches | `TypeOK ReportedOnlyIfFenced EvictedOnlyIfFenced FinishedMeansEvicted AtMostOneAgent TaintedWhileFencing InterruptionIsFinal ReasonsInOrder` | 2.3M |
| `cleanup` | 1 CR, OutOfServiceTaint, node deleted once and created again, crash, API error, NHC time-out, node cache up to date | `NoTaintLeft OutOfServiceOnlyIfFenced AtMostOneAgent InterruptionIsFinal` | 1.8M |
| `overlap` | 2 CRs of one node, OutOfServiceTaint | `NoTaintLeft ReportedOnlyIfFenced` | 425k |
| `live` | 1 CR, OutOfServiceTaint, 2 attempts, 1 crash, 1 NHC time-out, lagging caches | `ImplementsAbstract StartedIsDecided DeletionCompletes` | 203k |
| `template` | 6 specs over 3 nodes (50 %, more than all, 1, none, invalid, no nodes), 1 edit, deletion, 1 restart, 1 failing or lost patch | `TypeOK VerdictSound EntriesOfRound VerdictMatchesReport EventuallySettled` | 930k |
| `admission` | 3 templates and some 90 specs written by hand, 2 Secrets with 2 contents each, server 1.25, 1.26 or 2.0, 2 changes of Secrets or specs, 1 fault (crash, failed webhook call, failed start-up) | `TypeOK AdmittedBuilds OnlyRebootOrOff StrongestSourceWins LegacyNameKept DeletedGoesWhenValid MissingSecretIsRetried` | 324k |

Bounds. Two goroutine slots are enough: `AtMostOneAgent` says a CR uses one, and a second
is needed to refute it; `overlap` has two CRs. One fault of each kind hits every write and every
state, since the model may place it anywhere; `live` has one slot, which `AtMostOneAgent` of
`core` shows to be enough for one CR; two attempts distinguish first, middle and last
iteration of the retry loop (an attempt that is retried and one that is not). `overlap`
restricts the interleavings: events of CRs are delivered at once (`PromptWatch`) and
nothing is resynced (`NoResync`); it is about two CRs meeting on a node, and stale reads of the CR
are covered by the other runs. `cleanup` and `overlap` keep the node cache up to date because
a lagging one refutes `NoTaintLeft` (see `v_taint`). `TaintedWhileFencing` is checked for one CR per
node: the deletion of one of two CRs takes the taint they share. `StartedIsDecided` assumes no foreign
edit and no failing API call, since either can make the routine lose its outcome (see `v_lost`). Goroutines are a symmetry set in the safety
runs (and the two alike CRs of `overlap`); the liveness runs use no symmetry. Stale reads with a loss of the node are not in a run:
`ReasonsInOrder` does not hold there, since the not-found path leaves the agent running.

`template` lets watch events lag while a reconcile runs, but starts one only with an up-to-date cache
(`CacheLags = FALSE`); without that TLC finds each of the three status
invariants violated (`v_template` keeps the one for `VerdictSound`), so the assumption is needed. One edit gives two generations, which
is what the properties compare; three nodes and a sample of two leave a node done, one in
progress and one outside the sample. The rounding of a percentage matters at 50 % of three.

`admission` combines every kind of shared and node parameter (none, the template of the name, one that does not
parse, one that only works for long names, an action with and without dashes, a value for another node) with every way to name a Secret. The
constraint `Focus` lets most of these specs be created, admitted and carried out without
changes or faults meanwhile, which is what the operators need, and tries every interleaving for
the templates, which differ in what the interleavings depend on (the deprecated Secret name, another
one, the out-of-service strategy). Since what it cuts off is counted by `used`, which never goes
down, each behaviour it keeps is whole: a liveness property is checked for all behaviours that
stay inside. Two changes are what it takes to break a Secret and repair it, or to delete a
Secret and take its name from the template.
`AdmittedBuilds` does not cover a CR whose spec names other nodes only, because the code neither
refuses such a CR nor can tell which parameters its node lacks: it logs the fact and goes on.

Fairness. Weak fairness of watch events (an informer catches up), of the worker (API calls
and polls return), and of each goroutine (a command ends, at the latest when its time-out
kills it). Strong fairness of `Reconcile(u)`: the workqueue is first-in first-out, so a
request is not overtaken for ever, though other CRs may make it wait. Nothing is
assumed of NHC, of deletions, of faults or of node changes, and no agent is assumed to succeed.
`TemplateValidation` has weak fairness of the worker and of watch events; nothing is assumed of users.
`Admission` has weak fairness of the webhooks (a call ends or times out), of the start of the manager
(its Deployment), of watch events and of the worker, and strong fairness of `Reconcile`, as above; nothing
is assumed of users, who may leave a Secret missing for ever.

### Runs that find a disagreement

Each checks one statement of the documentation, a comment or a test, and TLC shows a
behaviour of the code that contradicts it. `PROJECT.json` quotes the statements.

| run | what happens |
|---|---|
| `v_retry` | `retrycount: -1`: the loop is never entered, no error, success is reported and pods are deleted on a running node |
| `v_start` | CR deleted between the finalizer's update and the first status write: nil dereference on every reconcile, the CR keeps its finalizer and never gets a condition. A manager that dies between the same two writes leaves a CR with a finalizer that is never started |
| `v_secret` | a Secret the CR names is deleted after admission: the update that removes the finalizer of the deleted CR is validated again and refused, at every retry |
| `v_taint` | CR deleted while the node cache lacks the operator's own taint: the taint is left behind |
| `v_lost` | one foreign edit and a cache that lags for four attempts: the outcome is lost, the routine stays in the map, the CR stays in Processing |
| `v_template` | spec edited during a status run, next reconcile reads the edit but not the run's patch: the old result counts in the new round, and the verdict True covers a node that was never asked with the new parameters |

Met while modelling, without a run of their own:

* A routine that reports after its CR has gone dereferences a nil CR (`cliexecuter.go:237`) and kills
  the manager. It is a step of the model (`ExecuterPanic`, then a restart) and part of every run.
* `docs/failure_modes.md:39` says parameters whose template fails or whose action is neither `reboot` nor `off` are
  refused. A spec that names no node is validated for `temp-validation` only; an action that a Secret chooses
  with `{{if eq .NodeName ...}}` passes there and is a permanent error for the node, which is not retried. TLC
  finds it when the condition on the values is taken out of `Tried`; the Secret `custom` of `MCAdmission` has
  such an action.
* `docs/failure_modes.md:40` says the deprecated name cannot be removed from a template while the Secret exists in
  the namespace. The webhooks look in the manager's cache: a Secret that was created a moment ago does not
  protect the name. TLC finds it when `missed` in `LegacyNameKept` is replaced by the absence of the Secret at the
  server and three changes are allowed. What holds is the property as stated, for a Secret that has always been there.
* `README.md:287` says templates in node Secrets are processed, `docs/runbook.md:88` that node parameters may be
  templates. `collectAllSecretParams` and `validateFenceAgentParams` render shared values only: the agent gets
  those of a node as they are. `StrongestSourceWins` leaves open whether they are rendered.
* `docs/failure_modes.md:25` calls a node that is not found terminal. A CR for which nothing was fenced starts after
  all when its node appears: `ReasonsInOrder` and `RemediationAbstract` allow it, as the code does.
* The comment at `fenceagentsremediation_params.go:330-331` promises an error for a node without
  parameters; the code logs it.
* A spec whose parameters come from node Secrets alone is refused (line 308): only inline node
  parameters or a template count as telling nodes apart.
* An action given as `action`, without dashes, does not stop `--action=reboot` from being added.

## 4. Proofs

Every invariant and every action property of the passing runs, and the refinement, is also a theorem:
for arbitrary sets of CRs, nodes and goroutines, arbitrary specs, samples, contents of Secrets and
versions, and arbitrary bounds. All proofs rest on the named assumptions of the modules (`ClusterAssumption`,
`ExecuterAssumption`, `RemediationAssumption`, `AdmissionAssumption`, `TemplateAssumption`), which give the
constants their types. Further hypotheses are stated in the theorem:

| theorem | property | hypothesis |
|---|---|---|
| `RemediationProofs!TypeCorrect` | `TypeOK` | |
| `RemediationProofs!SuccessReported` | `ReportedOnlyIfFenced` | `RetryCount > 0` |
| `RemediationProofs!FencedFirst` | `EvictedOnlyIfFenced` | `RetryCount > 0` |
| `RemediationProofs!SucceededAfterEviction` | `FinishedMeansEvicted` | `RetryCount > 0` |
| `VersionProofs!OneAgent` | `AtMostOneAgent` | |
| `InterruptionProofs!InterruptionStaysFinal` | `InterruptionIsFinal` | |
| `TaintProofs!NothingLeftBehind` | `NoTaintLeft` | `NodeCacheLags = FALSE` |
| `TaintProofs!OutOfServiceAfterFencing` | `OutOfServiceOnlyIfFenced` | `NodeCacheLags = FALSE`, `RetryCount > 0` |
| `TaintProofs!TaintedThroughout` | `TaintedWhileFencing` | one CR per node |
| `StageProofs!ReasonsFollow` | `ReasonsInOrder` | `MaxNodeDeletes = 0` |
| `RefinementProofs!OperatorImplementsAbstract` | `ImplementsAbstract` | `MaxNodeDeletes = 0`, `RetryCount > 0` |
| `AdmissionProofs!AdmissionTypeCorrect` | `TypeOK` | |
| `AdmissionProofs!NoOtherAction` | `OnlyRebootOrOff` | |
| `AdmissionProofs!PrecedenceKept` | `StrongestSourceWins` | |
| `AdmissionProofs!LegacyNameSafe` | `LegacyNameKept` | |
| `AdmissionProofs!AdmittedCanBeBuilt` | `AdmittedBuilds` | |
| `TemplateProofs!TemplateTypeCorrect` | `TypeOK` | |
| `TemplateProofs!VerdictIsSound` | `VerdictSound` | `CacheLags = FALSE` |
| `TemplateProofs!EntriesAreOfRound` | `EntriesOfRound` | `CacheLags = FALSE` |
| `TemplateProofs!ReportFitsVerdict` | `VerdictMatchesReport` | `CacheLags = FALSE` |

The hypotheses are those under which the runs check the property, and the code needs them:
`v_retry` shows what happens without `RetryCount > 0`, `v_taint` without an up-to-date node cache, `v_template`
without an up-to-date template; two CRs of one node share a taint, which goes with the first of them; and
when a node vanishes the not-found path leaves the agent running and writes over what came before.

### The remediation

*Fenced first.* The properties speak of the CR at the server, but what is written there was read earlier
from somewhere else. The inductive invariant `FencedInv` therefore says of every copy (server,
cache, pending events, the worker's memory, the object a goroutine is about to send) that it is
`Truthful`: it claims nothing that has not happened. Further, the worker is at "evict" only with
a copy that says the agent succeeded, and a goroutine without an error either still has an
attempt to make or has seen its agent succeed (`GoroutineTruthful`). Versions and conflicts play no part in
it: what keeps the node safe is that no copy ever lies, not that stale copies are refused. Types need
`Owned`: a goroutine that runs and a worker that is busy have a CR.

*One agent.* Here versions do matter. `AgentInv` says for each CR: its copies are ordered by version, and a
later one does not go back on an earlier one (`Versions`, `Follows`): the finalizer stays until the CR goes,
deletion and NHC's annotation stay, and once the agent's success is recorded no version asks for fencing
again. Until the conditions are first written nothing has been done (`Before` implies `Untouched`);
what the worker is about to write is one of five statuses, if its write will be accepted
(`StatusToWrite`); and a goroutine is in the map or has been cancelled and nothing can start another one
(`RoutineHas`, `Over`). The last part is the point: after `Remove` the map no longer shows the routine that is
winding down, so that it is the CR's deletion or interruption, in the cache by then, that keeps `AsyncExecute` away.

*Interruption.* `InterruptInv` adds that once an interruption is on record the routine is stopped, what it may
still send has an old version and will be refused, and the worker is past every write of the remediation.

*Taints.* `TaintInv`: every taint on a node is held by a CR that has its finalizer and whose deletion
has not passed the removal of that taint. It needs `FinalizerInv`: a CR does not go while the worker
remediates it. `FencingInv`, for lagging caches, says that a taint that is seen in any copy of the
node is on the node, or the CR was deleted and the worker is no longer at a step that fences.

*Order of reasons and refinement.* `StageInv` ties the conditions to the reason of the last change (`Shape`)
and to what somebody may still do: while a goroutine runs, or may be started from any copy, the reason at the
server is Started or InterruptedByNHC; when any copy knows of the agent's success it is at least AgentSucceeded.
From it follows which reason may be written when (`OrderOfWrites`), hence `ReasonsInOrder`. The refinement
goes through the same lemma: a step that changes a status is one of the abstract steps or leaves the outcome alone
(`OutcomeStep`), the steps that fence and evict change no outcome (`OneAtATime`), and an eviction is made
only while the outcome is open (`FirstEviction`).

### Parameters and admission

Lemmas about the operators carry the proofs, for every operator `Execute`. `BuiltActions`: whatever is read and
whatever it renders to, the actions in a command that is built are valid: shared parameters are checked before they
are rendered, and then contain no template; Secrets are checked after it. `Precedence` and `StrongestSource`: what each of the five sources contributes, read off the
three nested copies of the maps. `PlaceholderIsTypical`: parameters that build for the placeholder
build for every node, if the spec names none and uses templates only to insert the name. `MissedInv`: a Secret that
has been at the server all the time is in the cache, through restarts and however far the cache is behind, so that
neither webhook finds it missing (`LegacyNameSafe`). `ObjectsInv` says that every object and request has a
user's spec and is for the unhealthy node. `AdmittedInv` keeps what the validating webhook found;
its clause on the strategy survives upgrades because a newer server supports what an older one did (`SupportStep`).
`AdmissionAssumption` says that versions are pairs of numbers, that the name of the node is neither empty nor
missing, that `Execute` copies `reboot`, `off` and the empty string, and that a spec names Secrets among those of `SecretData` (a Secret without possible content stands
for one that never exists).

### The template

`StatusInv`: if reads are up to date, the status the worker read is the one it replaces, because it is the
only writer, and a merge patch against what the server has stores exactly what was wanted
(`PatchIsExact`), an emptied map included. `Honest` says of a status that its entries and its verdict are
true of the generation in its condition; it is kept when specs are edited and tests are added (`HonestForever`). The
sample needs counting: `EnoughFirst` shows that the nodes with fewer than k nodes before them are k, or all. Its
proof takes the first node that is not among them; that there is one follows from the well-foundedness of the natural
numbers (`FirstExists`), which serves where induction would otherwise be needed.

### Only model-checked

Liveness under fairness is out of the prover's reach: `StartedIsDecided`, `DeletionCompletes`, `EventuallySettled`,
`DeletedGoesWhenValid`, `MissingSecretIsRetried`, and the properties of the runs that find a disagreement.

## 5. Not modelled

* `cmd/main.go` beyond start-up, version probe and exit: flags, TLS options, scheme and wiring.
* What text/template makes of a value: it is left open. Messages, events, helpers for tests and for pods, generated
  code, manifests: wording or wiring without state.
* Leader hand-over in which an old manager still runs: a manager that loses its lease exits,
  which `Crash` models; fence agents that survive their parent process are not modelled.
* A second replica (`config/manager/manager.yaml:19` has two): each serves the webhooks with its own cache of Secrets
  and its own version probe, `Admission` has one of each. The two webhook calls of a request may then see caches
  that differ more than one cache differs from itself a moment later.
* A node that vanishes together with stale reads of the CR: `ReasonsInOrder` does not hold there.

## 6. Plan

Done: `Conditions`, `Cluster`, `Executer`, `Remediation`; `TemplateValidation`; `FenceAgentParams` and
`Admission`; `RemediationAbstract`; the theorems of section 4. Left:

1. What remains true when a node is deleted: `ReasonsInOrder` and the refinement fail there, but a weaker
   abstract specification with a step for the loss of a node could be stated and proved.
2. Safety parts of the liveness arguments, as theorems: that a started CR always has a routine, a request or an
   event on its way, and that a deleted CR does.
3. An abstract specification of the template's status (a round per generation) and its refinement.
