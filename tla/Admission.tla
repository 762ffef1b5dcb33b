------------------------------ MODULE Admission ------------------------------
(***************************************************************************)
(* The life of a template and of the CR that is made from it, as far as    *)
(* webhooks and Secrets decide about it.                                   *)
(*                                                                         *)
(* The webhooks are registered for every create and update of both kinds   *)
(* with failurePolicy=fail, so the updates with which the operator adds    *)
(* and removes its own finalizer pass through them as well; deletions and  *)
(* status updates do not.  All of them read Secrets from an informer's     *)
(* cache that follows the server at its own pace.                          *)
(*                                                                         *)
(* The reconciler is reduced to the steps that write the CR's metadata or  *)
(* build the command; module Remediation has the rest of it (conditions,   *)
(* taints, eviction).                                                      *)
(***************************************************************************)
EXTENDS FenceAgentParams, Sequences

CONSTANTS
    Node,             \* the node that is unhealthy
    GeneratedName,    \* name of a CR that NHC makes from one of several templates
    TemplateSpecs,    \* specs users put into a template
    HandSpecs,        \* specs of CRs made without a template
    EditSpecs,        \* specs users change either to
    SecretData,       \* for each Secret, what it may contain
    Versions,         \* versions <<major, minor>> of the API server
    MaxChanges,       \* bound: changes of Secrets and of specs
    MaxFaults         \* bound: crashes, and webhook calls and start-ups that fail

\* A name of a node is not empty; a Secret that never exists has no data to choose from;
\* text/template copies a text that holds no template.
ASSUME AdmissionAssumption ==
    /\ MaxChanges \in Nat /\ MaxFaults \in Nat
    /\ Versions \subseteq Nat \X Nat
    /\ GeneratedName # Node /\ Node \notin {"", Nil}
    /\ \A val \in {"", "reboot", "off"} : Execute(val, Node) = val
    /\ \A s \in TemplateSpecs \cup HandSpecs \cup EditSpecs :
          /\ s = FARSpec(s.agent, s.strategy, s.shared, s.node, s.secret, s.nodeSecrets)
          /\ s.secret \in {Nil, ""} \cup DOMAIN SecretData

VARIABLES
    secrets, secretCache,  \* the Secrets at the server, and in the cache
    version,               \* the API server's version
    mgr,                   \* the manager: running, and its idea of the out-of-service taint
    tmpl, far,             \* the template and the CR at the server
    req,                   \* the request that is being admitted
    queued, rec,           \* the reconciler's workqueue and worker
    built,                 \* what the executor runs for the CR
    unchanged,             \* history: the cached Secrets are those the CR was admitted with
    missed,                \* history: the deprecated Secret has not always been at the server
    used                   \* how much of each bound has been used

vars == <<secrets, secretCache, version, mgr, tmpl, far, req, queued, rec, built,
          unchanged, missed, used>>

-----------------------------------------------------------------------------
NoSpec == FARSpec("", "", <<>>, <<>>, Nil, <<>>)

\* multi: the annotation that tells NHC it may use several templates of this kind.
NoTemplate == [phase |-> "absent", spec |-> NoSpec, multi |-> "unset"]

\* ann: the node-name annotation; fin: our finalizer; del: DeletionTimestamp.
NoCR == [phase |-> "absent", spec |-> NoSpec, name |-> "", ann |-> Nil, fin |-> FALSE,
         del |-> FALSE]

Present(o) == o.phase = "present"

NoRequest == [stage |-> "none", kind |-> "far", old |-> NoCR, new |-> NoCR]

Idle == [pc |-> "idle", far |-> NoCR]

Specs == TemplateSpecs \cup HandSpecs \cup EditSpecs
WithSecret(s, name) == [s EXCEPT !.secret = name]

\* A user's spec, and what the mutating webhook may make of it.
UserSpec ==
    UNION {{WithSecret(s, name) : name \in {Nil, ""} \cup DOMAIN SecretData} : s \in Specs}
AnySpec == {NoSpec} \cup UserSpec

Template == [phase : {"absent", "present"}, spec : AnySpec, multi : {"unset", "true", "false"}]
CR == [phase : {"absent", "present", "gone"}, spec : AnySpec,
       name : {"", Node, GeneratedName}, ann : {Nil, Node}, fin : BOOLEAN, del : BOOLEAN]
SecretMap == UNION {{m \in [S -> UNION {SecretData[s] : s \in S}] :
                        \A s \in S : m[s] \in SecretData[s]} : S \in SUBSET DOMAIN SecretData}

TypeOK ==
    /\ secrets \in SecretMap /\ secretCache \in SecretMap
    /\ version \in Versions
    /\ mgr \in [up : BOOLEAN, oos : BOOLEAN]
    /\ tmpl \in Template /\ far \in CR
    /\ req \in [stage : {"none", "default", "validate"}, kind : {"template", "far"},
                old : CR \cup Template, new : CR \cup Template]
    /\ req.kind = "far" => req.old \in CR /\ req.new \in CR
    /\ req.kind = "template" => req.old \in Template /\ req.new \in Template
    /\ queued \in BOOLEAN /\ unchanged \in BOOLEAN /\ missed \in BOOLEAN
    /\ rec \in [pc : {"idle", "waiting", "build"}, far : CR]
    /\ built.result \in {"none", "retry", "permanent", "ok"}
    /\ used \in [change : Nat, fault : Nat]

Init ==
    /\ secrets \in SecretMap /\ secretCache = secrets
    /\ version \in Versions
    /\ mgr = [up |-> FALSE, oos |-> FALSE]
    /\ tmpl = NoTemplate /\ far = NoCR
    /\ req = NoRequest
    /\ queued = FALSE /\ rec = Idle
    /\ built = NotBuilt /\ unchanged = TRUE
    /\ missed = (OldDefaultSecretName \notin DOMAIN secrets)
    /\ used = [change |-> 0, fault |-> 0]

Use(bound, max) == used[bound] < max /\ used' = [used EXCEPT ![bound] = @ + 1]

objects == <<tmpl, far>>
worker == <<queued, rec, built>>
secretVars == <<secrets, secretCache, missed>>

-----------------------------------------------------------------------------
(***************************************************************************)
(* Secrets.  A cache that skips versions is not told apart: nothing but    *)
(* the cache is ever read.                                                 *)
(***************************************************************************)
StoreSecret(s) ==
    /\ \E d \in SecretData[s] :
         /\ secrets' = Copy(secrets, [t \in {s} |-> d])
         /\ secrets' # secrets
    /\ Use("change", MaxChanges)
    /\ UNCHANGED <<secretCache, missed, version, mgr, objects, req, worker, unchanged>>

DeleteSecret(s) ==
    /\ s \in DOMAIN secrets
    /\ secrets' = [t \in DOMAIN secrets \ {s} |-> secrets[t]]
    /\ missed' = (missed \/ s = OldDefaultSecretName)
    /\ Use("change", MaxChanges)
    /\ UNCHANGED <<secretCache, version, mgr, objects, req, worker, unchanged>>

\* The watch events of the Secrets arrive.
DeliverSecrets ==
    /\ mgr.up /\ secretCache # secrets
    /\ secretCache' = secrets /\ unchanged' = FALSE
    /\ UNCHANGED <<secrets, missed, version, mgr, objects, req, worker, used>>

-----------------------------------------------------------------------------
(***************************************************************************)
(* Requests of users and of NHC.  One request is admitted at a time: what  *)
(* another one stores in between makes it fail with a conflict.            *)
(***************************************************************************)
Submit(kind, old, new) ==
    /\ req.stage = "none"
    /\ req' = [stage |-> "default", kind |-> kind, old |-> old, new |-> new]

idleVars == <<secretVars, version, mgr, objects, worker, unchanged>>

CreateTemplate(s) ==
    /\ tmpl.phase = "absent"
    /\ \E multi \in {"unset", "false"} :
         Submit("template", tmpl, [phase |-> "present", spec |-> s, multi |-> multi])
    /\ UNCHANGED <<idleVars, used>>

UpdateTemplate(s) ==
    /\ Present(tmpl)
    /\ Use("change", MaxChanges)
    /\ Submit("template", tmpl, [tmpl EXCEPT !.spec = s])
    /\ UNCHANGED idleVars

\* NHC copies the template and, if it may use several, generates the CR's name.
CreateFarFromTemplate ==
    /\ Present(tmpl) /\ far.phase = "absent"
    /\ Submit("far", far, [NoCR EXCEPT !.phase = "present", !.spec = tmpl.spec,
                 !.name = IF tmpl.multi = "true" THEN GeneratedName ELSE Node,
                 !.ann = IF tmpl.multi = "true" THEN Node ELSE Nil])
    /\ UNCHANGED <<idleVars, used>>

CreateFarByHand(s) ==
    /\ ~Present(tmpl) /\ far.phase = "absent"
    /\ Submit("far", far, [NoCR EXCEPT !.phase = "present", !.spec = s, !.name = Node])
    /\ UNCHANGED <<idleVars, used>>

UpdateFar(s) ==
    /\ Present(far)
    /\ Use("change", MaxChanges)
    /\ Submit("far", far, [far EXCEPT !.spec = s])
    /\ UNCHANGED idleVars

\* A deletion is not admitted by a webhook.
DeleteFar ==
    /\ Present(far) /\ ~far.del
    /\ far' = IF far.fin THEN [far EXCEPT !.del = TRUE] ELSE [far EXCEPT !.phase = "gone"]
    /\ queued' = mgr.up
    /\ UNCHANGED <<secretVars, version, mgr, tmpl, req, rec, built, unchanged, used>>

-----------------------------------------------------------------------------
(***************************************************************************)
(* The webhooks.                                                           *)
(***************************************************************************)
IsCreate(r) == ~Present(r.old)

\* Mutation: the annotation is set without a value.
DefaultWithoutValue(r, cache) ==
    LET spec == applySharedSecretDefaultNameToSpec(cache, r.new.spec, IsCreate(r))
    IN  IF r.kind = "far" THEN [r.new EXCEPT !.spec = spec]
        ELSE [r.new EXCEPT !.spec = spec, !.multi = IF @ = "unset" THEN "" ELSE @]

\* farDefaulter and farTemplateDefaulter
Default(r, cache) ==
    LET spec == applySharedSecretDefaultNameToSpec(cache, r.new.spec, IsCreate(r))
    IN  IF r.kind = "far" THEN [r.new EXCEPT !.spec = spec]
        ELSE [r.new EXCEPT !.spec = spec, !.multi = IF @ = "unset" THEN "true" ELSE @]

\* FARValidator and FARTemplateValidator
Valid(r, cache, oos) ==
    /\ validateSpec(cache, oos, r.new.spec)
    /\ (r.kind = "template" /\ ~IsCreate(r)) =>
         validateTemplateForSharedSecretDefaultName(cache, r.old.spec, r.new.spec)

\* The reply reaches a worker that waits for it.  Whatever was refused is retried
\* if it was the operator's own update.
Waiting == rec.pc = "waiting"

\* Mutation: the error of the update that removes the finalizer is only logged.
RefusedForgotten ==
    /\ req' = NoRequest
    /\ rec' = IF Waiting THEN Idle ELSE rec
    /\ UNCHANGED queued

Refused ==
    /\ req' = NoRequest
    /\ rec' = IF Waiting THEN Idle ELSE rec
    /\ queued' = (queued \/ Waiting)

\* The mutating webhook.
CallDefault ==
    /\ req.stage = "default" /\ mgr.up
    /\ req' = [req EXCEPT !.stage = "validate", !.new = Default(req, secretCache)]
    /\ UNCHANGED <<secretVars, version, mgr, objects, worker, unchanged, used>>

\* The last finalizer of a deleted CR: the server drops it.
StoredFar(new) == IF new.del /\ ~new.fin THEN [new EXCEPT !.phase = "gone"] ELSE new

\* The object has not changed since the request was made.
NoConflict == req.old = (IF req.kind = "far" THEN far ELSE tmpl)

\* The validating webhook lets it pass and the object is stored.
Admit ==
    /\ req.stage = "validate" /\ mgr.up
    /\ Valid(req, secretCache, mgr.oos) /\ NoConflict
    /\ IF req.kind = "far"
       THEN /\ far' = StoredFar(req.new) /\ UNCHANGED tmpl
            /\ queued' = TRUE
            /\ unchanged' = TRUE
       ELSE tmpl' = req.new /\ UNCHANGED <<far, queued, unchanged>>
    /\ req' = NoRequest
    /\ rec' = IF Waiting THEN Idle ELSE rec
    /\ UNCHANGED <<secretVars, version, mgr, built, used>>

\* The validating webhook refuses, or the server finds a conflict.
Reject ==
    /\ req.stage = "validate" /\ mgr.up
    /\ ~Valid(req, secretCache, mgr.oos) \/ ~NoConflict
    /\ Refused
    /\ UNCHANGED <<secretVars, version, mgr, objects, built, unchanged, used>>

\* Nobody answers the webhook call, or it fails to read a Secret.
WebhookFails ==
    /\ req.stage \in {"default", "validate"}
    /\ \/ ~mgr.up /\ UNCHANGED used
       \/ mgr.up /\ Use("fault", MaxFaults)
    /\ Refused
    /\ UNCHANGED <<secretVars, version, mgr, objects, built, unchanged>>

-----------------------------------------------------------------------------
(***************************************************************************)
(* The reconciler.  A CR that was read too early meets a conflict when it  *)
(* is written, and may be what the command is built from.                  *)
(***************************************************************************)
GetNodeName(o) == IF o.ann = Nil THEN o.name ELSE o.ann

Reconciles == mgr.up /\ rec.pc = "idle" /\ queued

\* The CR is gone, or its agent runs already.
ReconcileNothing ==
    /\ Reconciles
    /\ ~Present(far) \/ (far.fin /\ ~far.del /\ built.result = "ok")
    /\ queued' = FALSE
    /\ UNCHANGED <<secretVars, version, mgr, objects, req, rec, built, unchanged, used>>

\* The finalizer is added to a new CR and removed, after Executor.Remove, from a
\* deleted one.
ReconcileFinalizer ==
    /\ Reconciles
    /\ Present(far) /\ (far.del \/ ~far.fin)
    /\ Submit("far", far, [far EXCEPT !.fin = ~far.del])
    /\ built' = IF far.del THEN NotBuilt ELSE built
    /\ queued' = FALSE
    /\ rec' = [Idle EXCEPT !.pc = "waiting"]
    /\ UNCHANGED <<secretVars, version, mgr, objects, unchanged, used>>

ReconcileExecute ==
    /\ Reconciles
    /\ Present(far) /\ far.fin /\ ~far.del /\ built.result # "ok"
    /\ queued' = FALSE
    /\ rec' = [pc |-> "build", far |-> far]
    /\ UNCHANGED <<secretVars, version, mgr, objects, req, built, unchanged, used>>

\* Mutation: isRetryRequired is not looked at.
BuildAndExecuteOnce ==
    /\ rec.pc = "build"
    /\ built' = BuildFenceAgentParams(secretCache, rec.far.spec, GetNodeName(rec.far))
    /\ rec' = Idle
    /\ UNCHANGED <<secretVars, version, mgr, objects, req, queued, unchanged, used>>

\* A permanent error is dropped, another one brings the CR back.
BuildAndExecute ==
    /\ rec.pc = "build"
    /\ built' = BuildFenceAgentParams(secretCache, rec.far.spec, GetNodeName(rec.far))
    /\ queued' = (queued \/ built'.result = "retry")
    /\ rec' = Idle
    /\ UNCHANGED <<secretVars, version, mgr, objects, req, unchanged, used>>

-----------------------------------------------------------------------------
(***************************************************************************)
(* The manager and the cluster.                                            *)
(***************************************************************************)
\* main creates the manager, asks the server for its version, once, and registers the
\* controllers and the webhooks.
StartManager ==
    /\ ~mgr.up
    /\ mgr' = [up |-> TRUE, oos |-> OutOfServiceTaintSupported(version[1], version[2])]
    /\ secretCache' = secrets
    /\ unchanged' = (unchanged /\ secrets = secretCache)
    /\ queued' = Present(far)
    /\ UNCHANGED <<secrets, missed, version, objects, req, rec, built, used>>

\* The server does not answer: main logs it and then dereferences the nil validator.
StartFails ==
    /\ ~mgr.up
    /\ Use("fault", MaxFaults)
    /\ UNCHANGED <<secretVars, version, mgr, objects, req, worker, unchanged>>

\* The manager is killed, or main stops it because the TLS profile changed.
Crash ==
    /\ mgr.up
    /\ Use("fault", MaxFaults)
    /\ mgr' = [up |-> FALSE, oos |-> FALSE]
    /\ rec' = Idle /\ queued' = FALSE /\ built' = NotBuilt
    /\ UNCHANGED <<secretVars, version, objects, req, unchanged>>

\* The API server is upgraded.
Upgrade ==
    /\ \E v \in Versions :
         /\ v[1] > version[1] \/ (v[1] = version[1] /\ v[2] > version[2])
         /\ version' = v
    /\ UNCHANGED <<secretVars, mgr, objects, req, worker, unchanged, used>>

-----------------------------------------------------------------------------
Webhooks == CallDefault \/ Admit \/ Reject \/ WebhookFails

Reconcile == ReconcileNothing \/ ReconcileFinalizer \/ ReconcileExecute

Next ==
    \/ \E s \in DOMAIN SecretData : StoreSecret(s) \/ DeleteSecret(s)
    \/ DeliverSecrets
    \/ \E s \in TemplateSpecs : CreateTemplate(s)
    \/ \E s \in EditSpecs : UpdateTemplate(s) \/ UpdateFar(s)
    \/ CreateFarFromTemplate
    \/ \E s \in HandSpecs : CreateFarByHand(s)
    \/ DeleteFar
    \/ Webhooks
    \/ Reconcile \/ BuildAndExecute
    \/ StartManager \/ StartFails \/ Crash \/ Upgrade

(***************************************************************************)
(* Fairness: a webhook call ends, the manager is started again, watch      *)
(* events arrive, the worker goes on and its workqueue is first-in         *)
(* first-out.  Nothing is assumed of users.                                *)
(***************************************************************************)
Fairness ==
    /\ WF_vars(Webhooks) /\ WF_vars(StartManager) /\ WF_vars(DeliverSecrets)
    /\ WF_vars(BuildAndExecute)
    /\ SF_vars(Reconcile)

Spec == Init /\ [][Next]_vars /\ Fairness

-----------------------------------------------------------------------------
(***************************************************************************)
(* Safety.                                                                 *)
(***************************************************************************)
Actions == {"", "reboot", "off"}

\* The values the documentation has: a text without template, or one into which the name
\* of the node is put.  Other templates may fail, or be an action, for one name only.
TextOrName(val) ==
    \/ \A n \in {PlaceholderNode, Node} : Execute(val, n) = val
    \/ \A n \in {PlaceholderNode, Node} : Execute(val, n) \notin Actions \cup {val, RenderError}

\* What the webhook tried tells something of the node: it is named, and any template was
\* executed for it; or no node is, and the placeholder's name is as good as another.
Tried(spec, ss) ==
    \/ Node \in GetNodeNamesFromSpec(spec)
    \/ /\ GetNodeNamesFromSpec(spec) = {}
       /\ \A params \in {spec.shared, SharedSecretParams(ss, spec)} :
             \A p \in DOMAIN params : TextOrName(params[p])

\* A CR in the cluster can be carried out, for as long as the Secrets are what they
\* were when it was admitted: its agent is installed, the cluster supports its strategy,
\* and the command can be built for its node, across restarts, upgrades and the
\* rewriting of its spec by the mutating webhook (validateFenceAgentForNodes).  It is
\* said of the nodes a spec names, with any templates, and of all nodes for a spec that
\* names none and uses templates as documented; another one may give the placeholder a
\* valid action and the node none.
AdmittedBuilds ==
    (Present(far) /\ unchanged /\ Tried(far.spec, secretCache)) =>
        /\ far.spec.agent \in Installed
        /\ far.spec.strategy = OutOfServiceTaintStrategy =>
             (version[1] = 1 /\ version[2] > 25) \/ version[1] >= 2
        /\ BuildFenceAgentParams(secretCache, far.spec, Node).result = "ok"

\* Whatever the Secrets became after the CR was admitted, the agent is asked for
\* nothing but reboot or off (validateFenceAction; README "Fence agent parameters").
OnlyRebootOrOff ==
    \A arg \in mapToSliceConvert(built.params) :
        arg[1] \in ActionNames => Len(arg) = 1 \/ arg[2] \in {"reboot", "off"}

\* Who may define a parameter, strongest first.
Sources(secretsRead, spec) ==
    << NodeValues(spec, Node), RenderAll(spec.shared, Node),
       NodeSecretParams(secretsRead, spec, Node),
       RenderAll(SharedSecretParams(secretsRead, spec), Node), DefaultAction >>

\* Each argument of the command that is being started comes from the strongest source
\* for the unhealthy node, every parameter that applies to the node is there, and none
\* comes both from the spec and from a Secret (BuildFenceAgentParams; README "Secret
\* Support": the node Secret takes precedence, a duplicate is a validation error).
\* Whether the values of a node are rendered is left open: the code copies them, README.md:287
\* and docs/runbook.md:88 say they are.
StrongestSourceWins ==
    [][(rec.pc = "build" /\ rec' # rec /\ built'.result = "ok") =>
         LET src == Sources(secretCache, rec.far.spec)
             defining(p) == {i \in 1..5 : p \in DOMAIN src[i]}
         IN  /\ DOMAIN built'.params = UNION {DOMAIN src[i] : i \in 1..5}
             /\ \A p \in DOMAIN built'.params :
                  LET i == CHOOSE j \in defining(p) : \A k \in defining(p) : j <= k
                  IN  /\ \/ built'.params[p] = src[i][p]
                         \/ i \in {1, 3} /\ built'.params[p] = Rendered(src[i][p], Node)
                      /\ ~(defining(p) \cap {1, 2} # {} /\ defining(p) \cap {3, 4} # {})]_vars

LosesLegacyName ==
    /\ Present(tmpl) /\ tmpl.spec.secret = OldDefaultSecretName
    /\ tmpl'.spec.secret \in {Nil, ""}

\* While the Secret with the deprecated name has been in the namespace all the time, no
\* template loses that name: neither does the mutating webhook take it away, whatever
\* its cache is behind with, nor can a user (applySharedSecretDefaultNameToSpec,
\* validateTemplateForSharedSecretDefaultName).  A Secret that is missing for a while does
\* not have this protection, since the cache may not show it when it is back.
LegacyNameKept == [][LosesLegacyName => missed]_vars

(***************************************************************************)
(* Liveness.                                                               *)
(***************************************************************************)
Removable ==
    LET r == [stage |-> "default", kind |-> "far", old |-> far, new |-> far]
    IN  Valid([r EXCEPT !.new = Default(r, secretCache)], secretCache, mgr.oos)

\* A deleted CR goes as soon as its spec stays valid: neither a refused update, nor a
\* webhook that did not answer, nor a crash is the last attempt (handleFARDeletion).
DeletedGoesWhenValid ==
    (far.del /\ Removable) ~> (far.phase = "gone" \/ ~Removable)

CanBuild == BuildFenceAgentParams(secretCache, far.spec, GetNodeName(far)).result = "ok"

\* A remediation that failed for want of a Secret goes on when the Secret is back
\* (isRetryRequired, Reconcile lines 199-209).
MissingSecretIsRetried ==
    (built.result = "retry" /\ CanBuild)
        ~> (built.result # "retry" \/ ~CanBuild \/ far.del \/ ~Present(far))

\* Every deleted CR loses its finalizer: deletion cleanup ends with "Finally FAR removes
\* the finalizer" (ARCHITECTURE.md:48).
DeletedGoes == far.del ~> far.phase = "gone"

=============================================================================
