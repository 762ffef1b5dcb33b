--------------------------- MODULE FenceAgentParams ---------------------------
(***************************************************************************)
(* The parameters of a fence agent: how they are collected from a spec and *)
(* from Secrets, and what a spec has to satisfy to be admitted             *)
(* (api/v1alpha1/fenceagentsremediation_params.go, pkg/template,           *)
(* pkg/validation and the defaulting of the webhooks).                     *)
(*                                                                         *)
(* A Go map is a function whose domain are its keys; <<>> is the empty     *)
(* one.  A value is a template of text/template.  What that library makes  *)
(* of a value depends on the value and on the node's name, and so does     *)
(* whether it fails: Execute is a constant and may be any such operator.   *)
(* The errors of one function are not told apart unless a caller does.     *)
(***************************************************************************)
EXTENDS Integers

CONSTANTS
    Installed,        \* files in /usr/sbin: the fence agents of the image
    Execute(_, _),    \* Parse and Execute of text/template: value, node's name -> text
    RenderError       \* or this, if either fails

Nil == "<nil>"                                        \* a nil *string
OldDefaultSecretName == "fence-agents-credentials-shared"

ParameterActionName == "--action"
ActionNames == {"action", ParameterActionName}

ResourceDeletionStrategy == "ResourceDeletion"
OutOfServiceTaintStrategy == "OutOfServiceTaint"

\* The fields of a FenceAgentsRemediationSpec that this module is about.
FARSpec(agent, strategy, shared, node, secret, nodeSecrets) ==
    [agent |-> agent, strategy |-> strategy, shared |-> shared, node |-> node,
     secret |-> secret, nodeSecrets |-> nodeSecrets]

\* What BuildFenceAgentParams returns: no error, an error worth a retry, another one.
NotBuilt == [result |-> "none", params |-> <<>>]
Retry == [result |-> "retry", params |-> <<>>]
Permanent == [result |-> "permanent", params |-> <<>>]
Built(params) == [result |-> "ok", params |-> params]

-----------------------------------------------------------------------------
(***************************************************************************)
(* RenderParameterTemplate: whether it succeeds, and its result.           *)
(***************************************************************************)
Renders(val, nodeName) == nodeName # "" /\ Execute(val, nodeName) # RenderError

Rendered(val, nodeName) == Execute(val, nodeName)

RenderAll(params, nodeName) == [p \in DOMAIN params |-> Rendered(params[p], nodeName)]

AllRender(params, nodeName) == \A p \in DOMAIN params : Renders(params[p], nodeName)

\* Rendering changed some value: the only way the code recognises a template.
HasTemplate(params, nodeName) == RenderAll(params, nodeName) # params

(***************************************************************************)
(* collectAllSecretParams.  secrets has the Secrets that can be read: one  *)
(* that is missing and one that cannot be rendered are the same error.     *)
(***************************************************************************)
SharedSecretParams(secrets, spec) == IF spec.secret = Nil THEN <<>> ELSE secrets[spec.secret]

NodeSecretParams(secrets, spec, nodeName) ==
    IF nodeName \in DOMAIN spec.nodeSecrets THEN secrets[spec.nodeSecrets[nodeName]] ELSE <<>>

SecretsCollected(secrets, spec, nodeName) ==
    /\ spec.secret # Nil =>
         /\ spec.secret \in DOMAIN secrets
         /\ AllRender(secrets[spec.secret], nodeName)
    /\ nodeName \in DOMAIN spec.nodeSecrets => spec.nodeSecrets[nodeName] \in DOMAIN secrets

\* maps.Copy(dst, src): what dst has afterwards.
Copy(dst, src) ==
    [p \in DOMAIN dst \cup DOMAIN src |-> IF p \in DOMAIN src THEN src[p] ELSE dst[p]]

\* Mutation: the shared Secret is copied over the node's.
CollectSharedLast(secrets, spec, nodeName) ==
    Copy(NodeSecretParams(secrets, spec, nodeName),
         RenderAll(SharedSecretParams(secrets, spec), nodeName))

\* The node's Secret, which is not rendered, over the shared one.
collectAllSecretParams(secrets, spec, nodeName) ==
    Copy(RenderAll(SharedSecretParams(secrets, spec), nodeName),
         NodeSecretParams(secrets, spec, nodeName))

-----------------------------------------------------------------------------
\* Mutation: only the spelling with dashes is looked at.
validateFenceActionDashed(name, val) ==
    name = ParameterActionName => val \in {"", "reboot", "off"}

validateFenceAction(name, val) == name \in ActionNames => val \in {"", "reboot", "off"}

ActionsValid(params) == \A p \in DOMAIN params : validateFenceAction(p, params[p])

\* The node parameters that are there for this node.
NodeValues(spec, nodeName) ==
    LET here == {p \in DOMAIN spec.node : nodeName \in DOMAIN spec.node[p]}
    IN  [p \in here |-> spec.node[p][nodeName]]

\* Shared parameters are rendered and overridden by the node's.
InlineParams(spec, nodeName) ==
    Copy(RenderAll(spec.shared, nodeName), NodeValues(spec, nodeName))

\* Nothing tells one node from another: the parameters are taken to be incomplete.
OnlySharedParamsWithoutTemplate(secrets, spec, nodeName) ==
    /\ DOMAIN spec.node = {}
    /\ ~HasTemplate(spec.shared, nodeName)
    /\ ~HasTemplate(SharedSecretParams(secrets, spec), nodeName)

\* validateFenceAgentParams returns no error.
ParamsValid(secrets, spec, nodeName) ==
    LET secretParams == collectAllSecretParams(secrets, spec, nodeName)
        inline == InlineParams(spec, nodeName)
    IN  /\ ActionsValid(spec.shared) /\ AllRender(spec.shared, nodeName)
        /\ ActionsValid(NodeValues(spec, nodeName))
        /\ ActionsValid(secretParams)
        /\ DOMAIN inline \cap DOMAIN secretParams = {}
        /\ DOMAIN inline \cup DOMAIN secretParams # {}
        /\ ~OnlySharedParamsWithoutTemplate(secrets, spec, nodeName)

DefaultAction == [p \in {ParameterActionName} |-> "reboot"]

BuildFenceAgentParams(secrets, spec, nodeName) ==
    CASE ~SecretsCollected(secrets, spec, nodeName) -> Retry
      [] SecretsCollected(secrets, spec, nodeName)
         /\ ~ParamsValid(secrets, spec, nodeName) -> Permanent
      [] OTHER ->
           Built(Copy(DefaultAction, Copy(collectAllSecretParams(secrets, spec, nodeName),
                                          InlineParams(spec, nodeName))))

\* The arguments of the command: "name=value", or the name alone if the value is empty.
Argument(name, val) == IF val = "" THEN <<name>> ELSE <<name, val>>

mapToSliceConvert(params) == {Argument(p, params[p]) : p \in DOMAIN params}

-----------------------------------------------------------------------------
(***************************************************************************)
(* Admission.                                                              *)
(***************************************************************************)
GetNodeNamesFromSpec(spec) ==
    (UNION {DOMAIN spec.node[p] : p \in DOMAIN spec.node}) \cup DOMAIN spec.nodeSecrets

PlaceholderNode == "temp-validation"

\* Mutation: the nodes that have a Secret of their own are not validated.
NodesToValidateNoSecrets(spec) ==
    LET named == UNION {DOMAIN spec.node[p] : p \in DOMAIN spec.node}
    IN  IF named = {} THEN {PlaceholderNode} ELSE named

NodesToValidate(spec) ==
    LET named == GetNodeNamesFromSpec(spec)
    IN  IF named = {} THEN {PlaceholderNode} ELSE named

validateFenceAgentForNodes(secrets, spec) ==
    \A n \in NodesToValidate(spec) : BuildFenceAgentParams(secrets, spec, n).result = "ok"

isAgentFileExists(agent) == agent \in Installed

validateAgentName(agent) == isAgentFileExists(agent)

validateStrategy(strategy, oosSupported) == strategy = OutOfServiceTaintStrategy => oosSupported

validateTemplateParameters(spec) == AllRender(spec.shared, "dummy-node-name")

validateSpec(secrets, oosSupported, spec) ==
    /\ validateAgentName(spec.agent)
    /\ validateStrategy(spec.strategy, oosSupported)
    /\ validateTemplateParameters(spec)
    /\ validateFenceAgentForNodes(secrets, spec)

\* Mutation: only a missing name is a removed name, an empty one is not looked at.
LegacyNameNotNil(secrets, old, new) ==
    (old.secret = OldDefaultSecretName /\ new.secret = "")
        => OldDefaultSecretName \notin DOMAIN secrets

validateTemplateForSharedSecretDefaultName(secrets, old, new) ==
    (old.secret = OldDefaultSecretName /\ new.secret \in {Nil, ""})
        => OldDefaultSecretName \notin DOMAIN secrets

applySharedSecretDefaultNameToSpec(secrets, spec, isCreate) ==
    LET secretExists == OldDefaultSecretName \in DOMAIN secrets
    IN  [spec EXCEPT !.secret =
            CASE @ = Nil /\ isCreate /\ secretExists -> OldDefaultSecretName
              [] @ = OldDefaultSecretName /\ ~secretExists -> Nil
              [] OTHER -> @]

\* setOutOfServiceTaintSupportedFlag
OutOfServiceTaintSupported(major, minor) == major > 1 \/ (major = 1 /\ minor >= 26)

=============================================================================
