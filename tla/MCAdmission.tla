----------------------------- MODULE MCAdmission -----------------------------
(***************************************************************************)
(* Specs and Secrets for TLC.                                              *)
(***************************************************************************)
EXTENDS Admission, TLC

n1 == "worker-1"
n2 == "worker-2"
Custom == "custom"

\* Templates: the node's name, one that does not parse, the first twelve characters of
\* the name, which a shorter name does not have, and an action chosen by the name.
NodeTemplate == "{{.NodeName}}"
BadTemplate == "{{.NodeName"
SliceTemplate == "{{slice .NodeName 0 12}}"
ActionTemplate == "{{if eq .NodeName \"worker-1\"}}status{{else}}off{{end}}"

TextTemplate(val, nodeName) ==
    CASE val = NodeTemplate -> nodeName
      [] val = BadTemplate -> RenderError
      [] val = SliceTemplate -> IF nodeName = PlaceholderNode THEN "temp-validat" ELSE RenderError
      [] val = ActionTemplate -> IF nodeName = n1 THEN "status" ELSE "off"
      [] OTHER -> val

\* Shared parameters: none, a template, one that is broken, one that depends on the name,
\* an action, a bad action, an action without dashes beside a template.
SharedChoices == { <<>>, "--ip" :> NodeTemplate, "--ip" :> BadTemplate,
                   "--ip" :> SliceTemplate, "--action" :> "", "--action" :> "status",
                   ("--ip" :> NodeTemplate) @@ ("action" :> "off") }

\* Node parameters: none, one of this node, one that overrides, one of another node, an
\* action that is allowed for one of the nodes only.
NodeChoices == { <<>>, "--port" :> (n1 :> "1" @@ n2 :> "2"), "--ip" :> (n1 :> "1"),
                 "--port" :> (n2 :> "2"), "--action" :> (n1 :> "off" @@ n2 :> "status") }

Plain(shared, node, secret, nodeSecrets) ==
    FARSpec("fence_ipmilan", ResourceDeletionStrategy, shared, node, secret, nodeSecrets)

\* Every choice beside every other of another kind.
Combined == {Plain(sh, no, Nil, <<>>) : sh \in SharedChoices, no \in NodeChoices}
    \cup {Plain("--ip" :> NodeTemplate, no, se, ns) : no \in NodeChoices,
            se \in {OldDefaultSecretName, Custom}, ns \in {<<>>, n1 :> Custom}}
    \cup {Plain(sh, <<>>, se, ns) : sh \in SharedChoices,
            se \in {OldDefaultSecretName, Custom}, ns \in {<<>>, n1 :> Custom}}

Base == Plain("--ip" :> NodeTemplate, <<>>, OldDefaultSecretName, <<>>)
Supplied == [Base EXCEPT !.secret = Custom]
Tainting == [Base EXCEPT !.strategy = OutOfServiceTaintStrategy, !.secret = Nil]

Templates == {Base, Supplied, Tainting}

\* What an administrator may change a spec to.
Edited == {[Base EXCEPT !.secret = Nil], Supplied}

\* CRs written by hand.
ByHand == Combined \cup {Tainting, [Base EXCEPT !.agent = "fence_unknown"]}

SecretChoices ==
    OldDefaultSecretName :> {"--pw" :> NodeTemplate, "--ip" :> "1"}
    @@ Custom :> {"--pw" :> "b", "action" :> ActionTemplate}

AroundTheLimit == {<<1, 25>>, <<1, 26>>, <<2, 0>>}
Newest == {<<2, 0>>}

\* The specs for which everything is tried; older versions only matter to one strategy.
InFocus(spec) ==
    /\ \E s \in {NoSpec} \cup Templates : [s EXCEPT !.secret = spec.secret] = spec
    /\ version = <<2, 0>> \/ spec.strategy # ResourceDeletionStrategy

\* Constraint: the other specs are created, admitted and carried out without changes,
\* crashes or faults meanwhile; and a template, which does not matter to a CR once it
\* was copied, changes before the CR is made.
Focus ==
    /\ req.kind = "template" => far.phase = "absent"
    /\ \/ /\ \A o \in {tmpl, far, req.new} : InFocus(o.spec)
          /\ tmpl.multi # "false"
       \/ /\ version = <<2, 0>>
          /\ used = [change |-> 0, fault |-> 0]

=============================================================================
