--------------------------- MODULE AdmissionProofs ---------------------------
(***************************************************************************)
(* What the webhooks let pass can be carried out, and what is carried out  *)
(* is what the specs and the Secrets say, for any specs, Secrets, versions *)
(* and any number of changes, faults and crashes.                          *)
(***************************************************************************)
EXTENDS Admission, TLAPS

-----------------------------------------------------------------------------
(***************************************************************************)
(* BuildFenceAgentParams.                                                  *)
(***************************************************************************)

\* What is copied is added to what was there, and wins over it.
LEMMA CopyDomain ==
    ASSUME NEW dst, NEW src
    PROVE  DOMAIN Copy(dst, src) = DOMAIN dst \cup DOMAIN src
  BY DEF Copy

\* An entry that is copied.
LEMMA CopyWins ==
    ASSUME NEW dst, NEW src, NEW p \in DOMAIN src
    PROVE  Copy(dst, src)[p] = src[p]
  BY DEF Copy

\* An entry that is left alone.
LEMMA CopyKeeps ==
    ASSUME NEW dst, NEW src, NEW p \in DOMAIN dst \ DOMAIN src
    PROVE  Copy(dst, src)[p] = dst[p]
  BY DEF Copy

\* An empty map.
LEMMA NoKeys == DOMAIN <<>> = {}
  OBVIOUS

\* The three results, and the parameters that go with them.
LEMMA BuildResult ==
    ASSUME NEW ss, NEW spec, NEW n
    PROVE  LET b == BuildFenceAgentParams(ss, spec, n)
           IN  /\ b.result = "ok" <=> SecretsCollected(ss, spec, n) /\ ParamsValid(ss, spec, n)
               /\ b.result = "ok" => b.params =
                    Copy(DefaultAction, Copy(collectAllSecretParams(ss, spec, n),
                                             InlineParams(spec, n)))
               /\ b.result # "ok" => b.params = <<>>
               /\ b.result \in {"retry", "permanent", "ok"}
  BY DEF BuildFenceAgentParams, Retry, Permanent, Built

\* A rendered action is valid if it was before it was rendered, and then it is the same.
LEMMA RenderedActions ==
    ASSUME NEW params, ActionsValid(params)
    PROVE  ActionsValid(RenderAll(params, Node))
  BY AdmissionAssumption DEF ActionsValid, validateFenceAction, RenderAll, Rendered

\* Actions of two sources stay valid when one overrides the other.
LEMMA CopiedActions ==
    ASSUME NEW dst, NEW src, ActionsValid(dst), ActionsValid(src)
    PROVE  ActionsValid(Copy(dst, src))
<1> SUFFICES ASSUME NEW p \in DOMAIN Copy(dst, src)
             PROVE  validateFenceAction(p, Copy(dst, src)[p])
  BY DEF ActionsValid
<1>1. p \in DOMAIN dst \cup DOMAIN src
  BY CopyDomain
<1>2. CASE p \in DOMAIN src
  <2>1. Copy(dst, src)[p] = src[p]
    BY <1>2, CopyWins
  <2>2. validateFenceAction(p, src[p])
    BY <1>2 DEF ActionsValid
  <2> QED  BY <2>1, <2>2
<1>3. CASE p \in DOMAIN dst \ DOMAIN src
  <2>1. Copy(dst, src)[p] = dst[p]
    BY <1>3, CopyKeeps
  <2>2. validateFenceAction(p, dst[p])
    BY <1>3 DEF ActionsValid
  <2> QED  BY <2>1, <2>2
<1> QED  BY <1>1, <1>2, <1>3

\* No action but reboot and off is built.
LEMMA BuiltActions ==
    ASSUME NEW ss, NEW spec, NEW n, n = Node
    PROVE  ActionsValid(BuildFenceAgentParams(ss, spec, n).params)
<1>e. ActionsValid(<<>>)
  BY DEF ActionsValid
<1>1. CASE SecretsCollected(ss, spec, n) /\ ParamsValid(ss, spec, n)
  <2>1. /\ ActionsValid(spec.shared) /\ ActionsValid(NodeValues(spec, n))
        /\ ActionsValid(collectAllSecretParams(ss, spec, n))
    BY <1>1 DEF ParamsValid
  <2>2. ActionsValid(InlineParams(spec, n))
    BY <2>1, RenderedActions, CopiedActions DEF InlineParams
  <2>3. ActionsValid(DefaultAction)
    BY DEF ActionsValid, DefaultAction, validateFenceAction
  <2> QED  BY <1>1, <2>1, <2>2, <2>3, BuildResult, CopiedActions
<1> QED  BY <1>e, <1>1, BuildResult

\* What ActionsValid means for the arguments of the command.
LEMMA Arguments ==
    ASSUME NEW params, ActionsValid(params), NEW arg \in mapToSliceConvert(params),
           arg[1] \in ActionNames
    PROVE  Len(arg) = 1 \/ arg[2] \in {"reboot", "off"}
<1>1. PICK p \in DOMAIN params : arg = Argument(p, params[p])
  BY DEF mapToSliceConvert
<1>2. CASE params[p] = ""
  BY <1>1, <1>2 DEF Argument
<1>3. CASE params[p] # ""
  <2>1. arg = <<p, params[p]>>
    BY <1>1, <1>3 DEF Argument
  <2>2. p \in ActionNames
    BY <2>1
  <2> QED  BY <1>3, <2>1, <2>2 DEF ActionsValid, validateFenceAction
<1> QED  BY <1>2, <1>3

\* A placeholder stands for the node when the spec names none and uses templates only to
\* put the name into a text.
LEMMA PlaceholderIsTypical ==
    ASSUME NEW ss, NEW spec, GetNodeNamesFromSpec(spec) = {}, Tried(spec, ss),
           BuildFenceAgentParams(ss, spec, PlaceholderNode).result = "ok"
    PROVE  BuildFenceAgentParams(ss, spec, Node).result = "ok"
<1> DEFINE m == PlaceholderNode
           n == Node
           shared == SharedSecretParams(ss, spec)
           Documented(params) == \A p \in DOMAIN params : TextOrName(params[p])
<1>1. SecretsCollected(ss, spec, m) /\ ParamsValid(ss, spec, m)
  BY BuildResult
<1>2. n # ""
  BY AdmissionAssumption
<1>d. Documented(spec.shared) /\ Documented(shared)
  BY DEF Tried
<1>3. DOMAIN spec.nodeSecrets = {} /\ \A p \in DOMAIN spec.node : DOMAIN spec.node[p] = {}
  <2>1. GetNodeNamesFromSpec(spec)
          = (UNION {DOMAIN spec.node[p] : p \in DOMAIN spec.node}) \cup DOMAIN spec.nodeSecrets
    BY DEF GetNodeNamesFromSpec
  <2>2. ASSUME NEW p \in DOMAIN spec.node PROVE DOMAIN spec.node[p] = {}
    <3>1. \A x \in DOMAIN spec.node[p] : x \in GetNodeNamesFromSpec(spec)
      BY <2>1, Zenon
    <3> QED  BY <3>1
  <2>3. DOMAIN spec.nodeSecrets = {}
    <3>1. \A x \in DOMAIN spec.nodeSecrets : x \in GetNodeNamesFromSpec(spec)
      BY <2>1, Zenon
    <3> QED  BY <3>1
  <2> QED  BY <2>2, <2>3
<1>v. ASSUME NEW val, TextOrName(val)
      PROVE  /\ Renders(val, m) => Renders(val, n)
             /\ Rendered(val, m) # val => Rendered(val, n) # val
             /\ Rendered(val, m) \in Actions => Rendered(val, n) = Rendered(val, m)
  <2>1. CASE Execute(val, m) = val /\ Execute(val, n) = val
    BY <1>2, <2>1 DEF Renders, Rendered
  <2>2. CASE /\ Execute(val, m) \notin Actions \cup {val, RenderError}
             /\ Execute(val, n) \notin Actions \cup {val, RenderError}
    BY <1>2, <2>2 DEF Renders, Rendered
  <2> QED  BY <1>v, <2>1, <2>2 DEF TextOrName
<1>4. ASSUME NEW params, Documented(params), AllRender(params, m) PROVE AllRender(params, n)
  BY <1>4, <1>v DEF AllRender
<1>5. SecretsCollected(ss, spec, n)
  <2>1. spec.secret # Nil => shared = ss[spec.secret]
    BY DEF SharedSecretParams
  <2> QED  BY <1>1, <1>3, <1>4, <1>d, <2>1 DEF SecretsCollected
<1>6. NodeValues(spec, n) = NodeValues(spec, m)
  BY <1>3 DEF NodeValues
<1>7. ASSUME NEW params, Documented(params), HasTemplate(params, m) PROVE HasTemplate(params, n)
  <2> SUFFICES ASSUME RenderAll(params, n) = params PROVE RenderAll(params, m) = params
    BY <1>7 DEF HasTemplate
  <2>1. \A p \in DOMAIN params : Rendered(params[p], n) = params[p]
    BY DEF RenderAll
  <2>2. \A p \in DOMAIN params : Rendered(params[p], m) = Rendered(params[p], n)
    BY <1>7, <1>v, <2>1
  <2> QED  BY <2>2 DEF RenderAll
<1>8. ASSUME NEW params
      PROVE  DOMAIN RenderAll(params, n) = DOMAIN RenderAll(params, m)
  BY DEF RenderAll
<1>9. NodeSecretParams(ss, spec, n) = NodeSecretParams(ss, spec, m)
  BY <1>3 DEF NodeSecretParams
<1>10. /\ DOMAIN InlineParams(spec, n) = DOMAIN InlineParams(spec, m)
       /\ DOMAIN collectAllSecretParams(ss, spec, n) = DOMAIN collectAllSecretParams(ss, spec, m)
  <2>1. /\ DOMAIN InlineParams(spec, n)
             = DOMAIN RenderAll(spec.shared, n) \cup DOMAIN NodeValues(spec, n)
        /\ DOMAIN InlineParams(spec, m)
             = DOMAIN RenderAll(spec.shared, m) \cup DOMAIN NodeValues(spec, m)
    BY CopyDomain DEF InlineParams
  <2>2. /\ DOMAIN collectAllSecretParams(ss, spec, n)
             = DOMAIN RenderAll(shared, n) \cup DOMAIN NodeSecretParams(ss, spec, n)
        /\ DOMAIN collectAllSecretParams(ss, spec, m)
             = DOMAIN RenderAll(shared, m) \cup DOMAIN NodeSecretParams(ss, spec, m)
    BY CopyDomain DEF collectAllSecretParams
  <2> QED  BY <1>6, <1>8, <1>9, <2>1, <2>2
<1>11. ActionsValid(collectAllSecretParams(ss, spec, n))
  <2> DEFINE own == NodeSecretParams(ss, spec, m)
  <2>1. ActionsValid(Copy(RenderAll(shared, m), own))
    BY <1>1 DEF ParamsValid, collectAllSecretParams
  <2>2. DOMAIN own = {}
    <3>1. own = <<>>
      BY <1>3 DEF NodeSecretParams
    <3> QED  BY <3>1, NoKeys
  <2>3. ActionsValid(RenderAll(shared, m))
    <3> SUFFICES ASSUME NEW p \in DOMAIN RenderAll(shared, m)
                 PROVE  validateFenceAction(p, RenderAll(shared, m)[p])
      BY DEF ActionsValid
    <3>1. p \in DOMAIN Copy(RenderAll(shared, m), own)
      BY CopyDomain
    <3>2. Copy(RenderAll(shared, m), own)[p] = RenderAll(shared, m)[p]
      BY <2>2, CopyKeeps
    <3>3. validateFenceAction(p, Copy(RenderAll(shared, m), own)[p])
      BY <2>1, <3>1 DEF ActionsValid
    <3> QED  BY <3>2, <3>3
  <2>4. ActionsValid(RenderAll(shared, n))
    <3> SUFFICES ASSUME NEW p \in DOMAIN shared, p \in ActionNames
                 PROVE  Rendered(shared[p], n) \in Actions
      BY DEF ActionsValid, RenderAll, validateFenceAction, Actions
    <3>1. Rendered(shared[p], m) \in Actions
      BY <2>3 DEF ActionsValid, RenderAll, validateFenceAction, Actions
    <3> QED  BY <1>d, <1>v, <3>1
  <2>5. ActionsValid(own)
    BY <2>2 DEF ActionsValid
  <2> QED  BY <1>9, <2>4, <2>5, CopiedActions DEF collectAllSecretParams
<1>12. ParamsValid(ss, spec, n)
  <2>1. AllRender(spec.shared, n)
    BY <1>1, <1>4, <1>d DEF ParamsValid
  <2>2. ~OnlySharedParamsWithoutTemplate(ss, spec, n)
    BY <1>1, <1>7, <1>d DEF ParamsValid, OnlySharedParamsWithoutTemplate
  <2> QED  BY <1>1, <1>6, <1>10, <1>11, <2>1, <2>2 DEF ParamsValid
<1> QED  BY <1>5, <1>12, BuildResult

\* The sources of the parameters, strongest first.
LEMMA Precedence ==
    ASSUME NEW ss, NEW spec, NEW n, BuildFenceAgentParams(ss, spec, n).result = "ok",
           NEW nv, nv = NodeValues(spec, n), NEW sh, sh = RenderAll(spec.shared, n),
           NEW ns, ns = NodeSecretParams(ss, spec, n),
           NEW sp, sp = RenderAll(SharedSecretParams(ss, spec), n)
    PROVE  LET params == BuildFenceAgentParams(ss, spec, n).params
           IN  /\ DOMAIN params = DOMAIN nv \cup DOMAIN sh \cup DOMAIN ns \cup DOMAIN sp
                                    \cup DOMAIN DefaultAction
               /\ (DOMAIN nv \cup DOMAIN sh) \cap (DOMAIN ns \cup DOMAIN sp) = {}
               /\ \A p \in DOMAIN nv : params[p] = nv[p]
               /\ \A p \in DOMAIN sh \ DOMAIN nv : params[p] = sh[p]
               /\ \A p \in DOMAIN ns \ (DOMAIN nv \cup DOMAIN sh) : params[p] = ns[p]
               /\ \A p \in DOMAIN sp \ (DOMAIN nv \cup DOMAIN sh \cup DOMAIN ns) :
                     params[p] = sp[p]
               /\ \A p \in DOMAIN DefaultAction
                             \ (DOMAIN nv \cup DOMAIN sh \cup DOMAIN ns \cup DOMAIN sp) :
                     params[p] = DefaultAction[p]
<1> DEFINE params == BuildFenceAgentParams(ss, spec, n).params
<1>1. PICK secret, inline :
        /\ secret = Copy(sp, ns) /\ inline = Copy(sh, nv)
        /\ params = Copy(DefaultAction, Copy(secret, inline))
        /\ DOMAIN inline \cap DOMAIN secret = {}
  <2>1. ParamsValid(ss, spec, n)
    BY BuildResult
  <2>2. DOMAIN InlineParams(spec, n) \cap DOMAIN collectAllSecretParams(ss, spec, n) = {}
    BY <2>1 DEF ParamsValid
  <2>3. collectAllSecretParams(ss, spec, n) = Copy(sp, ns) /\ InlineParams(spec, n) = Copy(sh, nv)
    BY DEF collectAllSecretParams, InlineParams
  <2> QED  BY <2>2, <2>3, BuildResult
<1>2. PICK both : both = Copy(secret, inline)
  OBVIOUS
<1>3. /\ DOMAIN secret = DOMAIN sp \cup DOMAIN ns
      /\ DOMAIN inline = DOMAIN sh \cup DOMAIN nv
  BY <1>1, CopyDomain
<1>4. DOMAIN both = DOMAIN secret \cup DOMAIN inline
  BY <1>2, CopyDomain
<1>5. params = Copy(DefaultAction, both) /\ DOMAIN params = DOMAIN DefaultAction \cup DOMAIN both
  <2>1. params = Copy(DefaultAction, both)
    BY <1>1, <1>2
  <2>2. DOMAIN Copy(DefaultAction, both) = DOMAIN DefaultAction \cup DOMAIN both
    BY CopyDomain
  <2> QED  BY <2>1, <2>2
<1>6. /\ \A p \in DOMAIN both : params[p] = both[p]
      /\ \A p \in DOMAIN DefaultAction \ DOMAIN both : params[p] = DefaultAction[p]
  BY <1>5, CopyWins, CopyKeeps
<1>7. /\ \A p \in DOMAIN inline : both[p] = inline[p]
      /\ \A p \in DOMAIN secret \ DOMAIN inline : both[p] = secret[p]
  BY <1>2, CopyWins, CopyKeeps
<1>8. /\ \A p \in DOMAIN nv : inline[p] = nv[p]
      /\ \A p \in DOMAIN sh \ DOMAIN nv : inline[p] = sh[p]
  BY <1>1, CopyWins, CopyKeeps
<1>9. /\ \A p \in DOMAIN ns : secret[p] = ns[p]
      /\ \A p \in DOMAIN sp \ DOMAIN ns : secret[p] = sp[p]
  BY <1>1, CopyWins, CopyKeeps
<1>10. DOMAIN params = DOMAIN nv \cup DOMAIN sh \cup DOMAIN ns \cup DOMAIN sp
                         \cup DOMAIN DefaultAction
  BY <1>3, <1>4, <1>5
<1>11. (DOMAIN nv \cup DOMAIN sh) \cap (DOMAIN ns \cup DOMAIN sp) = {}
  BY <1>1, <1>3
<1> HIDE DEF params
<1>12. /\ \A p \in DOMAIN nv : params[p] = nv[p]
       /\ \A p \in DOMAIN sh \ DOMAIN nv : params[p] = sh[p]
  BY <1>3, <1>4, <1>6, <1>7, <1>8
<1>13. /\ \A p \in DOMAIN ns \ (DOMAIN nv \cup DOMAIN sh) : params[p] = ns[p]
       /\ \A p \in DOMAIN sp \ (DOMAIN nv \cup DOMAIN sh \cup DOMAIN ns) : params[p] = sp[p]
  BY <1>3, <1>4, <1>6, <1>7, <1>9
<1>14. \A p \in DOMAIN DefaultAction
                  \ (DOMAIN nv \cup DOMAIN sh \cup DOMAIN ns \cup DOMAIN sp) :
          params[p] = DefaultAction[p]
  BY <1>3, <1>4, <1>6
<1> QED  BY <1>10, <1>11, <1>12, <1>13, <1>14 DEF params

\* StrongestSourceWins of the parameters that are built.
LEMMA StrongestSource ==
    ASSUME NEW ss, NEW spec, BuildFenceAgentParams(ss, spec, Node).result = "ok"
    PROVE  LET params == BuildFenceAgentParams(ss, spec, Node).params
               src == Sources(ss, spec)
               defining(p) == {i \in 1..5 : p \in DOMAIN src[i]}
           IN  /\ DOMAIN params = UNION {DOMAIN src[i] : i \in 1..5}
               /\ \A p \in DOMAIN params :
                    LET i == CHOOSE j \in defining(p) : \A k \in defining(p) : j <= k
                    IN  /\ \/ params[p] = src[i][p]
                           \/ i \in {1, 3} /\ params[p] = Rendered(src[i][p], Node)
                        /\ ~(defining(p) \cap {1, 2} # {} /\ defining(p) \cap {3, 4} # {})
<1> DEFINE params == BuildFenceAgentParams(ss, spec, Node).params
           defining(src, p) == {i \in 1..5 : p \in DOMAIN src[i]}
<1>1. PICK nv, sh, ns, sp :
        /\ nv = NodeValues(spec, Node) /\ sh = RenderAll(spec.shared, Node)
        /\ ns = NodeSecretParams(ss, spec, Node)
        /\ sp = RenderAll(SharedSecretParams(ss, spec), Node)
  OBVIOUS
<1>2. PICK src : src = <<nv, sh, ns, sp, DefaultAction>>
  OBVIOUS
<1>3. Sources(ss, spec) = src
  BY <1>1, <1>2 DEF Sources
<1>4. /\ src[1] = nv /\ src[2] = sh /\ src[3] = ns /\ src[4] = sp /\ src[5] = DefaultAction
  BY <1>2
<1>5. /\ DOMAIN params = DOMAIN src[1] \cup DOMAIN src[2] \cup DOMAIN src[3] \cup DOMAIN src[4]
                           \cup DOMAIN src[5]
      /\ (DOMAIN src[1] \cup DOMAIN src[2]) \cap (DOMAIN src[3] \cup DOMAIN src[4]) = {}
      /\ \A p \in DOMAIN src[1] : params[p] = src[1][p]
      /\ \A p \in DOMAIN src[2] \ DOMAIN src[1] : params[p] = src[2][p]
      /\ \A p \in DOMAIN src[3] \ (DOMAIN src[1] \cup DOMAIN src[2]) : params[p] = src[3][p]
      /\ \A p \in DOMAIN src[4] \ (DOMAIN src[1] \cup DOMAIN src[2] \cup DOMAIN src[3]) :
            params[p] = src[4][p]
      /\ \A p \in DOMAIN src[5] \ (DOMAIN src[1] \cup DOMAIN src[2] \cup DOMAIN src[3]
                                     \cup DOMAIN src[4]) : params[p] = src[5][p]
  BY <1>1, <1>4, Precedence
<1> HIDE DEF params
<1>6. DOMAIN params = UNION {DOMAIN src[i] : i \in 1..5}
  <2>1. \A p : p \in UNION {DOMAIN src[i] : i \in 1..5} <=> \E i \in 1..5 : p \in DOMAIN src[i]
    OBVIOUS
  <2>2. ASSUME NEW i \in 1..5, NEW p \in DOMAIN src[i] PROVE p \in DOMAIN params
    <3>1. i = 1 \/ i = 2 \/ i = 3 \/ i = 4 \/ i = 5
      OBVIOUS
    <3> QED  BY <1>5, <3>1
  <2>3. ASSUME NEW p \in DOMAIN params PROVE \E i \in 1..5 : p \in DOMAIN src[i]
    BY <1>5
  <2> QED  BY <2>1, <2>2, <2>3
<1>7. ASSUME NEW p \in DOMAIN params,
             NEW i, i = CHOOSE j \in defining(src, p) : \A k \in defining(src, p) : j <= k
      PROVE  /\ \/ params[p] = src[i][p]
                \/ i \in {1, 3} /\ params[p] = Rendered(src[i][p], Node)
             /\ ~(defining(src, p) \cap {1, 2} # {} /\ defining(src, p) \cap {3, 4} # {})
  <2>1. \E j \in defining(src, p) : \A k \in defining(src, p) : j <= k
    <3>1. PICK j \in 1..5 : p \in DOMAIN src[j] /\ \A k \in 1..5 : p \in DOMAIN src[k] => j <= k
      <4>1. CASE p \in DOMAIN src[1]
        BY <4>1
      <4>2. CASE p \in DOMAIN src[2] /\ p \notin DOMAIN src[1]
        BY <4>2
      <4>3. CASE p \in DOMAIN src[3] /\ p \notin DOMAIN src[1] /\ p \notin DOMAIN src[2]
        <5>1. ASSUME NEW k \in 1..5, p \in DOMAIN src[k] PROVE 3 <= k
          BY <4>3, <5>1
        <5> QED  BY <4>3, <5>1
      <4>4. CASE /\ p \in DOMAIN src[4] /\ p \notin DOMAIN src[1] /\ p \notin DOMAIN src[2]
                 /\ p \notin DOMAIN src[3]
        <5>1. ASSUME NEW k \in 1..5, p \in DOMAIN src[k] PROVE 4 <= k
          BY <4>4, <5>1
        <5> QED  BY <4>4, <5>1
      <4>5. CASE /\ p \in DOMAIN src[5] /\ p \notin DOMAIN src[1] /\ p \notin DOMAIN src[2]
                 /\ p \notin DOMAIN src[3] /\ p \notin DOMAIN src[4]
        <5>1. ASSUME NEW k \in 1..5, p \in DOMAIN src[k] PROVE 5 <= k
          BY <4>5, <5>1
        <5> QED  BY <4>5, <5>1
      <4> QED  BY <1>5, <4>1, <4>2, <4>3, <4>4, <4>5
    <3> QED  BY <3>1
  <2>2. i \in 1..5 /\ p \in DOMAIN src[i] /\ \A k \in 1..5 : p \in DOMAIN src[k] => i <= k
    BY <1>7, <2>1
  <2>3. params[p] = src[i][p]
    <3>1. i = 1 \/ i = 2 \/ i = 3 \/ i = 4 \/ i = 5
      BY <2>2
    <3>2. ASSUME NEW k \in 1..5, k < i PROVE p \notin DOMAIN src[k]
      BY <2>2, <3>2
    <3> QED  BY <1>5, <2>2, <3>1, <3>2
  <2>4. ~(defining(src, p) \cap {1, 2} # {} /\ defining(src, p) \cap {3, 4} # {})
    BY <1>5
  <2> QED  BY <2>3, <2>4
<1> QED  BY <1>3, <1>6, <1>7 DEF params

-----------------------------------------------------------------------------
(***************************************************************************)
(* Types.                                                                  *)
(***************************************************************************)

\* The Secrets that exist, each with data it may have.
LEMMA SecretMapForm ==
    ASSUME NEW m
    PROVE  m \in SecretMap <=>
             /\ DOMAIN m \subseteq DOMAIN SecretData
             /\ m = [s \in DOMAIN m |-> m[s]]
             /\ \A s \in DOMAIN m : m[s] \in SecretData[s]
<1>1. ASSUME m \in SecretMap
      PROVE  /\ DOMAIN m \subseteq DOMAIN SecretData
             /\ m = [s \in DOMAIN m |-> m[s]]
             /\ \A s \in DOMAIN m : m[s] \in SecretData[s]
  <2>1. PICK S \in SUBSET DOMAIN SecretData :
          /\ m \in [S -> UNION {SecretData[s] : s \in S}]
          /\ \A s \in S : m[s] \in SecretData[s]
    BY <1>1 DEF SecretMap
  <2> QED  BY <2>1
<1>2. ASSUME DOMAIN m \subseteq DOMAIN SecretData, m = [s \in DOMAIN m |-> m[s]],
             \A s \in DOMAIN m : m[s] \in SecretData[s]
      PROVE  m \in SecretMap
  <2>1. PICK S : S = DOMAIN m
    OBVIOUS
  <2>2. \A s \in S : m[s] \in UNION {SecretData[t] : t \in S}
    BY <1>2, <2>1
  <2>3. m \in [S -> UNION {SecretData[s] : s \in S}]
    BY <1>2, <2>1, <2>2
  <2>4. S \in SUBSET DOMAIN SecretData /\ \A s \in S : m[s] \in SecretData[s]
    BY <1>2, <2>1
  <2> QED  BY <2>3, <2>4 DEF SecretMap
<1> QED  BY <1>1, <1>2

\* What Secrets users leave.
LEMMA SecretsType ==
    ASSUME NEW m \in SecretMap, NEW s \in DOMAIN SecretData
    PROVE  /\ \A d \in SecretData[s] : Copy(m, [t \in {s} |-> d]) \in SecretMap
           /\ [t \in DOMAIN m \ {s} |-> m[t]] \in SecretMap
<1>1. /\ DOMAIN m \subseteq DOMAIN SecretData
      /\ \A t \in DOMAIN m : m[t] \in SecretData[t]
  BY SecretMapForm
<1>2. ASSUME NEW d \in SecretData[s] PROVE Copy(m, [t \in {s} |-> d]) \in SecretMap
  <2>1. PICK new : new = Copy(m, [t \in {s} |-> d])
    OBVIOUS
  <2>2. /\ DOMAIN new = DOMAIN m \cup {s} /\ new = [t \in DOMAIN new |-> new[t]]
        /\ \A t \in DOMAIN new : new[t] = IF t = s THEN d ELSE m[t]
    BY <2>1 DEF Copy
  <2>3. \A t \in DOMAIN new : new[t] \in SecretData[t]
    BY <1>1, <2>2
  <2> QED  BY <1>1, <2>1, <2>2, <2>3, SecretMapForm
<1>3. PICK new : new = [t \in DOMAIN m \ {s} |-> m[t]]
  OBVIOUS
<1>4. /\ DOMAIN new \subseteq DOMAIN SecretData /\ new = [t \in DOMAIN new |-> new[t]]
      /\ \A t \in DOMAIN new : new[t] \in SecretData[t]
  BY <1>1, <1>3
<1> QED  BY <1>2, <1>3, <1>4, SecretMapForm

\* A spec with another Secret is a user's spec.
LEMMA UserSpecForm ==
    ASSUME NEW s \in Specs, NEW name \in {Nil, ""} \cup DOMAIN SecretData
    PROVE  WithSecret(s, name) \in UserSpec
<1>1. WithSecret(s, name) \in {WithSecret(s, m) : m \in {Nil, ""} \cup DOMAIN SecretData}
  OBVIOUS
<1> QED  BY <1>1, Zenon DEF UserSpec

\* Users give the template and the CR such specs.
LEMMA UserSpecs == Specs \subseteq UserSpec /\ UserSpec \subseteq AnySpec
<1>1. ASSUME NEW s \in Specs PROVE s \in UserSpec
  <2>1. /\ s = FARSpec(s.agent, s.strategy, s.shared, s.node, s.secret, s.nodeSecrets)
        /\ s.secret \in {Nil, ""} \cup DOMAIN SecretData
    BY AdmissionAssumption DEF Specs
  <2>2. s = WithSecret(s, s.secret)
    BY <2>1 DEF FARSpec, WithSecret
  <2> QED  BY <2>1, <2>2, UserSpecForm
<1> QED  BY <1>1 DEF UserSpec, AnySpec

\* The mutating webhook only changes the name of the Secret.
LEMMA DefaultedSpec ==
    ASSUME NEW spec \in UserSpec, NEW ss \in SecretMap, NEW isCreate
    PROVE  applySharedSecretDefaultNameToSpec(ss, spec, isCreate) \in UserSpec
<1>1. PICK s \in Specs, n \in {Nil, ""} \cup DOMAIN SecretData : spec = WithSecret(s, n)
  BY DEF UserSpec
<1>2. s = FARSpec(s.agent, s.strategy, s.shared, s.node, s.secret, s.nodeSecrets)
  BY AdmissionAssumption DEF Specs
<1>3. OldDefaultSecretName \in DOMAIN ss => OldDefaultSecretName \in DOMAIN SecretData
  BY SecretMapForm
<1>4. PICK new \in {Nil, ""} \cup DOMAIN SecretData :
        applySharedSecretDefaultNameToSpec(ss, spec, isCreate) = WithSecret(spec, new)
  <2>1. spec.secret = n
    BY <1>1, <1>2 DEF FARSpec, WithSecret
  <2> QED  BY <1>3, <2>1 DEF applySharedSecretDefaultNameToSpec, WithSecret
<1>5. WithSecret(spec, new) = WithSecret(s, new)
  BY <1>1, <1>2 DEF FARSpec, WithSecret
<1> QED  BY <1>4, <1>5, UserSpecForm

\* The parts of TypeOK that are about objects and requests; the others are plain.
LEMMA NothingType ==
    /\ NoTemplate \in Template /\ NoCR \in CR
    /\ NoRequest \in [stage : {"none"}, kind : {"far"}, old : CR, new : CR]
    /\ Idle \in [pc : {"idle"}, far : CR]
<1>1. NoTemplate \in Template
  BY DEF NoTemplate, Template, AnySpec
<1>2. NoCR \in CR
  BY DEF NoCR, CR, AnySpec
<1> QED  BY <1>1, <1>2 DEF NoRequest, Idle

\* A request for an object.
LEMMA SubmitType ==
    ASSUME TypeOK, NEW kind, NEW old, NEW new, Submit(kind, old, new),
           \/ kind = "far" /\ old \in CR /\ new \in CR
           \/ kind = "template" /\ old \in Template /\ new \in Template
    PROVE  /\ req' \in [stage : {"default"}, kind : {"template", "far"},
                        old : CR \cup Template, new : CR \cup Template]
           /\ req'.kind = kind /\ req'.old = old /\ req'.new = new
  BY DEF Submit

\* What the mutating webhook makes of a request.
LEMMA DefaultType ==
    ASSUME TypeOK, req.stage = "default", req.new.spec \in UserSpec
    PROVE  /\ Default(req, secretCache).spec \in UserSpec
           /\ req.kind = "far" => /\ Default(req, secretCache) \in CR
                                  /\ Default(req, secretCache).phase = req.new.phase
                                  /\ GetNodeName(Default(req, secretCache)) = GetNodeName(req.new)
           /\ req.kind = "template" => /\ Default(req, secretCache) \in Template
                                       /\ Default(req, secretCache).phase = req.new.phase
<1>1. PICK spec \in UserSpec :
        spec = applySharedSecretDefaultNameToSpec(secretCache, req.new.spec, IsCreate(req))
  BY DefaultedSpec DEF TypeOK
<1>2. spec \in AnySpec
  BY UserSpecs
<1>3. CASE req.kind = "far"
  <2>1. req.new \in CR
    BY <1>3 DEF TypeOK
  <2>2. Default(req, secretCache) = [req.new EXCEPT !.spec = spec]
    BY <1>1, <1>3 DEF Default
  <2> QED  BY <1>2, <1>3, <2>1, <2>2 DEF CR, GetNodeName
<1>4. CASE req.kind = "template"
  <2>1. req.new \in Template
    BY <1>4 DEF TypeOK
  <2>2. Default(req, secretCache)
          = [req.new EXCEPT !.spec = spec, !.multi = IF @ = "unset" THEN "true" ELSE @]
    BY <1>1, <1>4 DEF Default
  <2> QED  BY <1>2, <1>4, <2>1, <2>2 DEF Template
<1> QED  BY <1>3, <1>4 DEF TypeOK

\* The bounds.
LEMMA UseType ==
    ASSUME TypeOK, NEW bound \in {"change", "fault"}, NEW max \in Nat, Use(bound, max)
    PROVE  used' \in [change : Nat, fault : Nat]
  BY DEF Use, TypeOK

(***************************************************************************)
(* Whatever was made was made of a user's spec, and for the node that is   *)
(* unhealthy.                                                              *)
(***************************************************************************)
ForNode(o) == o.spec \in UserSpec /\ GetNodeName(o) = Node

ObjectsInv ==
    /\ Present(tmpl) => tmpl.spec \in UserSpec
    /\ far.phase # "absent" => ForNode(far)
    /\ req.stage # "none" =>
          /\ Present(req.new) /\ req.new.spec \in UserSpec
          /\ req.kind = "far" => ForNode(req.new)
    /\ rec.pc = "build" => ForNode(rec.far)

ObjectsType == TypeOK /\ ObjectsInv

\* Whoever asks for an object asks for one of that kind.
LEMMA RequestStep ==
    ASSUME ObjectsType, NEW kind, NEW old, NEW new, Submit(kind, old, new),
           Present(new), new.spec \in UserSpec,
           \/ kind = "far" /\ old \in CR /\ new \in CR /\ ForNode(new)
           \/ kind = "template" /\ old \in Template /\ new \in Template,
           UNCHANGED <<idleVars>>, used' \in [change : Nat, fault : Nat]
    PROVE  ObjectsType'
<1>1. /\ req' \in [stage : {"default"}, kind : {"template", "far"},
                   old : CR \cup Template, new : CR \cup Template]
      /\ req'.kind = kind /\ req'.old = old /\ req'.new = new
  BY SubmitType DEF ObjectsType
<1>2. TypeOK'
  BY <1>1 DEF ObjectsType, TypeOK, idleVars, secretVars, objects, worker
<1>3. ObjectsInv'
  BY <1>1 DEF ObjectsType, ObjectsInv, idleVars, secretVars, objects, worker, Present, ForNode,
     GetNodeName
<1> QED  BY <1>2, <1>3 DEF ObjectsType

\* The users' requests.
LEMMA UserStep ==
    ASSUME ObjectsType,
           \/ \E s \in TemplateSpecs : CreateTemplate(s)
           \/ \E s \in EditSpecs : UpdateTemplate(s) \/ UpdateFar(s)
           \/ CreateFarFromTemplate
           \/ \E s \in HandSpecs : CreateFarByHand(s)
    PROVE  ObjectsType'
<1>s. \A s \in TemplateSpecs \cup HandSpecs \cup EditSpecs : s \in UserSpec /\ s \in AnySpec
  BY UserSpecs DEF Specs
<1>t. /\ tmpl \in Template /\ far \in CR /\ NoCR \in CR /\ used \in [change : Nat, fault : Nat]
      /\ MaxChanges \in Nat /\ TypeOK /\ ObjectsInv
  BY NothingType, AdmissionAssumption DEF ObjectsType, TypeOK
<1>u. Use("change", MaxChanges) => used' \in [change : Nat, fault : Nat]
  BY <1>t, UseType
<1>1. ASSUME NEW s \in TemplateSpecs, CreateTemplate(s) PROVE ObjectsType'
  <2>1. PICK multi \in {"unset", "false"} :
          Submit("template", tmpl, [phase |-> "present", spec |-> s, multi |-> multi])
    BY <1>1 DEF CreateTemplate
  <2>2. PICK new : new = [phase |-> "present", spec |-> s, multi |-> multi]
    OBVIOUS
  <2>3. new \in Template /\ Present(new) /\ new.spec \in UserSpec
    BY <1>s, <2>2 DEF Template, Present
  <2> QED  BY <1>1, <1>t, <2>1, <2>2, <2>3, RequestStep DEF CreateTemplate
<1>2. ASSUME NEW s \in EditSpecs, UpdateTemplate(s) PROVE ObjectsType'
  <2>1. PICK new : new = [tmpl EXCEPT !.spec = s]
    OBVIOUS
  <2>2. new \in Template /\ Present(new) /\ new.spec \in UserSpec
    BY <1>2, <1>s, <1>t, <2>1 DEF Template, Present, UpdateTemplate
  <2> QED  BY <1>2, <1>t, <1>u, <2>1, <2>2, RequestStep DEF UpdateTemplate
<1>3. ASSUME NEW s \in EditSpecs, UpdateFar(s) PROVE ObjectsType'
  <2>1. PICK new : new = [far EXCEPT !.spec = s]
    OBVIOUS
  <2>2. new \in CR /\ Present(new) /\ new.spec \in UserSpec /\ GetNodeName(new) = GetNodeName(far)
    BY <1>3, <1>s, <1>t, <2>1 DEF CR, Present, UpdateFar, GetNodeName
  <2>3. ForNode(new)
    BY <1>3, <1>t, <2>2 DEF ForNode, ObjectsInv, UpdateFar, Present
  <2> QED  BY <1>3, <1>t, <1>u, <2>1, <2>2, <2>3, RequestStep DEF UpdateFar
<1>4. CASE CreateFarFromTemplate
  <2>1. PICK new :
          /\ new = [NoCR EXCEPT !.phase = "present", !.spec = tmpl.spec,
                      !.name = IF tmpl.multi = "true" THEN GeneratedName ELSE Node,
                      !.ann = IF tmpl.multi = "true" THEN Node ELSE Nil]
          /\ Submit("far", far, new)
    BY <1>4 DEF CreateFarFromTemplate
  <2>2. tmpl.spec \in UserSpec /\ tmpl.spec \in AnySpec
    BY <1>4, <1>t, UserSpecs DEF CreateFarFromTemplate, ObjectsInv
  <2>3. new \in CR /\ Present(new) /\ new.spec = tmpl.spec /\ GetNodeName(new) = Node
    BY <1>t, <2>1, <2>2, AdmissionAssumption DEF CR, NoCR, Present, GetNodeName
  <2> QED  BY <1>4, <1>t, <2>1, <2>2, <2>3, RequestStep DEF CreateFarFromTemplate, ForNode
<1>5. ASSUME NEW s \in HandSpecs, CreateFarByHand(s) PROVE ObjectsType'
  <2>1. PICK new : new = [NoCR EXCEPT !.phase = "present", !.spec = s, !.name = Node]
    OBVIOUS
  <2>2. new \in CR /\ Present(new) /\ new.spec = s /\ GetNodeName(new) = Node
    BY <1>t, <1>s, <2>1 DEF CR, NoCR, Present, GetNodeName
  <2> QED  BY <1>5, <1>s, <1>t, <2>1, <2>2, RequestStep DEF CreateFarByHand, ForNode
<1> QED  BY <1>1, <1>2, <1>3, <1>4, <1>5

\* The webhooks pass on, store or refuse what was asked for.
LEMMA WebhookStep == ASSUME ObjectsType, Webhooks PROVE ObjectsType'
<1>t. TypeOK /\ ObjectsInv
  BY DEF ObjectsType
<1>n. /\ NoRequest \in [stage : {"none"}, kind : {"far"}, old : CR, new : CR]
      /\ Idle \in [pc : {"idle"}, far : CR]
  BY NothingType
<1>1. CASE CallDefault
  <2>1. PICK new : new = Default(req, secretCache) /\ req' = [req EXCEPT !.stage = "validate", !.new = new]
    BY <1>1 DEF CallDefault
  <2>2. /\ new.spec \in UserSpec /\ Present(new)
        /\ req.kind = "far" => new \in CR /\ GetNodeName(new) = Node
        /\ req.kind = "template" => new \in Template
    BY <1>1, <1>t, <2>1, DefaultType DEF CallDefault, ObjectsInv, ForNode, Present, TypeOK
  <2>3. /\ req' \in [stage : {"validate"}, kind : {"template", "far"},
                     old : CR \cup Template, new : CR \cup Template]
        /\ req'.kind = req.kind /\ req'.old = req.old /\ req'.new = new
    BY <1>t, <2>1, <2>2 DEF TypeOK
  <2>4. TypeOK'
    BY <1>1, <1>t, <2>2, <2>3 DEF CallDefault, TypeOK, secretVars, objects, worker
  <2>5. ObjectsInv'
    BY <1>1, <1>t, <2>2, <2>3 DEF CallDefault, ObjectsInv, secretVars, objects, worker, Present,
       ForNode, GetNodeName
  <2> QED  BY <2>4, <2>5 DEF ObjectsType
<1>2. ASSUME Refused, UNCHANGED <<secretVars, version, mgr, objects, built, unchanged>>,
             used' \in [change : Nat, fault : Nat]
      PROVE  ObjectsType'
  <2>1. /\ req' \in [stage : {"none"}, kind : {"far"}, old : CR, new : CR]
        /\ rec' \in [pc : {"idle"}, far : CR] \/ rec' = rec
        /\ queued' \in BOOLEAN
    BY <1>2, <1>n, <1>t DEF Refused, TypeOK
  <2>2. TypeOK'
    BY <1>2, <1>t, <2>1 DEF TypeOK, secretVars, objects
  <2>3. ObjectsInv'
    BY <1>2, <1>t, <2>1 DEF ObjectsInv, objects, Present, ForNode, GetNodeName
  <2> QED  BY <2>2, <2>3 DEF ObjectsType
<1>3. CASE Reject
  BY <1>2, <1>3, <1>t DEF Reject, TypeOK
<1>4. CASE WebhookFails
  <2>1. used' \in [change : Nat, fault : Nat]
    BY <1>4, <1>t, UseType, AdmissionAssumption DEF WebhookFails, TypeOK
  <2> QED  BY <1>2, <1>4, <2>1 DEF WebhookFails
<1>5. CASE Admit
  <2>1. /\ req' \in [stage : {"none"}, kind : {"far"}, old : CR, new : CR]
        /\ rec' \in [pc : {"idle"}, far : CR] \/ rec' = rec
    BY <1>5, <1>n DEF Admit
  <2>2. /\ Present(req.new) /\ req.new.spec \in UserSpec
        /\ req.kind = "far" => ForNode(req.new)
    BY <1>5, <1>t DEF Admit, ObjectsInv
  <2>3. CASE req.kind = "far"
    <3>1. /\ far' = StoredFar(req.new) /\ tmpl' = tmpl /\ queued' = TRUE /\ unchanged' = TRUE
          /\ UNCHANGED <<secretVars, version, mgr, built, used>>
      BY <1>5, <2>3 DEF Admit
    <3>2. far' \in CR /\ ForNode(far')
      BY <1>t, <2>2, <2>3, <3>1 DEF StoredFar, TypeOK, CR, ForNode, GetNodeName
    <3>3. TypeOK'
      BY <1>t, <2>1, <3>1, <3>2 DEF TypeOK, secretVars
    <3>4. ObjectsInv'
      BY <1>t, <2>1, <3>1, <3>2 DEF ObjectsInv, Present, ForNode, GetNodeName
    <3> QED  BY <3>3, <3>4 DEF ObjectsType
  <2>4. CASE req.kind # "far"
    <3>1. /\ tmpl' = req.new /\ UNCHANGED <<far, queued, unchanged>>
          /\ UNCHANGED <<secretVars, version, mgr, built, used>>
      BY <1>5, <2>4 DEF Admit
    <3>2. TypeOK'
      BY <1>t, <2>1, <2>4, <3>1 DEF TypeOK, secretVars
    <3>3. ObjectsInv'
      BY <1>t, <2>1, <2>2, <3>1 DEF ObjectsInv, Present, ForNode, GetNodeName
    <3> QED  BY <3>2, <3>3 DEF ObjectsType
  <2> QED  BY <2>3, <2>4
<1> QED  BY <1>1, <1>3, <1>4, <1>5 DEF Webhooks

\* The reconciler.
LEMMA WorkerStep == ASSUME ObjectsType, Reconcile \/ BuildAndExecute PROVE ObjectsType'
<1>t. TypeOK /\ ObjectsInv /\ far \in CR
  BY DEF ObjectsType, TypeOK
<1>n. Idle \in [pc : {"idle"}, far : CR]
  BY NothingType
<1>1. CASE ReconcileNothing
  <2>1. TypeOK'
    BY <1>1, <1>t DEF ReconcileNothing, TypeOK, secretVars, objects
  <2>2. ObjectsInv'
    BY <1>1, <1>t DEF ReconcileNothing, ObjectsInv, objects, Present, ForNode, GetNodeName
  <2> QED  BY <2>1, <2>2 DEF ObjectsType
<1>2. CASE ReconcileFinalizer
  <2>1. PICK new : new = [far EXCEPT !.fin = ~far.del] /\ Submit("far", far, new)
    BY <1>2 DEF ReconcileFinalizer
  <2>2. /\ new \in CR /\ Present(new) /\ new.spec = far.spec
        /\ GetNodeName(new) = GetNodeName(far)
    BY <1>2, <1>t, <2>1 DEF ReconcileFinalizer, CR, Present, GetNodeName
  <2>3. new.spec \in UserSpec /\ ForNode(new)
    BY <1>2, <1>t, <2>2 DEF ReconcileFinalizer, ObjectsInv, Present, ForNode
  <2>4. /\ req' \in [stage : {"default"}, kind : {"template", "far"},
                     old : CR \cup Template, new : CR \cup Template]
        /\ req'.kind = "far" /\ req'.old = far /\ req'.new = new
    BY <1>t, <2>1, <2>2, SubmitType
  <2>5. rec' \in [pc : {"waiting"}, far : CR]
    BY <1>2, <1>n DEF ReconcileFinalizer
  <2>6. built' \in {built, NotBuilt} /\ built'.result \in {"none", "retry", "permanent", "ok"}
    BY <1>2, <1>t DEF ReconcileFinalizer, NotBuilt, TypeOK
  <2>7. TypeOK'
    BY <1>2, <1>t, <2>2, <2>4, <2>5, <2>6 DEF ReconcileFinalizer, TypeOK, secretVars, objects
  <2>8. ObjectsInv'
    BY <1>2, <1>t, <2>2, <2>3, <2>4, <2>5 DEF ReconcileFinalizer, ObjectsInv, objects, Present,
       ForNode, GetNodeName
  <2> QED  BY <2>7, <2>8 DEF ObjectsType
<1>3. CASE ReconcileExecute
  <2>1. TypeOK'
    BY <1>3, <1>t DEF ReconcileExecute, TypeOK, secretVars, objects
  <2>2. ObjectsInv'
    BY <1>3, <1>t DEF ReconcileExecute, ObjectsInv, objects, Present, ForNode, GetNodeName
  <2> QED  BY <2>1, <2>2 DEF ObjectsType
<1>4. CASE BuildAndExecute
  <2>1. built'.result \in {"retry", "permanent", "ok"} /\ queued' \in BOOLEAN
    BY <1>4, <1>t, BuildResult DEF BuildAndExecute, TypeOK
  <2>2. TypeOK'
    BY <1>4, <1>t, <1>n, <2>1 DEF BuildAndExecute, TypeOK, secretVars, objects
  <2>3. ObjectsInv'
    BY <1>4, <1>t, <1>n DEF BuildAndExecute, ObjectsInv, objects, Present, ForNode, GetNodeName
  <2> QED  BY <2>2, <2>3 DEF ObjectsType
<1> QED  BY <1>1, <1>2, <1>3, <1>4 DEF Reconcile

\* Secrets, the manager, the server's version, and deletions.
LEMMA OtherStep ==
    ASSUME ObjectsType,
           \/ \E s \in DOMAIN SecretData : StoreSecret(s) \/ DeleteSecret(s)
           \/ DeliverSecrets \/ DeleteFar
           \/ StartManager \/ StartFails \/ Crash \/ Upgrade
    PROVE  ObjectsType'
<1>t. /\ TypeOK /\ ObjectsInv /\ secrets \in SecretMap /\ secretCache \in SecretMap
      /\ MaxChanges \in Nat /\ MaxFaults \in Nat
  BY AdmissionAssumption DEF ObjectsType, TypeOK
<1>n. Idle \in [pc : {"idle"}, far : CR]
  BY NothingType
<1>u. /\ Use("change", MaxChanges) => used' \in [change : Nat, fault : Nat]
      /\ Use("fault", MaxFaults) => used' \in [change : Nat, fault : Nat]
  BY <1>t, UseType
<1>1. ASSUME secrets' \in SecretMap, secretCache' \in SecretMap, version' \in Versions,
             mgr' \in [up : BOOLEAN, oos : BOOLEAN], queued' \in BOOLEAN, unchanged' \in BOOLEAN,
             missed' \in BOOLEAN, rec' = rec \/ rec' = Idle,
             built' = built \/ built' = NotBuilt, used' \in [change : Nat, fault : Nat],
             UNCHANGED <<tmpl, far, req>>
      PROVE  ObjectsType'
  <2>1. built'.result \in {"none", "retry", "permanent", "ok"}
    BY <1>1, <1>t DEF TypeOK, NotBuilt
  <2>2. TypeOK'
    BY <1>1, <1>t, <1>n, <2>1 DEF TypeOK
  <2>3. ObjectsInv'
    BY <1>1, <1>t, <1>n DEF ObjectsInv, Present, ForNode, GetNodeName
  <2> QED  BY <2>2, <2>3 DEF ObjectsType
<1>2. ASSUME NEW s \in DOMAIN SecretData, StoreSecret(s) \/ DeleteSecret(s) PROVE ObjectsType'
  <2>1. secrets' \in SecretMap
    BY <1>2, <1>t, SecretsType DEF StoreSecret, DeleteSecret
  <2>2. used' \in [change : Nat, fault : Nat]
    BY <1>2, <1>u DEF StoreSecret, DeleteSecret
  <2>3. missed' \in BOOLEAN
    BY <1>2, <1>t DEF StoreSecret, DeleteSecret, TypeOK
  <2> QED  BY <1>1, <1>2, <1>t, <2>1, <2>2, <2>3
           DEF StoreSecret, DeleteSecret, objects, worker, TypeOK
<1>3. CASE DeliverSecrets
  BY <1>1, <1>3, <1>t DEF DeliverSecrets, objects, worker, TypeOK
<1>4. CASE DeleteFar
  <2>1. /\ far \in CR /\ far' \in CR /\ far'.spec = far.spec /\ far'.phase # "absent"
        /\ GetNodeName(far') = GetNodeName(far)
    BY <1>4, <1>t DEF DeleteFar, TypeOK, CR, Present, GetNodeName
  <2>2. TypeOK'
    BY <1>4, <1>t, <2>1 DEF DeleteFar, TypeOK, secretVars
  <2>3. ObjectsInv'
    BY <1>4, <1>t, <2>1 DEF DeleteFar, ObjectsInv, Present, ForNode, GetNodeName
  <2> QED  BY <2>2, <2>3 DEF ObjectsType
<1>5. CASE StartManager
  <2>1. /\ mgr' \in [up : BOOLEAN, oos : BOOLEAN] /\ unchanged' \in BOOLEAN /\ queued' \in BOOLEAN
    BY <1>5 DEF StartManager, OutOfServiceTaintSupported, Present
  <2> QED  BY <1>1, <1>5, <1>t, <2>1 DEF StartManager, objects, TypeOK
<1>6. CASE StartFails
  BY <1>1, <1>6, <1>t, <1>u DEF StartFails, secretVars, objects, worker, TypeOK
<1>7. CASE Crash
  BY <1>1, <1>7, <1>t, <1>u DEF Crash, secretVars, objects, TypeOK
<1>8. CASE Upgrade
  BY <1>1, <1>8, <1>t DEF Upgrade, secretVars, objects, worker, TypeOK
<1> QED  BY <1>2, <1>3, <1>4, <1>5, <1>6, <1>7, <1>8

\* All steps.
LEMMA ObjectsStep == ASSUME ObjectsType, [Next]_vars PROVE ObjectsType'
<1>1. CASE UNCHANGED vars
  BY <1>1 DEF vars, ObjectsType, TypeOK, ObjectsInv, Present, ForNode, GetNodeName
<1> QED  BY <1>1, UserStep, WebhookStep, WorkerStep, OtherStep DEF Next

\* The initial states.
LEMMA ObjectsInit == Init => ObjectsType
<1> SUFFICES ASSUME Init PROVE ObjectsType
  OBVIOUS
<1>1. TypeOK
  BY NothingType DEF Init, TypeOK, NotBuilt
<1>2. ObjectsInv
  BY DEF Init, ObjectsInv, NoTemplate, NoCR, NoRequest, Idle, Present
<1> QED  BY <1>1, <1>2 DEF ObjectsType

\* Type correctness.
THEOREM AdmissionTypeCorrect == Spec => []TypeOK
<1>1. ObjectsType => TypeOK
  BY DEF ObjectsType
<1>2. ObjectsType /\ [Next]_vars => ObjectsType'
  BY ObjectsStep
<1> QED  BY <1>1, <1>2, ObjectsInit, PTL DEF Spec

-----------------------------------------------------------------------------
(***************************************************************************)
(* What is carried out.                                                    *)
(***************************************************************************)

\* Whatever the Secrets were when the command was built, its actions are allowed.
BuiltInv == ActionsValid(built.params)

\* Building is the only step that sets parameters, and a worker that is about to build
\* does nothing else, unless it crashes.
LEMMA BuiltStep ==
    ASSUME [Next]_vars
    PROVE  \/ built' = NotBuilt
           \/ built' = built /\ (rec' = rec \/ rec.pc # "build")
           \/ rec.pc = "build" /\ rec' = Idle
              /\ built' = BuildFenceAgentParams(secretCache, rec.far.spec, GetNodeName(rec.far))
<1>1. CASE UNCHANGED vars
  BY <1>1 DEF vars
<1>2. CASE BuildAndExecute
  BY <1>2 DEF BuildAndExecute
<1>3. CASE \E s \in DOMAIN SecretData : StoreSecret(s) \/ DeleteSecret(s)
  BY <1>3 DEF StoreSecret, DeleteSecret, worker
<1>4. CASE (\E s \in TemplateSpecs : CreateTemplate(s)) \/ CreateFarFromTemplate
  BY <1>4 DEF CreateTemplate, CreateFarFromTemplate, idleVars, worker
<1>5. CASE \E s \in EditSpecs : UpdateTemplate(s) \/ UpdateFar(s)
  BY <1>5 DEF UpdateTemplate, UpdateFar, idleVars, worker
<1>6. CASE (\E s \in HandSpecs : CreateFarByHand(s)) \/ DeleteFar
  BY <1>6 DEF CreateFarByHand, DeleteFar, idleVars, worker
<1>7. CASE Webhooks
  BY <1>7 DEF Webhooks, CallDefault, Admit, Reject, WebhookFails, Refused, Waiting, worker
<1>8. CASE Reconcile
  BY <1>8 DEF Reconcile, Reconciles, ReconcileNothing, ReconcileFinalizer, ReconcileExecute
<1>9. CASE DeliverSecrets \/ StartManager \/ StartFails \/ Crash \/ Upgrade
  BY <1>9 DEF DeliverSecrets, StartManager, StartFails, Crash, Upgrade, worker
<1> QED  BY <1>1, <1>2, <1>3, <1>4, <1>5, <1>6, <1>7, <1>8, <1>9 DEF Next

\* No agent is asked for another action than reboot or off, whatever became of the
\* Secrets after the CR was admitted (OnlyRebootOrOff; validateFenceAction is applied to
\* what is read when the command is built).
THEOREM NoOtherAction == Spec => []OnlyRebootOrOff
<1>n. ActionsValid(NotBuilt.params)
  BY NoKeys DEF NotBuilt, ActionsValid
<1>1. Init => ObjectsType /\ BuiltInv
  BY <1>n, ObjectsInit DEF Init, BuiltInv
<1>2. ObjectsType /\ BuiltInv /\ [Next]_vars => ObjectsType' /\ BuiltInv'
  <2> SUFFICES ASSUME ObjectsType, BuiltInv, [Next]_vars PROVE BuiltInv'
    BY ObjectsStep
  <2>1. rec.pc = "build" => GetNodeName(rec.far) = Node
    BY DEF ObjectsType, ObjectsInv, ForNode
  <2> QED  BY <1>n, <2>1, BuiltStep, BuiltActions DEF BuiltInv
<1>3. BuiltInv => OnlyRebootOrOff
  BY Arguments DEF BuiltInv, OnlyRebootOrOff
<1> QED  BY <1>1, <1>2, <1>3, PTL DEF Spec

\* Every argument of the command comes from the strongest source that defines it
\* (StrongestSourceWins; BuildFenceAgentParams and collectAllSecretParams).
THEOREM PrecedenceKept == Spec => StrongestSourceWins
<1> DEFINE Starts == rec.pc = "build" /\ rec' # rec /\ built'.result = "ok"
           Strongest ==
             LET src == Sources(secretCache, rec.far.spec)
                 defining(p) == {i \in 1..5 : p \in DOMAIN src[i]}
             IN  /\ DOMAIN built'.params = UNION {DOMAIN src[i] : i \in 1..5}
                 /\ \A p \in DOMAIN built'.params :
                      LET i == CHOOSE j \in defining(p) : \A k \in defining(p) : j <= k
                      IN  /\ \/ built'.params[p] = src[i][p]
                             \/ i \in {1, 3} /\ built'.params[p] = Rendered(src[i][p], Node)
                          /\ ~(defining(p) \cap {1, 2} # {} /\ defining(p) \cap {3, 4} # {})
<1>1. ObjectsType /\ [Next]_vars => [Starts => Strongest]_vars
  <2> SUFFICES ASSUME ObjectsType, [Next]_vars, Starts PROVE Strongest
    OBVIOUS
  <2>1. GetNodeName(rec.far) = Node
    BY DEF ObjectsType, ObjectsInv, ForNode
  <2>2. built' = BuildFenceAgentParams(secretCache, rec.far.spec, Node)
    <3>1. NotBuilt.result # "ok"
      BY DEF NotBuilt
    <3> QED  BY <2>1, <3>1, BuiltStep
  <2> QED  BY <2>2, StrongestSource
<1>2. ObjectsType /\ [Next]_vars => ObjectsType'
  BY ObjectsStep
<1> QED  BY <1>1, <1>2, ObjectsInit, PTL DEF Spec, StrongestSourceWins

-----------------------------------------------------------------------------
(***************************************************************************)
(* What is admitted.                                                       *)
(***************************************************************************)

\* Apart from an admitted request nothing writes the template, only a deletion writes the
\* CR, and what the CR was admitted with is the same as before or counts as changed.
LEMMA StoreStep ==
    ASSUME TypeOK, [Next]_vars
    PROVE  \/ Admit
           \/ /\ tmpl' = tmpl
              /\ far'.spec = far.spec /\ (Present(far') => Present(far))
              /\ unchanged' => unchanged /\ secretCache' = secretCache
<1> DEFINE Stored == /\ tmpl' = tmpl
                     /\ far'.spec = far.spec /\ (Present(far') => Present(far))
                     /\ unchanged' => unchanged /\ secretCache' = secretCache
<1>1. ASSUME UNCHANGED <<tmpl, far, unchanged, secretCache>> PROVE Stored
  BY <1>1 DEF Present
<1> HIDE DEF Stored
<1>2. CASE UNCHANGED vars
  BY <1>1, <1>2 DEF vars
<1>3. CASE \E s \in DOMAIN SecretData : StoreSecret(s) \/ DeleteSecret(s)
  BY <1>1, <1>3 DEF StoreSecret, DeleteSecret, objects
<1>4. CASE (\E s \in TemplateSpecs : CreateTemplate(s)) \/ CreateFarFromTemplate
  BY <1>1, <1>4 DEF CreateTemplate, CreateFarFromTemplate, idleVars, secretVars, objects
<1>5. CASE (\E s \in EditSpecs : UpdateTemplate(s) \/ UpdateFar(s))
           \/ \E s \in HandSpecs : CreateFarByHand(s)
  BY <1>1, <1>5 DEF UpdateTemplate, UpdateFar, CreateFarByHand, idleVars, secretVars, objects
<1>6. CASE DeleteFar
  <2>1. far \in CR
    BY DEF TypeOK
  <2>2. far'.spec = far.spec /\ Present(far)
    BY <1>6, <2>1 DEF DeleteFar, CR
  <2> QED  BY <1>6, <2>2 DEF DeleteFar, secretVars, Stored
<1>7. CASE CallDefault \/ Reject \/ WebhookFails
  BY <1>1, <1>7 DEF CallDefault, Reject, WebhookFails, secretVars, objects
<1>8. CASE Reconcile \/ BuildAndExecute
  BY <1>1, <1>8 DEF Reconcile, ReconcileNothing, ReconcileFinalizer, ReconcileExecute,
     BuildAndExecute, secretVars, objects
<1>9. CASE DeliverSecrets \/ StartManager
  BY <1>9 DEF DeliverSecrets, StartManager, objects, Present, Stored
<1>10. CASE StartFails \/ Crash \/ Upgrade
  BY <1>1, <1>10 DEF StartFails, Crash, Upgrade, secretVars, objects
<1> QED  BY <1>2, <1>3, <1>4, <1>5, <1>6, <1>7, <1>8, <1>9, <1>10 DEF Next, Webhooks, Stored

(***************************************************************************)
(* The cache shows what the server had at some time, so that a Secret that *)
(* the cache lacks has been missing at the server.                         *)
(***************************************************************************)
MissedInv ==
    /\ OldDefaultSecretName \notin DOMAIN secrets => missed
    /\ OldDefaultSecretName \notin DOMAIN secretCache => missed

\* Only a deletion makes a Secret go, and the cache only ever takes over what there is.
LEMMA MissedStep ==
    ASSUME TypeOK, MissedInv, [Next]_vars
    PROVE  MissedInv'
<1>u. ASSUME UNCHANGED secretVars PROVE MissedInv'
  BY <1>u DEF secretVars, MissedInv
<1>1. CASE UNCHANGED vars
  BY <1>1, <1>u DEF vars, secretVars
<1>2. ASSUME NEW s \in DOMAIN SecretData, StoreSecret(s) PROVE MissedInv'
  <2>1. PICK d \in SecretData[s] : secrets' = Copy(secrets, [t \in {s} |-> d])
    BY <1>2 DEF StoreSecret
  <2>2. DOMAIN secrets' = DOMAIN secrets \cup DOMAIN [t \in {s} |-> d]
    BY <2>1, CopyDomain
  <2>3. missed' = missed /\ secretCache' = secretCache
    BY <1>2 DEF StoreSecret
  <2> QED  BY <2>2, <2>3 DEF MissedInv
<1>3. ASSUME NEW s \in DOMAIN SecretData, DeleteSecret(s) PROVE MissedInv'
  <2>1. DOMAIN secrets' = DOMAIN secrets \ {s}
    BY <1>3 DEF DeleteSecret
  <2>2. missed' = (missed \/ s = OldDefaultSecretName) /\ secretCache' = secretCache
    BY <1>3 DEF DeleteSecret
  <2> QED  BY <2>1, <2>2 DEF MissedInv
<1>4. CASE DeliverSecrets \/ StartManager
  BY <1>4 DEF DeliverSecrets, StartManager, MissedInv
<1>5. CASE (\E s \in TemplateSpecs : CreateTemplate(s)) \/ CreateFarFromTemplate
           \/ (\E s \in HandSpecs : CreateFarByHand(s)) \/ DeleteFar
  BY <1>5, <1>u DEF CreateTemplate, CreateFarFromTemplate, CreateFarByHand, DeleteFar, idleVars
<1>6. CASE \E s \in EditSpecs : UpdateTemplate(s) \/ UpdateFar(s)
  BY <1>6, <1>u DEF UpdateTemplate, UpdateFar, idleVars
<1>7. CASE Webhooks
  BY <1>7, <1>u DEF Webhooks, CallDefault, Admit, Reject, WebhookFails
<1>8. CASE Reconcile \/ BuildAndExecute
  BY <1>8, <1>u DEF Reconcile, ReconcileNothing, ReconcileFinalizer, ReconcileExecute,
     BuildAndExecute
<1>9. CASE StartFails \/ Crash \/ Upgrade
  BY <1>9, <1>u DEF StartFails, Crash, Upgrade
<1> QED  BY <1>1, <1>2, <1>3, <1>4, <1>5, <1>6, <1>7, <1>8, <1>9 DEF Next

\* While the Secret with the deprecated name has been at the server all the time, no
\* template loses that name, however far the cache is behind (LegacyNameKept;
\* applySharedSecretDefaultNameToSpec, validateTemplateForSharedSecretDefaultName): what the
\* webhook validates is what replaces the template, and its cache has the Secret.
THEOREM LegacyNameSafe == Spec => LegacyNameKept
<1> DEFINE I == ObjectsType /\ MissedInv
<1>1. I /\ [Next]_vars => [LosesLegacyName => missed]_vars
  <2> SUFFICES ASSUME ObjectsType, MissedInv, [Next]_vars, LosesLegacyName PROVE missed
    OBVIOUS
  <2>1. tmpl' # tmpl
    BY DEF LosesLegacyName, OldDefaultSecretName, Nil
  <2>2. Admit
    BY <2>1, StoreStep DEF ObjectsType
  <2>3. req.kind = "template" /\ tmpl' = req.new
    BY <2>1, <2>2 DEF Admit, ObjectsType, TypeOK
  <2>4. req.old = tmpl /\ ~IsCreate(req)
    BY <2>2, <2>3 DEF Admit, NoConflict, IsCreate, LosesLegacyName
  <2>5. validateTemplateForSharedSecretDefaultName(secretCache, req.old.spec, req.new.spec)
    BY <2>2, <2>3, <2>4 DEF Admit, Valid
  <2>6. OldDefaultSecretName \notin DOMAIN secretCache
    BY <2>3, <2>4, <2>5 DEF validateTemplateForSharedSecretDefaultName, LosesLegacyName
  <2> QED  BY <2>6 DEF MissedInv
<1>2. I /\ [Next]_vars => I'
  BY ObjectsStep, MissedStep DEF ObjectsType
<1>3. Init => I
  BY ObjectsInit DEF Init, MissedInv
<1> QED  BY <1>1, <1>2, <1>3, PTL DEF Spec, LegacyNameKept

(***************************************************************************)
(* The manager may have asked an older server than the one there is now,   *)
(* and a newer server supports what an older one does.                     *)
(***************************************************************************)
Supported == OutOfServiceTaintSupported(version[1], version[2])

SupportInv == mgr.oos => Supported

\* What the validating webhook found is still so, also after an upgrade.
AdmittedInv ==
    (Present(far) /\ unchanged) =>
        /\ far.spec.agent \in Installed
        /\ far.spec.strategy = OutOfServiceTaintStrategy => Supported
        /\ validateFenceAgentForNodes(secretCache, far.spec)

\* The server is never downgraded, and the manager only believes what the server said.
LEMMA SupportStep ==
    ASSUME TypeOK, SupportInv, [Next]_vars
    PROVE  SupportInv' /\ (Supported => Supported')
<1>1. ASSUME UNCHANGED <<mgr, version>> PROVE SupportInv' /\ (Supported => Supported')
  BY <1>1 DEF SupportInv, Supported
<1>2. CASE UNCHANGED vars
  BY <1>1, <1>2 DEF vars
<1>3. CASE \E s \in DOMAIN SecretData : StoreSecret(s) \/ DeleteSecret(s)
  BY <1>1, <1>3 DEF StoreSecret, DeleteSecret
<1>4. CASE (\E s \in TemplateSpecs : CreateTemplate(s)) \/ CreateFarFromTemplate \/ DeleteFar
  BY <1>1, <1>4 DEF CreateTemplate, CreateFarFromTemplate, DeleteFar, idleVars
<1>5. CASE (\E s \in EditSpecs : UpdateTemplate(s) \/ UpdateFar(s))
           \/ \E s \in HandSpecs : CreateFarByHand(s)
  BY <1>1, <1>5 DEF UpdateTemplate, UpdateFar, CreateFarByHand, idleVars
<1>6. CASE Webhooks
  BY <1>1, <1>6 DEF Webhooks, CallDefault, Admit, Reject, WebhookFails
<1>7. CASE Reconcile \/ BuildAndExecute
  BY <1>1, <1>7 DEF Reconcile, ReconcileNothing, ReconcileFinalizer, ReconcileExecute,
     BuildAndExecute
<1>8. CASE DeliverSecrets \/ StartFails
  BY <1>1, <1>8 DEF DeliverSecrets, StartFails
<1>9. CASE StartManager \/ Crash
  BY <1>9 DEF StartManager, Crash, SupportInv, Supported
<1>10. CASE Upgrade
  <2>1. version \in Nat \X Nat /\ version' \in Nat \X Nat /\ mgr' = mgr
    BY <1>10, AdmissionAssumption DEF Upgrade, TypeOK
  <2>2. /\ version[1] \in Nat /\ version[2] \in Nat /\ version'[1] \in Nat /\ version'[2] \in Nat
        /\ version'[1] > version[1] \/ (version'[1] = version[1] /\ version'[2] > version[2])
    BY <1>10, <2>1 DEF Upgrade
  <2>3. Supported => Supported'
    BY <2>2 DEF Supported, OutOfServiceTaintSupported
  <2> QED  BY <2>1, <2>3 DEF SupportInv
<1> QED  BY <1>2, <1>3, <1>4, <1>5, <1>6, <1>7, <1>8, <1>9, <1>10 DEF Next

\* The validating webhook establishes AdmittedInv and no other step breaks it.
LEMMA AdmittedStep ==
    ASSUME TypeOK, SupportInv, AdmittedInv, [Next]_vars
    PROVE  AdmittedInv'
<1> SUFFICES ASSUME Present(far'), unchanged'
             PROVE  /\ far'.spec.agent \in Installed
                    /\ far'.spec.strategy = OutOfServiceTaintStrategy => Supported'
                    /\ validateFenceAgentForNodes(secretCache', far'.spec)
  BY DEF AdmittedInv, Present
<1>1. CASE Admit /\ req.kind = "far"
  <2>1. /\ far' = req.new /\ validateSpec(secretCache, mgr.oos, req.new.spec)
        /\ secretCache' = secretCache
    BY <1>1 DEF Admit, StoredFar, Valid, Present, secretVars, TypeOK, CR
  <2> QED  BY <2>1, SupportStep
           DEF validateSpec, validateAgentName, isAgentFileExists, validateStrategy, SupportInv
<1>2. CASE ~(Admit /\ req.kind = "far")
  <2>1. /\ far'.spec = far.spec /\ Present(far) /\ unchanged /\ secretCache' = secretCache
    <3>1. CASE Admit
      BY <1>2, <3>1 DEF Admit, secretVars, Present
    <3> QED  BY <3>1, StoreStep
  <2> QED  BY <2>1, SupportStep DEF AdmittedInv
<1> QED  BY <1>1, <1>2

\* What was admitted for the node can be built for the node.
LEMMA AdmittedIsBuilt ==
    ASSUME NEW ss, NEW spec, validateFenceAgentForNodes(ss, spec), Tried(spec, ss)
    PROVE  BuildFenceAgentParams(ss, spec, Node).result = "ok"
<1>1. CASE GetNodeNamesFromSpec(spec) = {}
  <2>1. BuildFenceAgentParams(ss, spec, PlaceholderNode).result = "ok"
    BY <1>1 DEF validateFenceAgentForNodes, NodesToValidate
  <2> QED  BY <1>1, <2>1, PlaceholderIsTypical
<1>2. CASE GetNodeNamesFromSpec(spec) # {}
  BY <1>2 DEF validateFenceAgentForNodes, NodesToValidate, Tried
<1> QED  BY <1>1, <1>2

\* A CR can be carried out for as long as the Secrets are those it was admitted with
\* (AdmittedBuilds; validateSpec, validateFenceAgentForNodes), whatever text/template does
\* if the spec names the node, and if its templates only put in the name if it names
\* none: also if the operator was restarted, the server upgraded, and the spec was
\* defaulted or replaced meanwhile.
THEOREM AdmittedCanBeBuilt == Spec => []AdmittedBuilds
<1> DEFINE I == ObjectsType /\ SupportInv /\ AdmittedInv
<1>1. Init => I
  <2> SUFFICES ASSUME Init PROVE SupportInv /\ AdmittedInv
    BY ObjectsInit
  <2>1. mgr.oos = FALSE /\ ~Present(far)
    BY DEF Init, NoCR, Present
  <2> QED  BY <2>1 DEF SupportInv, AdmittedInv
<1>2. I /\ [Next]_vars => I'
  BY ObjectsStep, SupportStep, AdmittedStep DEF ObjectsType
<1>3. I => AdmittedBuilds
  <2> SUFFICES ASSUME I, Present(far), Tried(far.spec, secretCache), unchanged
               PROVE  /\ far.spec.agent \in Installed
                      /\ far.spec.strategy = OutOfServiceTaintStrategy =>
                           (version[1] = 1 /\ version[2] > 25) \/ version[1] >= 2
                      /\ BuildFenceAgentParams(secretCache, far.spec, Node).result = "ok"
    BY DEF AdmittedBuilds
  <2>1. version[1] \in Nat /\ version[2] \in Nat
    BY AdmissionAssumption DEF ObjectsType, TypeOK
  <2>2. Supported => (version[1] = 1 /\ version[2] > 25) \/ version[1] >= 2
    BY <2>1 DEF Supported, OutOfServiceTaintSupported
  <2> QED  BY <2>2, AdmittedIsBuilt DEF AdmittedInv
<1> QED  BY <1>1, <1>2, <1>3, PTL DEF Spec

=============================================================================
