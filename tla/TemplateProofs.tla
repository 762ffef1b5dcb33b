---------------------------- MODULE TemplateProofs ----------------------------
(***************************************************************************)
(* The status a template is given is true of the nodes it was found for,   *)
(* for any nodes, specs and samples and any number of edits, crashes and   *)
(* errors, as long as no reconcile reads an outdated template.             *)
(***************************************************************************)
EXTENDS TemplateValidation, FiniteSetTheorems, TLAPS

-----------------------------------------------------------------------------
(***************************************************************************)
(* The sample.                                                             *)
(***************************************************************************)

\* Every set of nodes has a first one.
LEMMA FirstExists ==
    ASSUME NEW S \in SUBSET Nat, S # {}
    PROVE  \E x \in S : \A y \in S : x <= y
<1>1. PICK less : less = {ss \in Nat \X Nat : ss[1] < ss[2]}
  OBVIOUS
<1>2. IsWellFoundedOn(less, Nat)
  BY <1>1, NatLessThanWellFounded DEF OpToRel
<1>3. PICK x \in S : \A y \in S : ~(<<y, x>> \in less)
  BY <1>2, WFMin
<1>4. ASSUME NEW y \in S PROVE x <= y
  <2>1. x \in Nat /\ y \in Nat /\ <<y, x>> \in Nat \X Nat /\ <<y, x>>[1] = y /\ <<y, x>>[2] = x
    OBVIOUS
  <2>2. ~(y < x)
    BY <1>1, <1>3, <2>1
  <2> QED  BY <2>1, <2>2
<1> QED  BY <1>4

\* Min is that node.
LEMMA FirstNode ==
    ASSUME NEW S \in SUBSET Nat, S # {}
    PROVE  Min(S) \in S
  BY FirstExists DEF Min

\* Nodes is the set of the first k nodes of all, in the order of their names.
FirstOf(all, k) == {n \in all : Cardinality({m \in all : m < n}) < k}

\* There are k first nodes, or all nodes are among them.
LEMMA EnoughFirst ==
    ASSUME NEW all \in SUBSET Nat, IsFiniteSet(all), NEW k \in Nat, FirstOf(all, k) # all
    PROVE  Cardinality(FirstOf(all, k)) >= k
<1> DEFINE below(n) == {m \in all : m < n}
           first == FirstOf(all, k)
<1>1. PICK x \in all \ first : \A y \in all \ first : x <= y
  <2>1. all \ first \in SUBSET Nat /\ all \ first # {}
    BY DEF FirstOf
  <2> QED  BY <2>1, FirstExists
<1>2. \A n \in all : n \in first <=> Cardinality(below(n)) < k
  BY DEF FirstOf
<1>3. ASSUME NEW n \in all
      PROVE  IsFiniteSet(below(n)) /\ Cardinality(below(n)) \in Nat
  <2>1. IsFiniteSet(below(n))
    BY FS_Subset
  <2> QED  BY <2>1, FS_CardinalityType
<1>4. Cardinality(below(x)) >= k
  BY <1>1, <1>2, <1>3
<1>5. ASSUME NEW n \in first PROVE n < x
  <2> SUFFICES ASSUME ~(n < x) PROVE FALSE
    OBVIOUS
  <2>1. n \in all /\ x \in all /\ n # x /\ n \in Nat /\ x \in Nat
    BY <1>1, <1>5 DEF FirstOf
  <2>2. below(x) \in SUBSET below(n)
    <3>1. ASSUME NEW m \in all, m < x PROVE m < n
      BY <2>1, <3>1
    <3> QED  BY <3>1
  <2>3. Cardinality(below(x)) <= Cardinality(below(n))
    BY <1>3, <2>1, <2>2, FS_Subset
  <2>4. Cardinality(below(n)) < k
    BY <1>2, <1>5, <2>1
  <2> QED  BY <1>3, <1>4, <2>1, <2>3, <2>4
<1>6. first = below(x)
  <2>1. ASSUME NEW n \in below(x) PROVE n \in first
    <3>1. n \in all /\ n < x /\ n \in Nat /\ x \in Nat
      BY <1>1
    <3> QED  BY <1>1, <3>1
  <2>2. first \in SUBSET all
    BY DEF FirstOf
  <2> QED  BY <1>5, <2>1, <2>2
<1> QED  BY <1>4, <1>6

\* What the types say of a spec.
LEMMA SpecForm ==
    ASSUME NEW spec \in Specs
    PROVE  /\ spec.nodes \in SUBSET NodeNames /\ spec.nodes \in SUBSET Nat
           /\ IsFiniteSet(spec.nodes) /\ Cardinality(spec.nodes) \in Nat
           /\ spec.sample.val \in Nat
           /\ spec.sample.kind \in {"nil", "invalid", "int", "percent"}
           /\ spec.sample.kind \in {"nil", "invalid"} => spec.sample.val = 0
<1>1. /\ NodeNames \subseteq Nat /\ IsFiniteSet(NodeNames)
      /\ spec \in [nodes : SUBSET NodeNames, sample : Sample]
  BY TemplateAssumption
<1>2. IsFiniteSet(spec.nodes)
  BY <1>1, FS_Subset
<1>3. spec.sample \in Sample
  BY <1>1
<1>4. spec.nodes \in SUBSET NodeNames /\ spec.nodes \in SUBSET Nat
  BY <1>1
<1>5. Cardinality(spec.nodes) \in Nat
  BY <1>2, FS_CardinalityType
<1>6. /\ spec.sample.val \in Nat
      /\ spec.sample.kind \in {"nil", "invalid", "int", "percent"}
      /\ spec.sample.kind \in {"nil", "invalid"} => spec.sample.val = 0
  BY <1>3 DEF Sample
<1> QED  BY <1>2, <1>4, <1>5, <1>6

\* The size that is calculated is the number or percentage asked for, or all nodes.
LEMMA SizeEnough ==
    ASSUME NEW spec \in Specs
    PROVE  /\ CalculateSampleSize(spec) \in Nat
           /\ \/ CalculateSampleSize(spec) = Cardinality(spec.nodes)
              \/ CalculateSampleSize(spec) * 100
                   >= (IF spec.sample.kind = "percent"
                       THEN spec.sample.val * Cardinality(spec.nodes) ELSE spec.sample.val * 100)
<1>1. PICK total \in Nat, val \in Nat :
        /\ total = Cardinality(spec.nodes) /\ val = spec.sample.val
        /\ spec.sample.kind \in {"nil", "invalid", "int", "percent"}
        /\ spec.sample.kind \in {"nil", "invalid"} => val = 0
  BY SpecForm
<1>2. PICK share \in Nat : share = val * total
  OBVIOUS
<1>3. (share + 99) \div 100 \in Nat /\ ((share + 99) \div 100) * 100 >= share
  BY <1>2
<1>4. PICK scaled :
        /\ scaled = IF spec.sample.kind = "nil" THEN 0 ELSE ScaledValue(spec.sample, total)
        /\ CalculateSampleSize(spec) = IF scaled > total THEN total ELSE scaled
  BY <1>1 DEF CalculateSampleSize
<1>5. CASE spec.sample.kind = "percent"
  <2>1. scaled = (share + 99) \div 100
    BY <1>1, <1>2, <1>4, <1>5 DEF ScaledValue
  <2> QED  BY <1>1, <1>2, <1>3, <1>4, <1>5, <2>1
<1>6. CASE spec.sample.kind # "percent"
  <2>1. scaled = val
    BY <1>1, <1>4, <1>6 DEF ScaledValue
  <2> QED  BY <1>1, <1>4, <1>6, <2>1
<1> QED  BY <1>5, <1>6

\* The selected nodes, and more nodes, are as many as the spec asks for.
LEMMA SelectionCovers ==
    ASSUME NEW spec \in Specs, NEW nodes \in SUBSET spec.nodes, SelectedNodes(spec) \subseteq nodes
    PROVE  Covers(nodes, spec)
<1> DEFINE k == CalculateSampleSize(spec)
<1>1. /\ spec.nodes \in SUBSET Nat /\ IsFiniteSet(spec.nodes) /\ k \in Nat
      /\ Cardinality(spec.nodes) \in Nat /\ spec.sample.val \in Nat
  BY SpecForm, SizeEnough
<1>2. SelectedNodes(spec) = FirstOf(spec.nodes, k) /\ SelectedNodes(spec) \in SUBSET spec.nodes
  BY DEF SelectedNodes, FirstOf
<1>3. /\ IsFiniteSet(nodes) /\ Cardinality(nodes) \in Nat
      /\ Cardinality(SelectedNodes(spec)) <= Cardinality(nodes)
      /\ Cardinality(spec.nodes) = Cardinality(nodes) => spec.nodes = nodes
      /\ Cardinality(nodes) <= Cardinality(spec.nodes)
      /\ Cardinality(SelectedNodes(spec)) \in Nat
  <2>1. IsFiniteSet(nodes)
    BY <1>1, FS_Subset
  <2>2. IsFiniteSet(SelectedNodes(spec))
    BY <1>1, <1>2, FS_Subset
  <2> QED  BY <1>1, <2>1, <2>2, FS_Subset, FS_CardinalityType
<1>4. CASE SelectedNodes(spec) = spec.nodes
  BY <1>4 DEF Covers
<1>5. CASE SelectedNodes(spec) # spec.nodes
  <2>1. Cardinality(nodes) >= k
    BY <1>1, <1>2, <1>3, <1>5, EnoughFirst
  <2>2. CASE k = Cardinality(spec.nodes)
    BY <1>1, <1>3, <2>1, <2>2 DEF Covers
  <2>3. CASE k # Cardinality(spec.nodes)
    <3>1. PICK asked :
            /\ asked = IF spec.sample.kind = "percent"
                       THEN spec.sample.val * Cardinality(spec.nodes) ELSE spec.sample.val * 100
            /\ k * 100 >= asked
      BY <2>3, SizeEnough
    <3>2. asked \in Nat
      BY <1>1, <3>1
    <3>3. Cardinality(nodes) * 100 >= asked
      BY <1>1, <1>3, <2>1, <3>1, <3>2
    <3> QED  BY <3>1, <3>3 DEF Covers
  <2> QED  BY <2>2, <2>3
<1> QED  BY <1>4, <1>5

-----------------------------------------------------------------------------
(***************************************************************************)
(* Type correctness.                                                       *)
(***************************************************************************)

\* No status.
LEMMA NoStatusType == NoStatus \in TemplateStatus /\ NoCondition \in Condition
<1>1. EmptyMap \in Map(Messages) /\ EmptyMap \in Map({"Success"})
  BY DEF EmptyMap, Map
<1>2. NoCondition \in Condition
  BY DEF NoCondition, Condition
<1> QED  BY <1>1, <1>2 DEF NoStatus, TemplateStatus

\* A condition that a round sets.
LEMMA CondType ==
    ASSUME NEW status \in Verdicts, NEW gen \in Nat
    PROVE  [status |-> status, gen |-> gen] \in Condition
  BY DEF Condition

\* A status with another condition.
LEMMA WithCondType ==
    ASSUME NEW st \in TemplateStatus, NEW c \in Condition
    PROVE  [st EXCEPT !.cond = c] \in TemplateStatus
  BY DEF TemplateStatus

\* Where a round starts.
LEMMA StartType ==
    ASSUME NEW o \in Template
    PROVE  StartOfRound(o) \in TemplateStatus
<1>1. o.st \in TemplateStatus /\ o.gen \in Nat
  BY DEF Template
<1>2. [status |-> "Unknown", gen |-> o.gen] \in Condition
  BY <1>1, CondType DEF Verdicts
<1>3. [NoStatus EXCEPT !.cond = [status |-> "Unknown", gen |-> o.gen]] \in TemplateStatus
  BY <1>2, NoStatusType, WithCondType
<1> QED  BY <1>1, <1>3 DEF StartOfRound

\* Where it ends without asking another node.
LEMMA StatusWithoutRunType ==
    ASSUME NEW o \in Template
    PROVE  StatusWithoutRun(o) \in TemplateStatus
<1>1. o.st \in TemplateStatus /\ o.gen \in Nat
  BY DEF Template
<1>2. ASSUME NEW status \in {"True", "False"}
      PROVE  [status |-> status, gen |-> o.gen] \in Condition
  BY <1>1, CondType DEF Verdicts
<1>3. [o.st EXCEPT !.cond = [status |-> "False", gen |-> o.gen]] \in TemplateStatus
  BY <1>1, <1>2, WithCondType
<1>4. FinalStatus(o) \in TemplateStatus
  <2>1. PICK st \in TemplateStatus : st = StartOfRound(o)
    BY StartType
  <2>2. EmptyMap \in Map({"Success"})
    BY DEF EmptyMap, Map
  <2>3. PICK status \in {"True", "False"} :
          status = IF Keys(st.failed) = {} THEN "True" ELSE "False"
    OBVIOUS
  <2>4. FinalStatus(o)
          = [st EXCEPT !.passed = EmptyMap, !.cond = [status |-> status, gen |-> o.gen]]
    BY <2>1, <2>3 DEF FinalStatus
  <2>5. [status |-> status, gen |-> o.gen] \in Condition
    BY <1>2
  <2> QED  BY <2>2, <2>4, <2>5 DEF TemplateStatus
<1> QED  BY <1>1, <1>3, <1>4, NoStatusType DEF StatusWithoutRun

\* What the server makes of a patch.
LEMMA MergeType ==
    ASSUME NEW server \in TemplateStatus, NEW orig \in TemplateStatus, NEW new \in TemplateStatus
    PROVE  MergeStatus(server, orig, new) \in TemplateStatus
<1>1. ASSUME NEW V, NEW s \in Map(V), NEW o \in Map(V), NEW n \in Map(V)
      PROVE  MergeMap(s, o, n) \in Map(V)
  BY DEF MergeMap, Map, EmptyMap
<1>2. /\ MergeMap(server.failed, orig.failed, new.failed) \in Map(Messages)
      /\ MergeMap(server.passed, orig.passed, new.passed) \in Map({"Success"})
  BY <1>1 DEF TemplateStatus
<1> QED  BY <1>2 DEF MergeStatus, TemplateStatus

\* A reconcile that is in progress.
LEMMA RequestForm ==
    ASSUME TypeOK, rec.pc # "idle"
    PROVE  rec \in Request
  BY DEF TypeOK, Idle

\* The node that is asked.
LEMMA AskedNode ==
    ASSUME NEW o \in Template, Remaining(o) # {}
    PROVE  Min(Remaining(o)) \in Remaining(o) /\ Remaining(o) \subseteq NodeNames
<1>1. o.spec \in Specs
  BY DEF Template
<1>2. Remaining(o) \subseteq o.spec.nodes
  BY DEF Remaining, SelectedNodes
<1>3. o.spec.nodes \subseteq NodeNames /\ o.spec.nodes \subseteq Nat
  BY <1>1, SpecForm
<1> QED  BY <1>2, <1>3, FirstNode

\* A status with the result of one more node.
LEMMA RecordedType ==
    ASSUME NEW st \in TemplateStatus, NEW node \in NodeNames
    PROVE  /\ [st EXCEPT !.passed[node] = "Success"] \in TemplateStatus
           /\ \A m \in Messages : [st EXCEPT !.failed[node] = m] \in TemplateStatus
<1>1. st.passed \in Map({"Success"}) /\ st.failed \in Map(Messages)
  BY DEF TemplateStatus
<1>2. [st.passed EXCEPT ![node] = "Success"] \in Map({"Success"})
  BY <1>1 DEF Map
<1>3. \A m \in Messages : [st.failed EXCEPT ![node] = m] \in Map(Messages)
  BY <1>1 DEF Map
<1> QED  BY <1>2, <1>3 DEF TemplateStatus

\* The worker asks a node only if the spec selects it and it has no result.
LEMMA ReconcileType ==
    ASSUME TypeOK, Reconcile
    PROVE  rec' \in {Idle} \cup Request
<1>1. cache \in Template
  BY DEF TypeOK
<1>2. CASE cache.present /\ ~NeedsRun(cache) /\ rec' = Patching(cache, StatusWithoutRun(cache), FALSE)
  BY <1>1, <1>2, StatusWithoutRunType DEF Patching, Request
<1>3. CASE /\ cache.present /\ NeedsRun(cache)
           /\ rec' = [pc |-> "run", orig |-> cache, st |-> StartOfRound(cache),
                      node |-> Min(Remaining(cache)), requeue |-> TRUE]
  <2>1. Min(Remaining(cache)) \in NodeNames
    BY <1>1, <1>3, AskedNode DEF NeedsRun
  <2> QED  BY <1>1, <1>3, <2>1, StartType DEF Request
<1> QED  BY <1>2, <1>3 DEF Reconcile

\* A worker that runs an agent has a node.
RunsNode == rec.pc = "run" => rec.node \in NodeNames

\* Later versions.
LEMMA VersionType ==
    ASSUME NEW o \in Template, NEW s \in Specs, NEW st \in TemplateStatus
    PROVE  /\ [o EXCEPT !.rv = @ + 1, !.st = st] \in Template
           /\ [o EXCEPT !.rv = @ + 1, !.gen = @ + 1, !.spec = s] \in Template
           /\ [o EXCEPT !.rv = @ + 1, !.present = FALSE] \in Template
<1>1. o.rv + 1 \in Nat /\ o.gen + 1 \in Nat
  BY DEF Template
<1>2. [o EXCEPT !.rv = @ + 1, !.st = st] \in Template
  BY <1>1 DEF Template
<1>3. [o EXCEPT !.rv = @ + 1, !.gen = @ + 1, !.spec = s] \in Template
  BY <1>1 DEF Template
<1>4. [o EXCEPT !.rv = @ + 1, !.present = FALSE] \in Template
  BY <1>1 DEF Template
<1> QED  BY <1>2, <1>3, <1>4

\* Storing a version.
LEMMA StoreType ==
    ASSUME TypeOK, NEW new \in Template, Store(new)
    PROVE  /\ tmpl' \in Template /\ cache' \in Template /\ pending' \in SUBSET Template
  BY DEF Store, TypeOK

\* A patch that is stored.
LEMMA StorePatchType ==
    ASSUME TypeOK, rec.pc = "patch", StorePatch
    PROVE  /\ tmpl' \in Template /\ cache' \in Template /\ pending' \in SUBSET Template
           /\ tmpl'.gen = tmpl.gen
<1>1. rec.orig.st \in TemplateStatus /\ rec.st \in TemplateStatus /\ tmpl \in Template
  BY RequestForm DEF Request, Template, TypeOK
<1>2. PICK st \in TemplateStatus : st = MergeStatus(tmpl.st, rec.orig.st, rec.st)
  BY <1>1, MergeType DEF Template
<1>3. CASE st = tmpl.st
  BY <1>2, <1>3 DEF StorePatch, TypeOK
<1>4. CASE st # tmpl.st
  <2>1. PICK new : new = [tmpl EXCEPT !.rv = @ + 1, !.st = st] /\ Store(new)
    BY <1>2, <1>4 DEF StorePatch
  <2>2. new \in Template /\ new.gen = tmpl.gen
    BY <1>1, <2>1, VersionType DEF Template
  <2> QED  BY <2>1, <2>2, StoreType DEF Store
<1> QED  BY <1>3, <1>4

\* One step.
LEMMA TypeStep == ASSUME TypeOK, RunsNode, [Next]_vars PROVE TypeOK' /\ RunsNode'
<1>a. MaxEdits \in Nat /\ MaxCrashes \in Nat /\ MaxApiErrors \in Nat
  BY TemplateAssumption
<1>b. Idle.pc = "idle"
  BY DEF Idle
<1>t. tmpl \in Template /\ tmpl.spec \in Specs /\ tmpl.st \in TemplateStatus
  BY DEF TypeOK, Template
<1>1. CASE UNCHANGED vars
  BY <1>1 DEF vars, TypeOK, RunsNode
<1>2. CASE Reconcile
  <2>1. rec' \in {Idle} \cup Request
    BY <1>2, ReconcileType
  <2>2. rec'.pc = "run" => rec'.node \in NodeNames
    <3>1. CASE NeedsRun(cache)
      BY <1>2, <1>b, <3>1, AskedNode DEF Reconcile, NeedsRun, TypeOK, Patching
    <3> QED  BY <1>2, <1>b, <3>1 DEF Reconcile, Patching
  <2> QED  BY <1>2, <2>1, <2>2 DEF Reconcile, TypeOK, RunsNode
<1>3. ASSUME NEW outcome \in Messages \cup {"Success"}, Record(outcome) PROVE TypeOK' /\ RunsNode'
  <2>1. rec.pc = "run" /\ rec \in Request /\ rec.node \in NodeNames
    BY <1>3, RequestForm DEF Record, RunsNode
  <2>2. rec.st \in TemplateStatus /\ rec.orig \in Template /\ rec.orig.gen \in Nat
    BY <2>1 DEF Request, Template
  <2>3. PICK st \in TemplateStatus :
          st = IF outcome = "Success" THEN [rec.st EXCEPT !.passed[rec.node] = outcome]
                                      ELSE [rec.st EXCEPT !.failed[rec.node] = outcome]
    BY <2>1, <2>2, RecordedType
  <2>4. rec' = Patching(rec.orig, st, TRUE)
    BY <1>3, <2>3 DEF Record
  <2>5. rec' \in Request /\ rec'.pc = "patch"
    BY <2>2, <2>4 DEF Patching, Request
  <2>6. tested' \in SUBSET (Nat \X NodeNames \X (Messages \cup {"Success"}))
    BY <1>3, <2>1, <2>2 DEF Record, TypeOK
  <2> QED  BY <1>3, <2>5, <2>6 DEF Record, TypeOK, RunsNode
<1>4. CASE ParamsError \/ RunFenceStatus
  BY <1>3, <1>4 DEF ParamsError, RunFenceStatus, Outcomes, Messages
<1>5. CASE PatchOk
  <2>1. /\ tmpl' \in Template /\ cache' \in Template /\ pending' \in SUBSET Template
        /\ tmpl'.gen = tmpl.gen
    BY <1>5, StorePatchType DEF PatchOk
  <2>2. queued' \in BOOLEAN
    BY <1>5 DEF PatchOk
  <2> QED  BY <1>5, <1>b, <2>1, <2>2 DEF PatchOk, TypeOK, RunsNode
<1>6. CASE PatchError
  <2>1. /\ tmpl' \in Template /\ cache' \in Template /\ pending' \in SUBSET Template
        /\ tmpl'.gen = tmpl.gen
    BY <1>6, StorePatchType DEF PatchError, TypeOK
  <2>2. faults' \in [edit : 0..MaxEdits, crash : 0..MaxCrashes, api : 0..MaxApiErrors]
    BY <1>6, <1>a DEF PatchError, TypeOK
  <2> QED  BY <1>6, <1>b, <2>1, <2>2 DEF PatchError, TypeOK, RunsNode
<1>7. CASE Deliver
  BY <1>7 DEF Deliver, TypeOK, RunsNode
<1>8. CASE Edit
  <2>s. PICK s \in Specs : /\ Store([tmpl EXCEPT !.rv = @ + 1, !.gen = @ + 1, !.spec = s])
                           /\ specs' = Append(specs, s)
    BY <1>8 DEF Edit
  <2>1. PICK new : /\ new = [tmpl EXCEPT !.rv = @ + 1, !.gen = @ + 1, !.spec = s]
                   /\ Store(new) /\ specs' = Append(specs, s)
    BY <2>s
  <2>2. new \in Template /\ new.gen = tmpl.gen + 1
    BY <2>1, <1>t, VersionType DEF Template
  <2>3. specs' \in Seq(Specs) /\ Len(specs') = tmpl.gen + 1
    BY <2>1 DEF TypeOK
  <2>4. faults' \in [edit : 0..MaxEdits, crash : 0..MaxCrashes, api : 0..MaxApiErrors]
    BY <1>8, <1>a DEF Edit, TypeOK
  <2>5. tmpl' \in Template /\ cache' \in Template /\ pending' \in SUBSET Template /\ tmpl' = new
    BY <2>1, <2>2, StoreType DEF Store
  <2> QED  BY <1>8, <2>2, <2>3, <2>4, <2>5 DEF Edit, TypeOK, RunsNode
<1>9. CASE Delete
  <2>1. PICK new : new = [tmpl EXCEPT !.rv = @ + 1, !.present = FALSE] /\ Store(new)
    BY <1>9 DEF Delete
  <2>2. new \in Template /\ new.gen = tmpl.gen
    BY <2>1, <1>t, VersionType DEF Template
  <2>3. tmpl' \in Template /\ cache' \in Template /\ pending' \in SUBSET Template /\ tmpl' = new
    BY <2>1, <2>2, StoreType DEF Store
  <2> QED  BY <1>9, <2>2, <2>3 DEF Delete, TypeOK, RunsNode
<1>10. CASE Restart
  <2>1. faults' \in [edit : 0..MaxEdits, crash : 0..MaxCrashes, api : 0..MaxApiErrors]
    BY <1>10, <1>a DEF Restart, TypeOK
  <2>2. tmpl.present \in BOOLEAN
    BY DEF TypeOK, Template
  <2> QED  BY <1>10, <1>b, <2>1, <2>2 DEF Restart, TypeOK, RunsNode
<1> QED  BY <1>1, <1>2, <1>4, <1>5, <1>6, <1>7, <1>8, <1>9, <1>10 DEF Next, WorkerStep

\* The initial states.
LEMMA TypeInit == Init => TypeOK /\ RunsNode
<1> SUFFICES ASSUME Init PROVE TypeOK /\ RunsNode
  OBVIOUS
<1>1. PICK s \in Specs :
        /\ tmpl = [present |-> TRUE, rv |-> 1, gen |-> 1, spec |-> s, st |-> NoStatus]
        /\ specs = <<s>>
  BY DEF Init
<1>2. tmpl \in Template /\ tmpl.gen = 1
  BY <1>1, NoStatusType DEF Template
<1>3. specs \in Seq(Specs) /\ Len(specs) = 1
  BY <1>1
<1>4. faults \in [edit : 0..MaxEdits, crash : 0..MaxCrashes, api : 0..MaxApiErrors]
  BY TemplateAssumption DEF Init
<1> QED  BY <1>2, <1>3, <1>4 DEF Init, TypeOK, RunsNode, Idle

\* Type correctness of the template's reconciler: in particular the node that is asked is
\* one of the template's, and every generation has its spec.
THEOREM TemplateTypeCorrect == Spec => []TypeOK
<1>1. TypeOK /\ RunsNode /\ [Next]_vars => (TypeOK /\ RunsNode)'
  BY TypeStep
<1> QED  BY <1>1, TypeInit, PTL DEF Spec

-----------------------------------------------------------------------------
(***************************************************************************)
(* What a status says.  The worker is the only one who writes it, so what  *)
(* it read is what it replaces; each verdict and each entry is true of the *)
(* generation in the condition, whatever became of the spec meanwhile.     *)
(***************************************************************************)

\* ss are the specs of all generations, ts the results of all status runs.
Honest(st, ss, ts) ==
    LET gen == st.cond.gen
        selected == SelectedNodes(ss[gen])
    IN  /\ st.cond # NoCondition => st.cond.status \in Verdicts /\ gen \in 1..Len(ss)
        /\ st.cond.status = "Unknown" =>
             /\ \A n \in Keys(st.passed) : n \in selected /\ <<gen, n, "Success">> \in ts
             /\ \A n \in Keys(st.failed) : n \in selected /\ <<gen, n, st.failed[n]>> \in ts
        /\ st.cond.status = "True" =>
             /\ Keys(st.failed) = {}
             /\ \A n \in selected : <<gen, n, "Success">> \in ts
        /\ (st.cond.status = "False" /\ ss[gen].sample.kind # "invalid") =>
             Keys(st.failed) # {} /\ Keys(st.failed) \subseteq selected

\* A version is not lost: the cache has it, or its event is on its way.
CacheInv ==
    \/ cache = tmpl /\ pending = {}
    \/ tmpl \in pending /\ \A v \in pending : v = tmpl \/ v.rv < tmpl.rv

\* The spec of a generation.
OfGeneration(o) == o.gen \in 1..Len(specs) /\ o.spec = specs[o.gen]

\* The reconcile in progress.
ReadInv ==
    rec.pc # "idle" =>
        /\ rec.orig.st = tmpl.st /\ OfGeneration(rec.orig)
        /\ Honest(rec.st, specs, tested)
        /\ rec.pc = "run" => /\ rec.st.cond = [status |-> "Unknown", gen |-> rec.orig.gen]
                             /\ rec.node \in SelectedNodes(rec.orig.spec)

StatusInv ==
    /\ TypeOK /\ RunsNode
    /\ CacheInv /\ OfGeneration(tmpl)
    /\ Honest(tmpl.st, specs, tested) /\ ReadInv

\* A status stays true when there are more generations and more results.
LEMMA HonestForever ==
    ASSUME NEW st \in TemplateStatus, NEW ss \in Seq(Specs), NEW ts, Honest(st, ss, ts),
           NEW ss2 \in Seq(Specs), Len(ss) <= Len(ss2), \A g \in 1..Len(ss) : ss2[g] = ss[g],
           NEW ts2, ts \subseteq ts2
    PROVE  Honest(st, ss2, ts2)
<1>1. CASE st.cond = NoCondition
  BY <1>1 DEF Honest, NoCondition
<1>2. CASE st.cond # NoCondition
  <2>1. st.cond.gen \in 1..Len(ss) /\ st.cond.status \in Verdicts /\ Len(ss) \in Nat /\ Len(ss2) \in Nat
    BY <1>2 DEF Honest
  <2>2. st.cond.gen \in 1..Len(ss2) /\ ss2[st.cond.gen] = ss[st.cond.gen]
    BY <2>1
  <2> QED  BY <2>1, <2>2 DEF Honest
<1> QED  BY <1>1, <1>2

\* A patch against what the server has stores what was wanted, although it only sends
\* what differs, and removes a map that became empty.
LEMMA PatchIsExact ==
    ASSUME NEW orig \in TemplateStatus, NEW new \in TemplateStatus
    PROVE  MergeStatus(orig, orig, new) = new
<1>1. ASSUME NEW V, NEW o \in Map(V), NEW n \in Map(V) PROVE MergeMap(o, o, n) = n
  <2>1. CASE Keys(n) = {}
    <3>1. \A x \in NodeNames : n[x] = ""
      BY <2>1 DEF Keys
    <3>2. n = EmptyMap
      BY <3>1 DEF Map, EmptyMap
    <3> QED  BY <2>1, <3>2 DEF MergeMap, Map
  <2>2. CASE Keys(n) # {}
    BY <2>2 DEF MergeMap, Map
  <2> QED  BY <2>1, <2>2
<1>2. /\ MergeMap(orig.failed, orig.failed, new.failed) = new.failed
      /\ MergeMap(orig.passed, orig.passed, new.passed) = new.passed
  BY <1>1 DEF TemplateStatus
<1>3. new = [cond |-> new.cond, failed |-> new.failed, passed |-> new.passed]
  BY DEF TemplateStatus
<1> QED  BY <1>2, <1>3 DEF MergeStatus

\* Nothing is said by a status without entries and verdict.
LEMMA NoKeysInEmpty == Keys(EmptyMap) = {}
  BY DEF Keys, EmptyMap

\* A round starts without entries or goes on with its own.
LEMMA StartIsHonest ==
    ASSUME TypeOK, NEW o \in Template, OfGeneration(o), Honest(o.st, specs, tested),
           ~(ValidationFinished(o) /\ ~NeedsNewValidation(o))
    PROVE  /\ Honest(StartOfRound(o), specs, tested)
           /\ StartOfRound(o).cond = [status |-> "Unknown", gen |-> o.gen]
<1>1. CASE NeedsNewValidation(o)
  <2>1. PICK st : st = StartOfRound(o)
    OBVIOUS
  <2>2. /\ st.cond = [status |-> "Unknown", gen |-> o.gen]
        /\ st.passed = EmptyMap /\ st.failed = EmptyMap
    BY <1>1, <2>1 DEF StartOfRound, NoStatus
  <2>3. Honest(st, specs, tested)
    BY <2>2, NoKeysInEmpty DEF Honest, OfGeneration, Verdicts
  <2> QED  BY <2>1, <2>2, <2>3
<1>2. CASE ~NeedsNewValidation(o)
  <2>1. StartOfRound(o) = o.st
    BY <1>2 DEF StartOfRound
  <2>2. o.st.cond # NoCondition /\ o.st.cond.gen = o.gen /\ o.st.cond.status \notin {"True", "False"}
    BY <1>2 DEF NeedsNewValidation, ValidationFinished
  <2>3. o.st.cond \in Condition /\ o.st.cond.status = "Unknown"
    BY <2>2 DEF Honest, Verdicts, Template, TemplateStatus
  <2> QED  BY <2>1, <2>2, <2>3 DEF Condition
<1> QED  BY <1>1, <1>2

\* A round that ends: every selected node has a result of this round.
LEMMA FinalIsHonest ==
    ASSUME TypeOK, NEW o \in Template, OfGeneration(o), Honest(o.st, specs, tested),
           ~(ValidationFinished(o) /\ ~NeedsNewValidation(o)), Remaining(o) = {}
    PROVE  Honest(FinalStatus(o), specs, tested)
<1>1. PICK st \in TemplateStatus : st = StartOfRound(o)
  BY StartType
<1>2. Honest(st, specs, tested) /\ st.cond = [status |-> "Unknown", gen |-> o.gen]
  BY <1>1, StartIsHonest
<1>3. PICK new : new = FinalStatus(o)
  OBVIOUS
<1>4. /\ new.failed = st.failed
      /\ new.cond = [status |-> IF Keys(st.failed) = {} THEN "True" ELSE "False", gen |-> o.gen]
  BY <1>1, <1>3 DEF FinalStatus, TemplateStatus
<1>5. /\ \A n \in Keys(st.passed) : <<o.gen, n, "Success">> \in tested
      /\ Keys(st.failed) \subseteq SelectedNodes(specs[o.gen])
  <2>1. st.cond.status = "Unknown" /\ st.cond.gen = o.gen
    BY <1>2
  <2>2. /\ \A n \in Keys(st.passed) : <<st.cond.gen, n, "Success">> \in tested
        /\ \A n \in Keys(st.failed) : n \in SelectedNodes(specs[st.cond.gen])
    BY <1>2, <2>1 DEF Honest
  <2> QED  BY <2>1, <2>2
<1>6. SelectedNodes(specs[o.gen]) \subseteq Keys(st.failed) \cup Keys(st.passed)
  BY <1>1 DEF Remaining, OfGeneration
<1>7. o.gen \in 1..Len(specs)
  BY DEF OfGeneration
<1>8. CASE Keys(st.failed) = {}
  <2>1. new.cond.status = "True" /\ new.cond.gen = o.gen
    BY <1>4, <1>8
  <2> QED  BY <1>3, <1>4, <1>5, <1>6, <1>7, <1>8, <2>1 DEF Honest, Verdicts
<1>9. CASE Keys(st.failed) # {}
  <2>1. new.cond.status = "False" /\ new.cond.gen = o.gen
    BY <1>4, <1>9
  <2> QED  BY <1>3, <1>4, <1>5, <1>7, <1>9, <2>1 DEF Honest, Verdicts
<1> QED  BY <1>8, <1>9

\* A reconcile that asks no node.
LEMMA WithoutRunIsHonest ==
    ASSUME TypeOK, NEW o \in Template, OfGeneration(o), Honest(o.st, specs, tested), ~NeedsRun(o)
    PROVE  Honest(StatusWithoutRun(o), specs, tested)
<1>1. CASE (ValidationFinished(o) /\ ~NeedsNewValidation(o)) \/ o.spec.nodes = {}
  BY <1>1 DEF StatusWithoutRun
<1>2. CASE /\ ~(ValidationFinished(o) /\ ~NeedsNewValidation(o)) /\ o.spec.nodes # {}
           /\ o.spec.sample.kind = "invalid"
  <2>1. PICK new : /\ new = StatusWithoutRun(o)
                   /\ new = [o.st EXCEPT !.cond = [status |-> "False", gen |-> o.gen]]
    BY <1>2 DEF StatusWithoutRun
  <2>2. new.cond = [status |-> "False", gen |-> o.gen]
    BY <2>1 DEF Template, TemplateStatus
  <2>3. Honest(new, specs, tested)
    BY <1>2, <2>2 DEF Honest, OfGeneration, Verdicts
  <2> QED  BY <2>1, <2>3
<1>3. CASE /\ ~(ValidationFinished(o) /\ ~NeedsNewValidation(o)) /\ o.spec.nodes # {}
           /\ o.spec.sample.kind # "invalid"
  <2>1. Honest(NoStatus, specs, tested)
    BY DEF Honest, NoStatus, NoCondition
  <2>2. Honest(FinalStatus(o), specs, tested)
    BY <1>3, FinalIsHonest DEF NeedsRun
  <2> QED  BY <1>3, <2>1, <2>2 DEF StatusWithoutRun
<1> QED  BY <1>1, <1>2, <1>3

\* The result of one more node.
LEMMA RecordIsHonest ==
    ASSUME StatusInv, NEW outcome \in Messages \cup {"Success"}, Record(outcome)
    PROVE  Honest(rec'.st, specs, tested')
<1>1. /\ rec.pc = "run" /\ rec \in Request /\ rec.node \in NodeNames
      /\ rec.st \in TemplateStatus
  BY RequestForm DEF Record, StatusInv, RunsNode, Request
<1>2. PICK gen : gen = rec.orig.gen
  OBVIOUS
<1>3. /\ rec.st.cond.status = "Unknown" /\ rec.st.cond.gen = gen /\ gen \in 1..Len(specs)
      /\ rec.node \in SelectedNodes(specs[gen]) /\ Honest(rec.st, specs, tested)
  BY <1>1, <1>2 DEF StatusInv, ReadInv, OfGeneration
<1>4. /\ \A n \in Keys(rec.st.passed) :
           n \in SelectedNodes(specs[gen]) /\ <<gen, n, "Success">> \in tested
      /\ \A n \in Keys(rec.st.failed) :
           n \in SelectedNodes(specs[gen]) /\ <<gen, n, rec.st.failed[n]>> \in tested
  BY <1>3 DEF Honest
<1>5. PICK new :
        /\ new = IF outcome = "Success" THEN [rec.st EXCEPT !.passed[rec.node] = outcome]
                                        ELSE [rec.st EXCEPT !.failed[rec.node] = outcome]
        /\ rec'.st = new
  BY DEF Record, Patching
<1>6. /\ tested \subseteq tested' /\ <<gen, rec.node, outcome>> \in tested'
      /\ new.cond = rec.st.cond
  BY <1>1, <1>2, <1>5 DEF Record, TemplateStatus
<1>7. \A n \in Keys(new.passed) : n \in SelectedNodes(specs[gen]) /\ <<gen, n, "Success">> \in tested'
  <2>1. CASE outcome = "Success"
    <3>1. new.passed = [rec.st.passed EXCEPT ![rec.node] = "Success"]
      BY <1>1, <1>5, <2>1 DEF TemplateStatus
    <3>2. Keys(new.passed) \subseteq Keys(rec.st.passed) \cup {rec.node}
      BY <1>1, <3>1 DEF Keys, TemplateStatus, Map
    <3> QED  BY <1>3, <1>4, <1>6, <2>1, <3>2
  <2>2. CASE outcome # "Success"
    <3>1. new.passed = rec.st.passed
      BY <1>1, <1>5, <2>2 DEF TemplateStatus
    <3> QED  BY <1>4, <1>6, <3>1
  <2> QED  BY <2>1, <2>2
<1>8. \A n \in Keys(new.failed) :
         n \in SelectedNodes(specs[gen]) /\ <<gen, n, new.failed[n]>> \in tested'
  <2>1. CASE outcome = "Success"
    <3>1. new.failed = rec.st.failed
      BY <1>1, <1>5, <2>1 DEF TemplateStatus
    <3> QED  BY <1>4, <1>6, <3>1
  <2>2. CASE outcome # "Success"
    <3>1. new.failed = [rec.st.failed EXCEPT ![rec.node] = outcome]
      BY <1>1, <1>5, <2>2 DEF TemplateStatus
    <3>2. /\ new.failed[rec.node] = outcome
          /\ \A n \in Keys(new.failed) \ {rec.node} :
               n \in Keys(rec.st.failed) /\ new.failed[n] = rec.st.failed[n]
      BY <1>1, <3>1 DEF Keys, TemplateStatus, Map
    <3> QED  BY <1>3, <1>4, <1>6, <3>2
  <2> QED  BY <2>1, <2>2
<1>9. new.cond.status = "Unknown" /\ new.cond.gen = gen
  BY <1>3, <1>6
<1>10. Honest(new, specs, tested')
  BY <1>3, <1>7, <1>8, <1>9 DEF Honest, Verdicts
<1> QED  BY <1>5, <1>10

\* Storing keeps CacheInv.
LEMMA StoreKeepsCache ==
    ASSUME StatusInv, NEW new, new.rv = tmpl.rv + 1, Store(new)
    PROVE  CacheInv'
<1>1. tmpl' = new /\ pending' = pending \cup {new} /\ tmpl.rv \in Nat
  BY DEF Store, StatusInv, TypeOK, Template
<1>2. ASSUME NEW v \in pending PROVE v.rv < new.rv
  <2>1. v \in Template /\ v.rv \in Nat
    BY <1>2 DEF StatusInv, TypeOK, Template
  <2> QED  BY <1>1, <1>2, <2>1 DEF StatusInv, CacheInv
<1> QED  BY <1>1, <1>2 DEF CacheInv

\* The patch replaces what was read by what was found.
LEMMA PatchStored ==
    ASSUME StatusInv, rec.pc = "patch", StorePatch
    PROVE  /\ CacheInv' /\ tmpl'.st = rec.st
           /\ tmpl'.gen = tmpl.gen /\ tmpl'.spec = tmpl.spec
<1>1. /\ tmpl \in Template /\ tmpl.st \in TemplateStatus /\ rec.st \in TemplateStatus
      /\ rec.orig.st = tmpl.st
  BY RequestForm DEF StatusInv, TypeOK, Template, Request, ReadInv
<1>2. MergeStatus(tmpl.st, rec.orig.st, rec.st) = rec.st
  BY <1>1, PatchIsExact
<1>3. CASE rec.st = tmpl.st
  <2>1. UNCHANGED <<tmpl, cache, pending>>
    BY <1>2, <1>3 DEF StorePatch
  <2> QED  BY <1>3, <2>1 DEF StatusInv, CacheInv
<1>4. CASE rec.st # tmpl.st
  <2>1. PICK new : new = [tmpl EXCEPT !.rv = @ + 1, !.st = rec.st] /\ Store(new)
    BY <1>2, <1>4 DEF StorePatch
  <2>2. new.rv = tmpl.rv + 1 /\ new.st = rec.st /\ new.gen = tmpl.gen /\ new.spec = tmpl.spec
    BY <1>1, <2>1 DEF Template
  <2> QED  BY <2>1, <2>2, StoreKeepsCache DEF Store
<1> QED  BY <1>3, <1>4

\* One step, if no reconcile reads an outdated template.
LEMMA StatusStep == ASSUME CacheLags = FALSE, StatusInv, [Next]_vars PROVE StatusInv'
<1>t. /\ TypeOK /\ RunsNode /\ TypeOK' /\ RunsNode'
      /\ tmpl \in Template /\ tmpl.st \in TemplateStatus /\ specs \in Seq(Specs)
  BY TypeStep DEF StatusInv, TypeOK, Template
<1>b. Idle.pc = "idle"
  BY DEF Idle
<1>i. ASSUME UNCHANGED <<tmpl, cache, pending, specs>>, tested \subseteq tested'
      PROVE  CacheInv' /\ OfGeneration(tmpl)' /\ Honest(tmpl.st, specs, tested)'
  <2>1. CacheInv' /\ OfGeneration(tmpl)'
    BY <1>i DEF StatusInv, CacheInv, OfGeneration
  <2>2. Honest(tmpl.st, specs, tested')
    BY <1>i, <1>t, HonestForever DEF StatusInv
  <2> QED  BY <1>i, <2>1, <2>2
<1>1. CASE UNCHANGED vars
  BY <1>1, <1>t DEF vars, StatusInv, CacheInv, OfGeneration, ReadInv
<1>2. CASE Reconcile
  <2>1. cache = tmpl /\ UNCHANGED <<tmpl, cache, pending, specs, tested>>
    BY <1>2 DEF Reconcile, StatusInv, CacheInv
  <2>2. Honest(tmpl.st, specs, tested) /\ OfGeneration(tmpl)
    BY DEF StatusInv
  <2>3. ReadInv'
    <3>1. CASE rec' = Idle
      BY <1>b, <3>1 DEF ReadInv
    <3>2. CASE ~NeedsRun(cache) /\ rec' = Patching(cache, StatusWithoutRun(cache), FALSE)
      <4>1. Honest(StatusWithoutRun(tmpl), specs, tested)
        BY <1>t, <2>1, <2>2, <3>2, WithoutRunIsHonest
      <4>2. rec'.pc = "patch" /\ rec'.orig = tmpl /\ rec'.st = StatusWithoutRun(tmpl)
        BY <2>1, <3>2 DEF Patching
      <4> QED  BY <2>1, <2>2, <4>1, <4>2 DEF ReadInv, OfGeneration
    <3>3. CASE /\ NeedsRun(cache)
               /\ rec' = [pc |-> "run", orig |-> cache, st |-> StartOfRound(cache),
                          node |-> Min(Remaining(cache)), requeue |-> TRUE]
      <4>1. /\ Honest(StartOfRound(tmpl), specs, tested)
            /\ StartOfRound(tmpl).cond = [status |-> "Unknown", gen |-> tmpl.gen]
        BY <1>t, <2>1, <2>2, <3>3, StartIsHonest DEF NeedsRun
      <4>2. Min(Remaining(tmpl)) \in SelectedNodes(tmpl.spec)
        BY <1>t, <2>1, <3>3, AskedNode DEF NeedsRun, Remaining
      <4>3. /\ rec'.pc = "run" /\ rec'.orig = tmpl /\ rec'.st = StartOfRound(tmpl)
            /\ rec'.node = Min(Remaining(tmpl))
        BY <2>1, <3>3
      <4> QED  BY <2>1, <2>2, <4>1, <4>2, <4>3 DEF ReadInv, OfGeneration
    <3> QED  BY <1>2, <3>1, <3>2, <3>3 DEF Reconcile
  <2> QED  BY <1>i, <1>t, <2>1, <2>3 DEF StatusInv
<1>3. ASSUME NEW outcome \in Messages \cup {"Success"}, Record(outcome) PROVE StatusInv'
  <2>1. Honest(rec'.st, specs, tested')
    BY <1>3, RecordIsHonest
  <2>2. /\ UNCHANGED <<tmpl, cache, pending, specs>> /\ tested \subseteq tested'
        /\ rec.pc = "run" /\ rec'.pc = "patch" /\ rec'.orig = rec.orig
    BY <1>3 DEF Record, Patching
  <2>3. ReadInv'
    BY <2>1, <2>2 DEF StatusInv, ReadInv, OfGeneration
  <2> QED  BY <1>i, <1>t, <2>2, <2>3 DEF StatusInv
<1>4. CASE ParamsError \/ RunFenceStatus
  BY <1>3, <1>4 DEF ParamsError, RunFenceStatus, Outcomes, Messages
<1>5. ASSUME rec.pc = "patch", rec' = Idle, UNCHANGED <<specs, tested>>,
             StorePatch \/ UNCHANGED <<tmpl, cache, pending>>
      PROVE  StatusInv'
  <2>1. ReadInv'
    BY <1>5, <1>b DEF ReadInv
  <2>2. CASE StorePatch
    <3>1. /\ CacheInv' /\ tmpl'.st = rec.st
          /\ tmpl'.gen = tmpl.gen /\ tmpl'.spec = tmpl.spec
      BY <1>5, <2>2, PatchStored
    <3>2. Honest(rec.st, specs, tested)
      BY <1>5 DEF StatusInv, ReadInv
    <3>3. OfGeneration(tmpl)'
      BY <1>5, <3>1 DEF StatusInv, OfGeneration
    <3> QED  BY <1>5, <1>t, <2>1, <3>1, <3>2, <3>3 DEF StatusInv
  <2>3. CASE UNCHANGED <<tmpl, cache, pending>>
    BY <1>5, <1>i, <1>t, <2>1, <2>3 DEF StatusInv
  <2> QED  BY <1>5, <2>2, <2>3
<1>6. CASE PatchOk \/ PatchError
  BY <1>5, <1>6 DEF PatchOk, PatchError
<1>7. CASE Deliver
  <2>1. PICK v \in pending : cache' = v /\ pending' = {w \in pending : w.rv > v.rv}
    BY <1>7 DEF Deliver
  <2>2. UNCHANGED <<tmpl, rec, specs, tested>>
    BY <1>7 DEF Deliver
  <2>3. \A w \in pending : w.rv \in Nat
    BY <1>t DEF TypeOK, Template
  <2>4. tmpl \in pending /\ \A w \in pending : w = tmpl \/ w.rv < tmpl.rv
    BY <2>1 DEF StatusInv, CacheInv
  <2>5. CacheInv'
    <3>1. CASE v = tmpl
      <4>1. ASSUME NEW w \in pending PROVE ~(w.rv > v.rv)
        BY <2>3, <2>4, <3>1, <4>1
      <4> QED  BY <2>1, <2>2, <3>1, <4>1 DEF CacheInv
    <3>2. CASE v # tmpl
      <4>1. tmpl.rv > v.rv
        BY <2>1, <2>3, <2>4, <3>2
      <4> QED  BY <2>1, <2>2, <2>4, <4>1 DEF CacheInv
    <3> QED  BY <3>1, <3>2
  <2>6. ReadInv' /\ OfGeneration(tmpl)' /\ Honest(tmpl.st, specs, tested)'
    BY <2>2 DEF StatusInv, ReadInv, OfGeneration
  <2> QED  BY <1>t, <2>5, <2>6 DEF StatusInv
<1>8. CASE Edit
  <2>s. PICK s \in Specs : /\ Store([tmpl EXCEPT !.rv = @ + 1, !.gen = @ + 1, !.spec = s])
                           /\ specs' = Append(specs, s)
    BY <1>8 DEF Edit
  <2>1. PICK new : /\ new = [tmpl EXCEPT !.rv = @ + 1, !.gen = @ + 1, !.spec = s]
                   /\ Store(new) /\ specs' = Append(specs, s)
    BY <2>s
  <2>2. /\ new.rv = tmpl.rv + 1 /\ new.gen = tmpl.gen + 1 /\ new.spec = s /\ new.st = tmpl.st
        /\ tmpl' = new /\ UNCHANGED <<rec, tested>>
    BY <1>8, <1>t, <2>1 DEF Template, Store, Edit
  <2>3. /\ specs' \in Seq(Specs) /\ Len(specs) = tmpl.gen /\ Len(specs') = tmpl.gen + 1
        /\ \A g \in 1..Len(specs) : specs'[g] = specs[g]
        /\ specs'[tmpl.gen + 1] = s /\ tmpl.gen \in Nat
    BY <1>t, <2>1 DEF TypeOK, Template
  <2>4. CacheInv'
    BY <2>1, <2>2, StoreKeepsCache
  <2>5. ASSUME NEW o, OfGeneration(o) PROVE o.gen \in 1..Len(specs') /\ o.spec = specs'[o.gen]
    BY <2>3, <2>5 DEF OfGeneration
  <2>6. ASSUME NEW st \in TemplateStatus, Honest(st, specs, tested) PROVE Honest(st, specs', tested)
    BY <1>t, <2>3, <2>6, HonestForever
  <2>7. OfGeneration(tmpl)'
    BY <2>2, <2>3 DEF OfGeneration
  <2>8. Honest(tmpl'.st, specs', tested')
    BY <1>t, <2>2, <2>6 DEF StatusInv
  <2>9. ReadInv'
    <3>1. CASE rec.pc = "idle"
      BY <2>2, <3>1 DEF ReadInv
    <3>2. CASE rec.pc # "idle"
      <4>1. rec.st \in TemplateStatus
        BY <1>t, <3>2, RequestForm DEF Request
      <4>2. /\ rec.orig.st = tmpl.st /\ OfGeneration(rec.orig) /\ Honest(rec.st, specs, tested)
            /\ rec.pc = "run" => /\ rec.st.cond = [status |-> "Unknown", gen |-> rec.orig.gen]
                                 /\ rec.node \in SelectedNodes(rec.orig.spec)
        BY <3>2 DEF StatusInv, ReadInv
      <4>3. Honest(rec.st, specs', tested)
        BY <2>6, <4>1, <4>2
      <4>4. rec.orig.gen \in 1..Len(specs') /\ rec.orig.spec = specs'[rec.orig.gen]
        BY <2>5, <4>2
      <4> QED  BY <2>2, <4>2, <4>3, <4>4 DEF ReadInv, OfGeneration
    <3> QED  BY <3>1, <3>2
  <2> QED  BY <1>t, <2>4, <2>7, <2>8, <2>9 DEF StatusInv
<1>9. CASE Delete
  <2>1. PICK new : new = [tmpl EXCEPT !.rv = @ + 1, !.present = FALSE] /\ Store(new)
    BY <1>9 DEF Delete
  <2>2. /\ new.rv = tmpl.rv + 1 /\ new.gen = tmpl.gen /\ new.spec = tmpl.spec /\ new.st = tmpl.st
        /\ tmpl' = new /\ UNCHANGED <<rec, specs, tested>>
    BY <1>9, <1>t, <2>1 DEF Template, Store, Delete
  <2>3. CacheInv'
    BY <2>1, <2>2, StoreKeepsCache
  <2>4. ReadInv' /\ OfGeneration(tmpl)' /\ Honest(tmpl.st, specs, tested)'
    BY <2>2 DEF StatusInv, ReadInv, OfGeneration
  <2> QED  BY <1>t, <2>3, <2>4 DEF StatusInv
<1>10. CASE Restart
  <2>1. cache' = tmpl /\ pending' = {} /\ rec' = Idle /\ UNCHANGED <<tmpl, specs, tested>>
    BY <1>10 DEF Restart
  <2>2. CacheInv' /\ ReadInv' /\ OfGeneration(tmpl)' /\ Honest(tmpl.st, specs, tested)'
    BY <1>b, <2>1 DEF StatusInv, CacheInv, ReadInv, OfGeneration
  <2> QED  BY <1>t, <2>2 DEF StatusInv
<1> QED  BY <1>1, <1>2, <1>4, <1>6, <1>7, <1>8, <1>9, <1>10 DEF Next, WorkerStep

\* The initial states.
LEMMA StatusInit == Init => StatusInv
<1> SUFFICES ASSUME Init PROVE StatusInv
  OBVIOUS
<1>1. PICK s \in Specs :
        /\ tmpl = [present |-> TRUE, rv |-> 1, gen |-> 1, spec |-> s, st |-> NoStatus]
        /\ specs = <<s>>
  BY DEF Init
<1>2. OfGeneration(tmpl)
  BY <1>1 DEF OfGeneration
<1>3. Honest(tmpl.st, specs, tested)
  BY <1>1 DEF Honest, NoStatus, NoCondition
<1>4. CacheInv /\ ReadInv
  BY DEF Init, CacheInv, ReadInv, Idle
<1> QED  BY <1>2, <1>3, <1>4, TypeInit DEF StatusInv

\* The invariant of the specification.
LEMMA StatusInvAlways == ASSUME CacheLags = FALSE PROVE Spec => []StatusInv
<1>1. StatusInv /\ [Next]_vars => StatusInv'
  BY StatusStep
<1> QED  BY <1>1, StatusInit, PTL DEF Spec

\* A template's verdict of success stands for a sample of the nodes of the generation it
\* was given for, as large as that generation's spec asks for, which answered ON to status
\* runs with that generation's parameters (VerdictSound; validateFenceStatusForTemplate
\* and calculateSampleSize).
THEOREM VerdictIsSound == ASSUME CacheLags = FALSE PROVE Spec => []VerdictSound
<1>1. StatusInv => VerdictSound
  <2> SUFFICES ASSUME StatusInv, tmpl.st.cond.status = "True", NEW g, g = tmpl.st.cond.gen
               PROVE  Covers({n \in specs[g].nodes : <<g, n, "Success">> \in tested}, specs[g])
    BY DEF VerdictSound
  <2>1. Honest(tmpl.st, specs, tested) /\ tmpl.st.cond # NoCondition
    BY DEF StatusInv, NoCondition
  <2>2. g \in 1..Len(specs) /\ \A n \in SelectedNodes(specs[g]) : <<g, n, "Success">> \in tested
    BY <2>1 DEF Honest
  <2>3. specs[g] \in Specs
    BY <2>2 DEF StatusInv, TypeOK
  <2>4. SelectedNodes(specs[g]) \subseteq {n \in specs[g].nodes : <<g, n, "Success">> \in tested}
    BY <2>2 DEF SelectedNodes
  <2> QED  BY <2>3, <2>4, SelectionCovers
<1> QED  BY <1>1, StatusInvAlways, PTL

\* What is listed while a round is in progress was found in that round (EntriesOfRound).
THEOREM EntriesAreOfRound == ASSUME CacheLags = FALSE PROVE Spec => []EntriesOfRound
<1>1. StatusInv => EntriesOfRound
  BY DEF StatusInv, Honest, EntriesOfRound
<1> QED  BY <1>1, StatusInvAlways, PTL

\* The failures that are listed belong to the verdict beside them (VerdictMatchesReport).
THEOREM ReportFitsVerdict == ASSUME CacheLags = FALSE PROVE Spec => []VerdictMatchesReport
<1>1. StatusInv => VerdictMatchesReport
  BY DEF StatusInv, Honest, VerdictMatchesReport
<1> QED  BY <1>1, StatusInvAlways, PTL

=============================================================================
