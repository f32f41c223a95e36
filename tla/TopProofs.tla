----------------------------- MODULE TopProofs -----------------------------
(* Theorems about Top, for any nodes, pods, containers, flags and number of
   disturbances. *)
EXTENDS Top, TLAPS

-----------------------------------------------------------------------------
(* Types. *)

LEMMA TypeOKInit == Init => TypeOK
<1> SUFFICES ASSUME Init PROVE TypeOK
  OBVIOUS
<1>1. scraped.pods \subseteq Sample /\ scraped.nodes \subseteq Nodes
  BY DEF Init, Fresh
<1>2. disturbances \in 0..MaxDisturbances
  BY BoundAssumption DEF Init
<1> QED
  BY <1>1, <1>2 DEF Init, TypeOK

LEMMA DisturbTypes ==
  TypeOK /\ Disturb => disturbances' \in 0..MaxDisturbances /\ quiet' = FALSE
  BY BoundAssumption DEF TypeOK, Disturb

LEMMA ClusterKeepsTypes == TypeOK /\ (Cluster \/ Ticks) => TypeOK'
<1> SUFFICES ASSUME TypeOK, Cluster \/ Ticks PROVE TypeOK'
  OBVIOUS
<1> USE DisturbTypes DEF CollectorSleeps, cluster, nodeVars, podVars
<1>1. CASE \E p \in Pods : PodCreated(p) \/ PodDeleted(p)
  BY <1>1 DEF TypeOK, PodCreated, PodDeleted
<1>2. CASE \E p \in Pods, n \in Nodes : PodScheduled(p, n)
  BY <1>2 DEF TypeOK, PodScheduled
<1>3. CASE \E n \in Nodes : NodeChanges(n)
  BY <1>3 DEF TypeOK, NodeChanges
<1>4. CASE Scrape
  BY <1>4 DEF TypeOK, Scrape, Fresh
<1>5. CASE Ticks
  BY <1>5 DEF TypeOK, Ticks
<1> QED
  BY <1>1, <1>2, <1>3, <1>4, <1>5 DEF Cluster

LEMMA CollectNodesKeepsTypes == TypeOK /\ (BeginTick \/ CollectNodes) => TypeOK'
<1> SUFFICES ASSUME TypeOK, BeginTick \/ CollectNodes PROVE TypeOK'
  OBVIOUS
<1> USE DEF Reads, cluster, nodeVars, podVars
<1>1. CASE BeginTick
  BY <1>1 DEF TypeOK, BeginTick
<1>2. CASE ListNodeMetrics
  BY <1>2 DEF TypeOK, ListNodeMetrics
<1>3. CASE ListNodes
  BY <1>3 DEF TypeOK, ListNodes
<1>4. CASE NodesStored
  BY <1>4 DEF TypeOK, NodesStored
<1>5. ASSUME NEW n \in Nodes, NEW share \in {"finite", "infinite", "NaN"}, StoreNode(n, share)
      PROVE  TypeOK'
  BY <1>5 DEF TypeOK, StoreNode
<1>6. ASSUME NEW n \in Nodes, StoreNodeRefused(n) PROVE TypeOK'
  BY <1>6 DEF TypeOK, StoreNodeRefused, GiveUp, Collecting
<1> QED
  BY <1>1, <1>2, <1>3, <1>4, <1>5, <1>6 DEF CollectNodes

LEMMA VisitsTypes == opt \in Options => Visits \subseteq Visit
<1> SUFFICES ASSUME opt \in Options PROVE Visits \subseteq Visit
  OBVIOUS
<1>1. opt \in Option /\ Len(opt.named) \in Nat /\ DOMAIN opt.named = 1..Len(opt.named)
  BY OptionsAssumption DEF Option
<1>2. 0..Len(opt.named) \subseteq Nth
  BY DEF Nth
<1>3. NamedVisits \subseteq Visit
  <2> SUFFICES ASSUME NEW i \in DOMAIN opt.named
               PROVE  i \in Nth /\ opt.named[i] \in Namespaces
    BY DEF NamedVisits, Visit
  <2> QED
    BY <1>1, <1>2 DEF Option
<1>4. [nth : {0}, namespace : Namespaces \ opt.ignored] \subseteq Visit
  <2>1. 0 \in Nth
    BY <1>1, <1>2
  <2> QED
    BY <2>1 DEF Visit
<1> QED
  BY <1>3, <1>4 DEF Visits

LEMMA CollectPodsKeepsTypes == TypeOK /\ CollectPods => TypeOK'
<1> SUFFICES ASSUME TypeOK, CollectPods PROVE TypeOK'
  OBVIOUS
<1> USE DEF Reads, cluster, nodeVars, podVars
<1>1. CASE ListNamespaces
  <2>1. Visits \subseteq Visit
    BY VisitsTypes DEF TypeOK
  <2> QED
    BY <1>1, <2>1 DEF TypeOK, ListNamespaces
<1>2. CASE PodsStored \/ NamespaceStored \/ PodStored
  BY <1>2 DEF TypeOK, PodsStored, NamespaceStored, PodStored
<1>3. CASE GetNode
  BY <1>3 DEF TypeOK, GetNode
<1>4. CASE NodeGone
  BY <1>4 DEF TypeOK, NodeGone, GiveUp, Collecting
<1>5. ASSUME NEW v \in namespacesToCollect, ListPodMetrics(v) PROVE TypeOK'
  BY <1>5 DEF TypeOK, ListPodMetrics
<1>6. ASSUME NEW s \in podList, GetPod(s) PROVE TypeOK'
  BY <1>6 DEF TypeOK, GetPod
<1>7. ASSUME NEW s \in podList, PodUnscheduled(s) PROVE TypeOK'
  BY <1>7 DEF TypeOK, PodUnscheduled
<1>8. ASSUME NEW s \in podList, PodGone(s) PROVE TypeOK'
  BY <1>8 DEF TypeOK, PodGone, GiveUp, Collecting
<1>9. ASSUME NEW c \in Containers, StoreContainer(c) PROVE TypeOK'
  <2>1. RowOf(c) \in Row
    BY <1>9 DEF RowOf, Row, Visit, Sample, TypeOK, StoreContainer
  <2> QED
    BY <1>9, <2>1 DEF TypeOK, StoreContainer
<1> QED
  BY <1>1, <1>2, <1>3, <1>4, <1>5, <1>6, <1>7, <1>8, <1>9 DEF CollectPods

LEMMA FailuresKeepTypes == TypeOK /\ (CallFails \/ Losses) => TypeOK'
<1> SUFFICES ASSUME TypeOK, CallFails \/ Losses PROVE TypeOK'
  OBVIOUS
<1> USE DisturbTypes DEF cluster, nodeVars, podVars
<1>1. CASE CallFails
  BY <1>1 DEF TypeOK, CallFails, GiveUp, Collecting
<1>2. ASSUME NEW n \in Nodes, StoreNodeLost(n) PROVE TypeOK'
  BY <1>2 DEF TypeOK, StoreNodeLost
<1>3. ASSUME NEW c \in Containers, StoreContainerLost(c) PROVE TypeOK'
  BY <1>3 DEF TypeOK, StoreContainerLost
<1> QED
  BY <1>1, <1>2, <1>3 DEF Losses

LEMMA TypeOKNext == TypeOK /\ [Next]_vars => TypeOK'
<1>1. TypeOK /\ UNCHANGED vars => TypeOK'
  BY DEF TypeOK, vars, cluster, nodeVars, podVars
<1> QED
  BY <1>1, ClusterKeepsTypes, CollectNodesKeepsTypes, CollectPodsKeepsTypes,
     FailuresKeepTypes DEF Next, Collect

(* The type invariant holds in every state of the collector. *)
THEOREM TypeCorrect == Spec => []TypeOK
  BY TypeOKInit, TypeOKNext, PTL DEF Spec

-----------------------------------------------------------------------------
(* Nodes come first. *)

Stored(n) == \E r \in nodeRows : r.node = n

(* Until the nodes are stored there is nothing about pods; a node that is due is in the
   list or stored, and stored once the collector is at the pods. *)
NodesFirst ==
  /\ pc \in {"nodeMetrics", "nodes", "storeNodes", "namespaces"} => rows = {}
  /\ pc \notin {"nodes", "storeNodes"} => nodeList = {}
  /\ pc # "wait" => err = "none"
  /\ err = "nodes" => rows = {}
  /\ pc \in {"nodes", "storeNodes"} => \A n \in nodesDue : n \in nodeList \/ Stored(n)
  /\ opt.nodes /\ (rows # {} \/ pc \in {"namespaces", "podMetrics", "pod", "node", "store"})
       => \A n \in nodesDue : Stored(n)

LEMMA NodesFirstNext == TypeOK /\ NodesFirst /\ [Next]_vars => NodesFirst'
<1> SUFFICES ASSUME TypeOK, NodesFirst, [Next]_vars PROVE NodesFirst'
  OBVIOUS
<1> USE DEF NodesFirst, Stored, CollectorSleeps, Reads, cluster, nodeVars, podVars
<1>1. CASE Cluster \/ Ticks
  BY <1>1 DEF Cluster, PodCreated, PodDeleted, PodScheduled, NodeChanges, Scrape, Ticks
<1>2. CASE BeginTick
  BY <1>2 DEF BeginTick
<1>3. CASE CollectNodes
  <2>1. CASE ListNodeMetrics \/ ListNodes \/ NodesStored
    BY <2>1 DEF ListNodeMetrics, ListNodes, NodesStored
  <2>2. ASSUME NEW n \in Nodes, NEW share \in {"finite", "infinite", "NaN"}, StoreNode(n, share)
        PROVE  NodesFirst'
    <3>1. Stored(n)'
      <4>1. [node |-> n, share |-> share] \in nodeRows'
        BY <2>2 DEF StoreNode
      <4> QED
        BY <4>1
    <3>2. \A m \in nodesDue : Stored(m) => Stored(m)'
      BY <2>2 DEF StoreNode
    <3> QED
      BY <2>2, <3>1, <3>2 DEF StoreNode
  <2>3. ASSUME NEW n \in Nodes, StoreNodeRefused(n) PROVE NodesFirst'
    BY <2>3 DEF StoreNodeRefused, GiveUp, Collecting
  <2> QED
    BY <1>3, <2>1, <2>2, <2>3 DEF CollectNodes
<1>4. CASE CollectPods
  BY <1>4 DEF CollectPods, ListNamespaces, PodsStored, NamespaceStored, GetNode, NodeGone,
              PodStored, ListPodMetrics, GetPod, PodUnscheduled, PodGone, StoreContainer,
              GiveUp, Collecting
<1>5. CASE CallFails
  BY <1>5 DEF CallFails, GiveUp, Collecting
<1>6. CASE Losses
  BY <1>6 DEF Losses, StoreNodeLost, StoreContainerLost
<1>7. CASE UNCHANGED vars
  BY <1>7 DEF vars
<1> QED
  BY <1>1, <1>2, <1>3, <1>4, <1>5, <1>6, <1>7 DEF Next, Collect

(* With --nodes, a tick stores rows about pods only after a row for each node of its
   list, but for the rows a CSV file has lost. *)
THEOREM PodRowsNeedNodes == Spec => []PodsNeedNodes
<1>1. Init => NodesFirst
  BY DEF Init, NodesFirst, Stored
<1>2. TypeOK /\ NodesFirst => PodsNeedNodes
  BY DEF TypeOK, NodesFirst, Stored, PodsNeedNodes
<1> QED
  BY <1>1, <1>2, NodesFirstNext, TypeCorrect, PTL DEF Spec

-----------------------------------------------------------------------------
(* A row per container and visit. *)

VisitOf(r) == [nth |-> r.nth, namespace |-> NamespaceOf[r.pod]]

(* What has samples has one; a row belongs to a visit that was wanted and begun; in
   the visit that is under way, to a pod behind it or a container already stored. *)
VisitInv ==
  /\ \A s, t \in scraped.pods : s.pod = t.pod => s = t
  /\ \A s, t \in podList : s.pod = t.pod => s = t
  /\ pc \in {"node", "store"} => \A s \in podList : s.pod # sample.pod
  /\ pc \in {"podMetrics", "pod", "node", "store"} => namespacesToCollect \subseteq Visits
  /\ pc \in {"pod", "node", "store"} => visit \in Visits
  /\ \A r \in rows :
       /\ VisitOf(r) \in Visits /\ VisitOf(r) \notin namespacesToCollect
       /\ pc \in {"pod", "node", "store"} /\ visit = VisitOf(r) =>
            /\ \A s \in podList : s.pod # r.pod
            /\ pc = "node" => r.pod # sample.pod
            /\ pc = "store" /\ r.pod = sample.pod => r.container \notin todo

RowPerVisit ==
  \A r, s \in rows :
    r.nth = s.nth /\ r.pod = s.pod /\ r.container = s.container => r = s

RowsInv == TypeOK /\ NodesFirst /\ VisitInv /\ RowPerVisit

LEMMA FreshIsFunctional == \A s, t \in Fresh.pods : s.pod = t.pod => s = t
  BY DEF Fresh, Sample

LEMMA VisitsStand == UNCHANGED opt => Visits' = Visits
  BY DEF Visits, NamedVisits

LEMMA VisitInvNext == RowsInv /\ [Next]_vars => VisitInv'
<1> SUFFICES ASSUME RowsInv, [Next]_vars PROVE VisitInv'
  OBVIOUS
<1>0. opt' = opt => Visits' = Visits
  BY VisitsStand
<1> USE <1>0 DEF RowsInv, VisitInv, VisitOf, CollectorSleeps, Reads, cluster, nodeVars, podVars
<1>1. CASE Cluster \/ Ticks
  <2>1. CASE Scrape
    BY <2>1, FreshIsFunctional DEF Scrape
  <2> QED
    BY <1>1, <2>1 DEF Cluster, PodCreated, PodDeleted, PodScheduled, NodeChanges, Ticks
<1>2. CASE BeginTick
  BY <1>2 DEF BeginTick
<1>3. CASE CollectNodes
  BY <1>3 DEF CollectNodes, ListNodeMetrics, ListNodes, NodesStored, StoreNode,
              StoreNodeRefused, GiveUp, NodesFirst
<1>4. CASE CollectPods
  <2>1. CASE ListNamespaces
    BY <1>4, <2>1 DEF ListNamespaces, NodesFirst
  <2>2. CASE PodsStored \/ NamespaceStored \/ PodStored
    BY <2>2 DEF PodsStored, NamespaceStored, PodStored
  <2>3. CASE GetNode
    BY <2>3 DEF GetNode
  <2>4. CASE NodeGone
    BY <2>4 DEF NodeGone, GiveUp
  <2>5. ASSUME NEW v \in namespacesToCollect, ListPodMetrics(v) PROVE VisitInv'
    BY <2>5 DEF ListPodMetrics, TypeOK
  <2>6. ASSUME NEW s \in podList, GetPod(s) PROVE VisitInv'
    BY <2>6 DEF GetPod, TypeOK
  <2>7. ASSUME NEW s \in podList, PodUnscheduled(s) PROVE VisitInv'
    BY <2>7 DEF PodUnscheduled
  <2>8. ASSUME NEW s \in podList, PodGone(s) PROVE VisitInv'
    BY <2>8 DEF PodGone, GiveUp
  <2>9. ASSUME NEW c \in Containers, StoreContainer(c) PROVE VisitInv'
    <3>1. rows' = rows \cup {RowOf(c)}
      BY <2>9 DEF StoreContainer
    <3>2. /\ RowOf(c).pod = sample.pod /\ RowOf(c).container = c
          /\ VisitOf(RowOf(c)) = visit
      BY <2>9 DEF StoreContainer, RowOf, TypeOK, Visit
    <3>3. ASSUME NEW r \in rows'
          PROVE  /\ VisitOf(r) \in Visits /\ VisitOf(r) \notin namespacesToCollect
                 /\ visit = VisitOf(r) =>
                      /\ \A s \in podList : s.pod # r.pod
                      /\ r.pod = sample.pod => r.container \notin todo'
      <4>1. CASE r \in rows
        BY <2>9, <4>1 DEF StoreContainer
      <4>2. CASE r = RowOf(c)
        BY <2>9, <3>2, <4>2 DEF StoreContainer, TypeOK
      <4> QED
        BY <3>1, <4>1, <4>2
    <3>4. /\ pc = "store" /\ UNCHANGED <<pc, opt, namespacesToCollect, visit, podList, sample>>
          /\ UNCHANGED scraped
      BY <2>9 DEF StoreContainer
    <3>5. Visits' = Visits
      BY <3>4, <1>0
    <3> HIDE DEF VisitOf
    <3> QED
      BY <3>3, <3>4, <3>5
  <2> QED
    BY <1>4, <2>1, <2>2, <2>3, <2>4, <2>5, <2>6, <2>7, <2>8, <2>9 DEF CollectPods
<1>5. CASE CallFails
  BY <1>5 DEF CallFails, GiveUp
<1>6. CASE Losses
  BY <1>6 DEF Losses, StoreNodeLost, StoreContainerLost
<1>7. CASE UNCHANGED vars
  BY <1>7 DEF vars
<1> QED
  BY <1>1, <1>2, <1>3, <1>4, <1>5, <1>6, <1>7 DEF Next, Collect

LEMMA RowPerVisitNext == RowsInv /\ [Next]_vars => RowPerVisit'
<1> SUFFICES ASSUME RowsInv, [Next]_vars PROVE RowPerVisit'
  OBVIOUS
<1>1. ASSUME NEW c \in Containers, StoreContainer(c) PROVE RowPerVisit'
  <2>1. \A r \in rows : ~(r.nth = RowOf(c).nth /\ r.pod = RowOf(c).pod /\ r.container = c)
    BY <1>1 DEF RowsInv, VisitInv, VisitOf, StoreContainer, RowOf, TypeOK, Visit
  <2> QED
    BY <1>1, <2>1 DEF RowsInv, RowPerVisit, StoreContainer, RowOf
<1>2. rows' = rows \/ rows' = {} \/ \E c \in Containers : StoreContainer(c)
  BY DEF Next, vars, Collect, Cluster, CollectNodes, CollectPods, CallFails, Losses,
         PodCreated, PodDeleted, PodScheduled, NodeChanges, Scrape, Ticks, BeginTick,
         ListNodeMetrics, ListNodes, NodesStored, StoreNode, StoreNodeRefused, GiveUp,
         ListNamespaces, PodsStored, NamespaceStored, GetNode, NodeGone, PodStored,
         ListPodMetrics, GetPod, PodUnscheduled, PodGone, StoreNodeLost,
         StoreContainerLost, CollectorSleeps, podVars
<1> QED
  BY <1>1, <1>2 DEF RowsInv, RowPerVisit

(* A container has one row per tick unless its namespace is asked for twice. *)
THEOREM OneRowPerContainer == Spec => []RowOnce
<1>1. Init => RowsInv
  <2> SUFFICES ASSUME Init PROVE RowsInv
    OBVIOUS
  <2>1. VisitInv
    BY FreshIsFunctional DEF Init, VisitInv
  <2> QED
    BY <2>1, TypeOKInit DEF Init, RowsInv, NodesFirst, RowPerVisit
<1>2. RowsInv /\ [Next]_vars => RowsInv'
  BY TypeOKNext, NodesFirstNext, VisitInvNext, RowPerVisitNext DEF RowsInv
<1>3. RowsInv => RowOnce
  <2> SUFFICES ASSUME RowsInv PROVE RowOnce
    OBVIOUS
  <2>1. ASSUME NEW r \in rows, NEW s \in rows,
               r.pod = s.pod, r.container = s.container, ~Twice(NamespaceOf[r.pod])
        PROVE  r = s
    <3>1. /\ VisitOf(r) \in Visits /\ VisitOf(r).namespace = NamespaceOf[r.pod]
          /\ VisitOf(s) \in Visits /\ VisitOf(s).namespace = NamespaceOf[r.pod]
          /\ VisitOf(r).nth = r.nth /\ VisitOf(s).nth = s.nth
      BY <2>1 DEF RowsInv, VisitInv, VisitOf
    <3>2. \A v \in Visits : v.nth \in Named(v.namespace) \/ (v.nth = 0 /\ OneOfAll(v.namespace))
      <4>1. \A v \in NamedVisits : v.nth \in Named(v.namespace)
        BY DEF NamedVisits, Named
      <4>2. \A v \in [nth : {0}, namespace : Namespaces \ opt.ignored] :
              v.nth = 0 /\ v.namespace \notin opt.ignored
        OBVIOUS
      <4> QED
        BY <4>1, <4>2 DEF Visits, OneOfAll
    <3>3. r.nth = s.nth
      BY <2>1, <3>1, <3>2 DEF Twice
    <3> QED
      BY <2>1, <3>3 DEF RowsInv, RowPerVisit
  <2>2. ASSUME pc = "store", NEW c \in todo PROVE RowOf(c) \notin rows
    <3>1. /\ RowOf(c).pod = sample.pod /\ RowOf(c).container = c
          /\ VisitOf(RowOf(c)) = visit
      BY <2>2 DEF RowsInv, RowOf, TypeOK, Visit, VisitOf
    <3> QED
      BY <2>2, <3>1 DEF RowsInv, VisitInv
  <2> QED
    BY <2>1, <2>2 DEF RowOnce
<1> QED
  BY <1>1, <1>2, <1>3, PTL DEF Spec

-----------------------------------------------------------------------------
(* Ticks in which nothing changes. *)

(* The row is still to come in this tick. *)
Ahead(r) ==
  \/ VisitOf(r) \in namespacesToCollect
  \/ pc \in {"pod", "node", "store"} /\ visit = VisitOf(r) /\
       \/ \E s \in podList : s.pod = r.pod
       \/ pc = "node" /\ r.pod = sample.pod
       \/ pc = "store" /\ r.pod = sample.pod /\ r.container \in todo

NodesWanted == IF opt.nodes THEN [node : exists, share : {"finite"}] ELSE {}

QuietNodes ==
  /\ pc = "nodeMetrics" => opt.nodes /\ nodeRows = {}
  /\ pc = "nodes" => opt.nodes /\ nodeRows = {} /\ nodeList = exists
  /\ pc = "storeNodes" =>
       /\ opt.nodes /\ allocatable = exists /\ nodeList \subseteq exists
       /\ nodeRows = [node : exists \ nodeList, share : {"finite"}]
  /\ pc \notin {"nodeMetrics", "nodes", "storeNodes"} => nodeRows = NodesWanted

QuietPods ==
  /\ pc \in {"namespaces", "podMetrics", "pod", "node", "store"} => opt.pods
  /\ pc \in {"pod", "node", "store"} => podList \subseteq Fresh.pods
  /\ pc \in {"node", "store"} => sample \in Fresh.pods /\ nodeName = sample.node
  /\ pc \in {"podMetrics", "pod", "node", "store"} =>
       \A r \in Row : r \in rows <=> r \in Wanted /\ ~Ahead(r)
  /\ pc = "wait" => rows = (IF opt.pods THEN Wanted ELSE {})

QuietInv == quiet => scraped = Fresh /\ err = "none" /\ QuietNodes /\ QuietPods

ClusterStands == UNCHANGED <<opt, where, exists>>

LEMMA StandingCluster ==
  ClusterStands => /\ Fresh' = Fresh /\ Wanted' = Wanted /\ Visits' = Visits
                   /\ NodesWanted' = NodesWanted
  BY VisitsStand DEF ClusterStands, Fresh, Running, Wanted, NodesWanted

LEMMA FreshPods == /\ Fresh.nodes = exists
                   /\ \A s \in Fresh.pods : /\ s \in Sample /\ s.pod \in Pods
                                            /\ where[s.pod] \in exists /\ s.node = where[s.pod]
  BY DEF Fresh, Running, Sample

(* Nodes, while none of the collector's calls about pods is made. *)
LEMMA QuietNodeSteps ==
  RowsInv /\ QuietInv /\ quiet /\ CollectNodes => QuietInv'
<1> SUFFICES ASSUME RowsInv, QuietInv, quiet, CollectNodes PROVE QuietInv'
  OBVIOUS
<1> USE DEF Reads, cluster, podVars, QuietInv
<1>1. CASE ListNodeMetrics
  <2>1. ClusterStands
    BY <1>1 DEF ListNodeMetrics, ClusterStands
  <2> QED
    BY <1>1, <2>1, StandingCluster, FreshPods DEF ListNodeMetrics, QuietNodes, QuietPods
<1>2. CASE ListNodes
  <2>1. ClusterStands
    BY <1>2 DEF ListNodes, ClusterStands
  <2>2. nodeRows' = [node : exists' \ nodeList', share : {"finite"}]
    BY <1>2 DEF ListNodes, QuietNodes
  <2> QED
    BY <1>2, <2>1, <2>2, StandingCluster DEF ListNodes, QuietNodes, QuietPods
<1>3. CASE NodesStored
  <2>1. ClusterStands
    BY <1>3 DEF NodesStored, ClusterStands
  <2>2. nodeRows = NodesWanted
    BY <1>3 DEF NodesStored, QuietNodes, NodesWanted
  <2>3. rows = {} /\ opt.pods \in BOOLEAN
    BY <1>3, OptionsAssumption DEF NodesStored, RowsInv, NodesFirst, TypeOK, Option
  <2>4. QuietNodes'
    BY <1>3, <2>1, <2>2, StandingCluster DEF NodesStored, QuietNodes, nodeVars
  <2>5. QuietPods'
    BY <1>3, <2>1, <2>3, StandingCluster DEF NodesStored, QuietPods
  <2> QED
    BY <1>3, <2>1, <2>4, <2>5, StandingCluster DEF NodesStored
<1>4. ASSUME NEW n \in Nodes, NEW share \in {"finite", "infinite", "NaN"}, StoreNode(n, share)
      PROVE  QuietInv'
  <2>1. ClusterStands
    BY <1>4 DEF StoreNode, ClusterStands
  <2>2. n \in exists /\ n \in nodeList /\ share = "finite"
    BY <1>4 DEF StoreNode, Shares, QuietNodes
  <2>3. nodeRows' = [node : exists \ nodeList', share : {"finite"}]
    <3>1. /\ nodeRows' = [node : exists \ nodeList, share : {"finite"}]
                           \cup {[node |-> n, share |-> "finite"]}
          /\ nodeList' = nodeList \ {n}
      BY <1>4, <2>2 DEF StoreNode, QuietNodes
    <3>2. exists \ nodeList' = (exists \ nodeList) \cup {n}
      BY <2>2, <3>1
    <3>3. \A S : [node : S \cup {n}, share : {"finite"}] =
                   [node : S, share : {"finite"}] \cup {[node |-> n, share |-> "finite"]}
      <4> SUFFICES ASSUME NEW S, NEW x
                   PROVE  x \in [node : S \cup {n}, share : {"finite"}] <=>
                            x \in [node : S, share : {"finite"}]
                            \/ x = [node |-> n, share |-> "finite"]
        OBVIOUS
      <4>1. ASSUME NEW m PROVE [node |-> m, share |-> "finite"].node = m
        OBVIOUS
      <4> QED
        BY <4>1
    <3> QED
      BY <3>1, <3>2, <3>3
  <2> QED
    BY <1>4, <2>1, <2>3, StandingCluster DEF StoreNode, QuietNodes, QuietPods
<1>5. ASSUME NEW n \in Nodes, StoreNodeRefused(n) PROVE FALSE
  BY <1>5 DEF StoreNodeRefused, Shares, QuietNodes
<1> QED
  BY <1>1, <1>2, <1>3, <1>4, <1>5 DEF CollectNodes

(* A step that leaves the cluster, the flags and the rows about nodes alone keeps the
   invariant if it keeps its part about pods. *)
LEMMA QuietByPods ==
  ASSUME QuietInv, quiet, ClusterStands, UNCHANGED <<scraped, nodeRows, err, quiet>>,
         pc \in {"namespaces", "podMetrics", "pod", "node", "store"},
         pc' \notin {"nodeMetrics", "nodes", "storeNodes"},
         QuietPods'
  PROVE  QuietInv'
  BY StandingCluster DEF QuietInv, QuietNodes

LEMMA QuietPodSteps ==
  RowsInv /\ QuietInv /\ quiet /\ CollectPods => QuietInv'
<1> SUFFICES ASSUME RowsInv, QuietInv, quiet, CollectPods PROVE QuietInv'
  OBVIOUS
<1> USE DEF Reads, cluster, nodeVars
<1>a. TypeOK /\ VisitInv /\ NodesFirst /\ QuietPods /\ scraped = Fresh
  BY DEF RowsInv, QuietInv
<1>b. \A r \in Wanted : /\ r \in Row /\ VisitOf(r) \in Visits /\ r.pod \in Running
                       /\ r.node = where[r.pod] /\ r.measured = where[r.pod]
  BY DEF Wanted, VisitOf
<1>1. CASE ListNamespaces
  <2>1. ClusterStands /\ UNCHANGED <<scraped, nodeRows, err, quiet>>
    BY <1>1 DEF ListNamespaces, ClusterStands
  <2>2. \A r \in Wanted : Ahead(r)'
    BY <1>1, <1>b DEF ListNamespaces, Ahead, VisitOf
  <2>3. rows' = {} /\ opt.pods
    BY <1>1, <1>a DEF ListNamespaces, NodesFirst, QuietPods
  <2>4. QuietPods'
    BY <1>1, <2>1, <2>2, <2>3, StandingCluster DEF ListNamespaces, QuietPods, ClusterStands
  <2> QED
    BY <1>1, <2>1, <2>4, QuietByPods DEF ListNamespaces
<1>2. CASE PodsStored
  <2>1. ClusterStands /\ UNCHANGED <<scraped, nodeRows, err, quiet, rows>> /\ opt.pods
    BY <1>2, <1>a DEF PodsStored, ClusterStands, QuietPods, podVars
  <2>2. \A r \in Row : ~Ahead(r)
    BY <1>2 DEF PodsStored, Ahead
  <2>3. rows = Wanted
    BY <1>2, <1>a, <2>2 DEF PodsStored, QuietPods, Wanted, TypeOK
  <2>4. QuietPods'
    BY <1>2, <2>1, <2>3, StandingCluster DEF PodsStored, QuietPods, ClusterStands
  <2> QED
    BY <1>2, <2>1, <2>4, QuietByPods DEF PodsStored
<1>3. CASE NamespaceStored \/ PodStored
  <2>1. ClusterStands /\ UNCHANGED <<scraped, nodeRows, err, quiet, rows>>
    BY <1>3 DEF NamespaceStored, PodStored, ClusterStands, podVars
  <2>2. \A r \in Row : Ahead(r)' <=> Ahead(r)
    BY <1>3 DEF NamespaceStored, PodStored, podVars, Ahead, VisitOf
  <2>3. QuietPods'
    BY <1>3, <1>a, <2>1, <2>2, StandingCluster
    DEF NamespaceStored, PodStored, podVars, QuietPods, ClusterStands
  <2> QED
    BY <1>3, <2>1, <2>3, QuietByPods DEF NamespaceStored, PodStored
<1>4. CASE GetNode
  <2>1. ClusterStands /\ UNCHANGED <<scraped, nodeRows, err, quiet, rows>>
    BY <1>4 DEF GetNode, ClusterStands
  <2>2. \A r \in Row : Ahead(r)' <=> Ahead(r)
    BY <1>4 DEF GetNode, Ahead, VisitOf, Row
  <2>3. QuietPods'
    BY <1>4, <1>a, <2>1, <2>2, StandingCluster DEF GetNode, QuietPods, ClusterStands
  <2> QED
    BY <1>4, <2>1, <2>3, QuietByPods DEF GetNode
<1>5. CASE NodeGone
  BY <1>5, <1>a, FreshPods DEF NodeGone, QuietPods
<1>6. ASSUME NEW v \in namespacesToCollect, ListPodMetrics(v) PROVE QuietInv'
  <2>1. ClusterStands /\ UNCHANGED <<scraped, nodeRows, err, quiet, rows>>
    BY <1>6 DEF ListPodMetrics, ClusterStands
  <2>2. \A r \in Wanted : Ahead(r)' <=> Ahead(r)
    <3> SUFFICES ASSUME NEW r \in Wanted PROVE Ahead(r)' <=> Ahead(r)
      OBVIOUS
    <3>1. CASE VisitOf(r) = v
      <4>1. [pod |-> r.pod, node |-> where[r.pod]] \in podList'
        BY <1>6, <3>1, <1>a, <1>b DEF ListPodMetrics, Fresh, Sample, VisitOf, Row
      <4> QED
        BY <1>6, <3>1, <4>1 DEF ListPodMetrics, Ahead, VisitOf
    <3>2. CASE VisitOf(r) # v
      BY <1>6, <3>2 DEF ListPodMetrics, Ahead, VisitOf
    <3> QED
      BY <3>1, <3>2
  <2>3. QuietPods'
    BY <1>6, <1>a, <2>1, <2>2, StandingCluster DEF ListPodMetrics, QuietPods, ClusterStands
  <2> QED
    BY <1>6, <2>1, <2>3, QuietByPods DEF ListPodMetrics
<1>7. ASSUME NEW s \in podList, GetPod(s) PROVE QuietInv'
  <2>1. ClusterStands /\ UNCHANGED <<scraped, nodeRows, err, quiet, rows>>
    BY <1>7 DEF GetPod, ClusterStands
  <2>2. \A r \in Row : Ahead(r)' <=> Ahead(r)
    BY <1>7, <1>a DEF GetPod, Ahead, VisitOf, VisitInv
  <2>3. QuietPods'
    BY <1>7, <1>a, <2>1, <2>2, StandingCluster, FreshPods DEF GetPod, QuietPods, ClusterStands
  <2> QED
    BY <1>7, <2>1, <2>3, QuietByPods DEF GetPod
<1>8. ASSUME NEW s \in podList, PodUnscheduled(s) PROVE FALSE
  BY <1>8, <1>a, FreshPods, NodesAssumption DEF PodUnscheduled, QuietPods, TypeOK
<1>9. ASSUME NEW s \in podList, PodGone(s) PROVE FALSE
  BY <1>9, <1>a, FreshPods, NodesAssumption DEF PodGone, QuietPods, TypeOK
<1>10. ASSUME NEW c \in Containers, StoreContainer(c) PROVE QuietInv'
  <2>1. ClusterStands /\ UNCHANGED <<scraped, nodeRows, err, quiet>>
    BY <1>10 DEF StoreContainer, ClusterStands
  <2>2. /\ RowOf(c) \in Row /\ VisitOf(RowOf(c)) = visit
        /\ RowOf(c).pod = sample.pod /\ RowOf(c).container = c
        /\ RowOf(c).node = where[sample.pod] /\ RowOf(c).measured = where[sample.pod]
    BY <1>10, <1>a, FreshPods
    DEF StoreContainer, TypeOK, RowOf, Row, Visit, Sample, VisitOf, QuietPods
  <2>3. RowOf(c) \in Wanted
    BY <1>10, <1>a, <2>2 DEF StoreContainer, VisitInv, VisitOf, QuietPods, Fresh, Wanted
  <2>4. \A r \in Row : r = RowOf(c) => ~Ahead(r)'
    <3> SUFFICES ASSUME NEW r \in Row, r = RowOf(c) PROVE ~Ahead(r)'
      OBVIOUS
    <3>1. /\ pc' = "store" /\ podList' = podList /\ sample' = sample /\ c \notin todo'
          /\ namespacesToCollect' = namespacesToCollect
      BY <1>10 DEF StoreContainer
    <3>2. VisitOf(r) \notin namespacesToCollect /\ \A s \in podList : s.pod # r.pod
      BY <1>10, <1>a, <2>2 DEF StoreContainer, TypeOK, VisitInv
    <3> QED
      BY <2>2, <3>1, <3>2 DEF Ahead, VisitOf
  <2>5. \A r \in Wanted : r # RowOf(c) => (Ahead(r)' <=> Ahead(r))
    <3> SUFFICES ASSUME NEW r \in Wanted, r # RowOf(c) PROVE Ahead(r)' <=> Ahead(r)
      OBVIOUS
    <3>1. ~(visit = VisitOf(r) /\ r.pod = sample.pod /\ r.container = c)
      <4> SUFFICES ASSUME visit = VisitOf(r), r.pod = sample.pod, r.container = c PROVE FALSE
        OBVIOUS
      <4>1. /\ r.nth = RowOf(c).nth /\ r.pod = RowOf(c).pod
            /\ r.container = RowOf(c).container
            /\ r.node = RowOf(c).node /\ r.measured = RowOf(c).measured
        BY <1>b, <2>2 DEF VisitOf, RowOf
      <4>2. r \in Row /\ RowOf(c) \in Row
        BY <1>b, <2>2
      <4> QED
        BY <4>1, <4>2 DEF Row
    <3> QED
      BY <1>10, <3>1 DEF StoreContainer, Ahead, VisitOf
  <2>6. rows' = rows \cup {RowOf(c)}
    BY <1>10 DEF StoreContainer
  <2>7. \A r \in Row : r \in rows' <=> r \in Wanted /\ ~Ahead(r)'
    BY <1>10, <1>a, <2>3, <2>4, <2>5, <2>6 DEF StoreContainer, QuietPods
  <2>8. QuietPods'
    BY <1>10, <1>a, <2>1, <2>7, StandingCluster DEF StoreContainer, QuietPods, ClusterStands
  <2> QED
    BY <1>10, <2>1, <2>8, QuietByPods DEF StoreContainer
<1> QED
  BY <1>1, <1>2, <1>3, <1>4, <1>5, <1>6, <1>7, <1>8, <1>9, <1>10 DEF CollectPods

LEMMA QuietInvNext == RowsInv /\ QuietInv /\ [Next]_vars => QuietInv'
<1> SUFFICES ASSUME RowsInv, QuietInv, [Next]_vars PROVE QuietInv'
  OBVIOUS
<1>1. CASE Cluster \/ CallFails \/ Losses
  BY <1>1 DEF Cluster, CallFails, Losses, PodCreated, PodDeleted, PodScheduled, NodeChanges,
              Scrape, StoreNodeLost, StoreContainerLost, Disturb, QuietInv
<1>2. CASE Ticks \/ UNCHANGED vars
  <2>1. ClusterStands /\ UNCHANGED <<scraped, pc, nodeVars, podVars, err, quiet>>
    BY <1>2 DEF Ticks, vars, cluster, ClusterStands
  <2>2. \A r \in Row : Ahead(r)' <=> Ahead(r)
    BY <2>1 DEF Ahead, VisitOf, podVars
  <2> QED
    BY <2>1, <2>2, StandingCluster
    DEF QuietInv, QuietNodes, QuietPods, ClusterStands, nodeVars, podVars
<1>3. CASE BeginTick
  <2>1. ClusterStands /\ UNCHANGED scraped
    BY <1>3 DEF BeginTick, ClusterStands, cluster
  <2> QED
    BY <1>3, <2>1, StandingCluster
    DEF BeginTick, QuietInv, QuietNodes, QuietPods, NodesWanted, ClusterStands
<1>4. CASE CollectNodes \/ CollectPods
  <2>1. CASE quiet
    BY <1>4, <2>1, QuietNodeSteps, QuietPodSteps
  <2>2. CASE ~quiet
    <3>1. quiet' = quiet
      BY <1>4 DEF CollectNodes, CollectPods, Reads, ListNodeMetrics, ListNodes, NodesStored,
           StoreNode, StoreNodeRefused, ListNamespaces, PodsStored, NamespaceStored, GetNode,
           NodeGone, PodStored, ListPodMetrics, GetPod, PodUnscheduled, PodGone, StoreContainer
    <3> QED
      BY <2>2, <3>1 DEF QuietInv
  <2> QED
    BY <2>1, <2>2
<1> QED
  BY <1>1, <1>2, <1>3, <1>4 DEF Next, Collect

(* A tick that nothing disturbs ends with all that was asked for, and nothing else. *)
THEOREM QuietTicksAreComplete == Spec => []QuietTickIsComplete
<1>1. Init => RowsInv /\ QuietInv
  <2> SUFFICES ASSUME Init PROVE RowsInv /\ QuietInv
    OBVIOUS
  <2>1. VisitInv
    BY FreshIsFunctional DEF Init, VisitInv
  <2> QED
    BY <2>1, TypeOKInit DEF Init, RowsInv, NodesFirst, RowPerVisit, QuietInv
<1>2. RowsInv /\ [Next]_vars => RowsInv'
  BY TypeOKNext, NodesFirstNext, VisitInvNext, RowPerVisitNext DEF RowsInv
<1>3. QuietInv => QuietTickIsComplete
  BY DEF QuietInv, QuietNodes, QuietPods, QuietTickIsComplete, NodesWanted
<1> QED
  BY <1>1, <1>2, <1>3, QuietInvNext, PTL DEF Spec
=============================================================================
