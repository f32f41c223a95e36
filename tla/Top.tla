-------------------------------- MODULE Top --------------------------------
(***************************************************************************)
(* The metrics collector of cmd/top/main.go, which runs beside the         *)
(* benchmark: at every tick it asks the API server for nodes and pods, one *)
(* call after the other, and stores a row per node and per container. The  *)
(* cluster changes between any two calls, and what the metrics server      *)
(* knows of it is as old as its last scrape.                               *)
(*                                                                         *)
(* Abstracted: quantities (a node's share is a number, infinite, or not a  *)
(* number), the columns of a row, the order of the API's lists, and what   *)
(* earlier ticks have stored: a row is kept until the next tick begins.    *)
(***************************************************************************)
EXTENDS Naturals, FiniteSets, Sequences

CONSTANTS
  Nodes,           \* the nodes that may be in the cluster
  Pods,            \* the names of pods
  Containers,      \* the containers of each pod
  NamespaceOf,     \* the namespace of each pod
  Options,         \* the combinations of flags that are considered
  MaxDisturbances  \* BOUND: changes of the cluster and failed calls

Namespaces == {NamespaceOf[p] : p \in Pods}

Option == [nodes : BOOLEAN, pods : BOOLEAN,    \* --nodes, --pods
           all : BOOLEAN,                      \* --all-namespaces
           named : Seq(Namespaces),            \* --namespace, a slice
           ignored : SUBSET Namespaces,        \* --ignore-namespace
           storage : {"csv", "sqlite"}]

ASSUME OptionsAssumption == Options \subseteq Option
ASSUME BoundAssumption == MaxDisturbances \in Nat
ASSUME NodesAssumption == {"none", "unscheduled"} \cap Nodes = {}

VARIABLES
  opt,          \* the flags of this execution
  where,        \* the cluster: the node of each pod, if it exists and has one
  exists,       \* the nodes the API server has
  scraped,      \* the pods and nodes the metrics server has samples of
  disturbances, \* what has gone wrong or changed so far
  tick,         \* the ticker's channel holds a tick
  pc,           \* the call the collector is about to make
  nodeList,     \* samples of nodes still to be stored
  nodesDue,     \* the nodes of this tick's samples, but for those whose row was lost
  allocatable,  \* the nodes whose resources it has read
  namespacesToCollect,  \* visits to namespaces still to be made
  visit,        \* the one it is in
  podList,      \* samples of pods of this namespace still to be stored
  sample,       \* the one it is at
  nodeName,     \* the node of that pod
  todo,         \* its containers still to be stored
  nodeRows,     \* what this tick has stored about nodes
  rows,         \* and about pods
  err,          \* the error it has printed
  quiet         \* it began with fresh samples, and nothing has changed or failed

cluster == <<where, exists, scraped>>
nodeVars == <<nodeList, nodesDue, allocatable, nodeRows>>
podVars == <<namespacesToCollect, visit, podList, sample, nodeName, todo, rows>>
vars == <<opt, cluster, disturbances, tick, pc, nodeVars, podVars, err, quiet>>

(* A visit is for the nth entry of the slice --namespace, or for a namespace of the
   API's list (0). *)
Nth == UNION {0..Len(o.named) : o \in Options}
Visit == [nth : Nth, namespace : Namespaces]
Sample == [pod : Pods, node : Nodes]
Row == [nth : Nth, pod : Pods, container : Containers,
        node : Nodes, measured : Nodes]

TypeOK ==
  /\ opt \in Options
  /\ where \in [Pods -> Nodes \cup {"none", "unscheduled"}]
  /\ exists \subseteq Nodes
  /\ scraped.pods \subseteq Sample /\ scraped.nodes \subseteq Nodes
  /\ disturbances \in 0..MaxDisturbances
  /\ tick \in BOOLEAN
  /\ pc \in {"wait", "nodeMetrics", "nodes", "storeNodes", "namespaces", "podMetrics",
             "pod", "node", "store"}
  /\ nodeList \subseteq Nodes /\ nodesDue \subseteq Nodes /\ allocatable \subseteq Nodes
  /\ nodeRows \subseteq [node : Nodes, share : {"finite", "infinite", "NaN"}]
  /\ namespacesToCollect \subseteq Visit
  /\ pc \in {"pod", "node", "store"} => visit \in Visit \ namespacesToCollect
  /\ podList \subseteq Sample
  /\ \A s \in podList : NamespaceOf[s.pod] = visit.namespace
  /\ pc \in {"node", "store"} => sample \in Sample \ podList /\ nodeName \in Nodes
  /\ pc \in {"node", "store"} => NamespaceOf[sample.pod] = visit.namespace
  /\ todo \subseteq Containers
  /\ rows \subseteq Row
  /\ err \in {"none", "nodes", "pods"}
  /\ quiet \in BOOLEAN

Running == {p \in Pods : where[p] \in exists}

(* What the metrics server would have if it scraped now. *)
Fresh == [pods  |-> {s \in Sample : s.pod \in Running /\ s.node = where[s.pod]},
          nodes |-> exists]

Init ==
  /\ opt \in Options
  /\ where \in [Pods -> Nodes \cup {"none"}]
  /\ exists = Nodes
  /\ scraped = Fresh
  /\ disturbances = 0
  /\ tick = FALSE /\ pc = "wait"
  /\ nodeList = {} /\ nodesDue = {} /\ allocatable = {} /\ nodeRows = {}
  /\ namespacesToCollect = {} /\ podList = {} /\ todo = {} /\ rows = {}
  /\ visit = [nth |-> 0, namespace |-> "none"]
  /\ sample = [pod |-> "none", node |-> "none"] /\ nodeName = "none"
  /\ err = "none" /\ quiet = FALSE

-----------------------------------------------------------------------------
(* The cluster and the clock. *)

Disturb ==
  /\ disturbances < MaxDisturbances
  /\ disturbances' = disturbances + 1
  /\ quiet' = FALSE

CollectorSleeps == UNCHANGED <<opt, tick, pc, nodeVars, podVars, err>>

PodCreated(p) ==
  /\ where[p] = "none" /\ Disturb
  /\ where' = [where EXCEPT ![p] = "unscheduled"]
  /\ UNCHANGED <<exists, scraped>> /\ CollectorSleeps

PodScheduled(p, n) ==
  /\ where[p] = "unscheduled" /\ n \in exists
  /\ where' = [where EXCEPT ![p] = n]
  /\ quiet' = FALSE
  /\ UNCHANGED <<exists, scraped, disturbances>> /\ CollectorSleeps

PodDeleted(p) ==
  /\ where[p] # "none" /\ Disturb
  /\ where' = [where EXCEPT ![p] = "none"]
  /\ UNCHANGED <<exists, scraped>> /\ CollectorSleeps

NodeChanges(n) ==
  /\ Disturb
  /\ exists' = IF n \in exists THEN exists \ {n} ELSE exists \cup {n}
  /\ UNCHANGED <<where, scraped>> /\ CollectorSleeps

Scrape ==
  /\ scraped # Fresh
  /\ scraped' = Fresh
  /\ quiet' = FALSE
  /\ UNCHANGED <<where, exists, disturbances>> /\ CollectorSleeps

(* time.Ticker holds one tick; those it cannot deliver are dropped. *)
Ticks ==
  /\ ~tick
  /\ tick' = TRUE
  /\ UNCHANGED <<opt, cluster, disturbances, pc, nodeVars, podVars, err, quiet>>

-----------------------------------------------------------------------------
(* The loop of run. *)

Reads == UNCHANGED <<opt, cluster, disturbances, tick, quiet>>

BeginTick ==
  /\ pc = "wait" /\ tick
  /\ tick' = FALSE
  /\ pc' = IF opt.nodes THEN "nodeMetrics" ELSE IF opt.pods THEN "namespaces" ELSE "wait"
  /\ nodesDue' = {} /\ nodeRows' = {} /\ rows' = {} /\ err' = "none"
  /\ quiet' = (scraped = Fresh)
  /\ UNCHANGED <<opt, cluster, disturbances, nodeList, allocatable,
                 namespacesToCollect, visit, podList, sample, nodeName, todo>>

Collecting == IF pc \in {"nodeMetrics", "nodes", "storeNodes"} THEN "nodes" ELSE "pods"

(* Mutant: a failure to collect nodes does not keep pods from being collected. *)
GiveUpAndGoOn ==
  /\ err' = Collecting
  /\ pc' = IF Collecting = "nodes" /\ opt.pods THEN "namespaces" ELSE "wait"
  /\ nodeList' = {} /\ namespacesToCollect' = {} /\ podList' = {} /\ todo' = {}
  /\ UNCHANGED <<opt, cluster, tick, nodesDue, allocatable, visit, sample, nodeName,
                 nodeRows, rows>>

(* An error: printed, and the rest of the tick is given up. What is stored stays. *)
GiveUp ==
  /\ err' = Collecting
  /\ pc' = "wait"
  /\ nodeList' = {} /\ namespacesToCollect' = {} /\ podList' = {} /\ todo' = {}
  /\ UNCHANGED <<opt, cluster, tick, nodesDue, allocatable, visit, sample, nodeName,
                 nodeRows, rows>>

(* An API call, an INSERT or the opening of a CSV file fails. *)
CallFails ==
  /\ pc # "wait" /\ (pc = "namespaces" => opt.all)
  /\ pc = "storeNodes" => nodeList # {}
  /\ pc = "podMetrics" => namespacesToCollect # {}
  /\ pc = "pod" => podList # {}
  /\ Disturb /\ GiveUp

-----------------------------------------------------------------------------
(* collectNodeMetrics *)

ListNodeMetrics ==
  /\ pc = "nodeMetrics"
  /\ nodeList' = scraped.nodes /\ nodesDue' = scraped.nodes
  /\ pc' = "nodes"
  /\ UNCHANGED <<allocatable, nodeRows, podVars, err>> /\ Reads

ListNodes ==
  /\ pc = "nodes"
  /\ allocatable' = exists
  /\ pc' = "storeNodes"
  /\ UNCHANGED <<nodeList, nodesDue, nodeRows, podVars, err>> /\ Reads

(* A node that is not among the allocatable has a share of usage / 0. *)
Shares(n) == IF n \in allocatable THEN {"finite"} ELSE {"infinite", "NaN"}

StoreNode(n, share) ==
  /\ pc = "storeNodes" /\ n \in nodeList /\ share \in Shares(n)
  /\ opt.storage = "sqlite" => share # "NaN"
  /\ nodeList' = nodeList \ {n}
  /\ nodeRows' = nodeRows \cup {[node |-> n, share |-> share]}
  /\ UNCHANGED <<pc, nodesDue, allocatable, podVars, err>> /\ Reads

(* SQLite takes NaN for NULL, and the column is NOT NULL. *)
StoreNodeRefused(n) ==
  /\ pc = "storeNodes" /\ n \in nodeList /\ "NaN" \in Shares(n)
  /\ opt.storage = "sqlite"
  /\ GiveUp /\ UNCHANGED <<disturbances, quiet>>

(* Of the Flush of a CSV file nobody looks at the error. *)
StoreNodeLost(n) ==
  /\ pc = "storeNodes" /\ n \in nodeList /\ opt.storage = "csv"
  /\ Disturb
  /\ nodeList' = nodeList \ {n} /\ nodesDue' = nodesDue \ {n}
  /\ UNCHANGED <<opt, cluster, tick, pc, allocatable, nodeRows, podVars, err>>

NodesStored ==
  /\ pc = "storeNodes" /\ nodeList = {}
  /\ pc' = IF opt.pods THEN "namespaces" ELSE "wait"
  /\ UNCHANGED <<nodeVars, podVars, err>> /\ Reads

-----------------------------------------------------------------------------
(* collectPodMetrics *)

(* With --all-namespaces, the default, the namespaces that are not ignored are
   appended to those that were named. *)
NamedVisits == {[nth |-> i, namespace |-> opt.named[i]] : i \in DOMAIN opt.named}
Visits ==
  NamedVisits \cup
  (IF opt.all THEN [nth : {0}, namespace : Namespaces \ opt.ignored] ELSE {})

(* Mutant: the condition on ignoreNamespaces is left out. *)
ListNamespacesIgnoresNone ==
  /\ pc = "namespaces"
  /\ namespacesToCollect' =
       NamedVisits \cup (IF opt.all THEN [nth : {0}, namespace : Namespaces] ELSE {})
  /\ pc' = "podMetrics"
  /\ UNCHANGED <<nodeVars, visit, podList, sample, nodeName, todo, rows, err>> /\ Reads

ListNamespaces ==
  /\ pc = "namespaces"
  /\ namespacesToCollect' = Visits
  /\ pc' = "podMetrics"
  /\ UNCHANGED <<nodeVars, visit, podList, sample, nodeName, todo, rows, err>> /\ Reads

(* The list of pods with samples in the next namespace: the named ones come first,
   in the order of the slice. *)
ListPodMetrics(v) ==
  /\ pc = "podMetrics" /\ v \in namespacesToCollect
  /\ \A w \in namespacesToCollect : w.nth > 0 => 0 < v.nth /\ v.nth <= w.nth
  /\ namespacesToCollect' = namespacesToCollect \ {v}
  /\ visit' = v
  /\ podList' = {s \in scraped.pods : NamespaceOf[s.pod] = v.namespace}
  /\ pc' = "pod"
  /\ UNCHANGED <<nodeVars, sample, nodeName, todo, rows, err>> /\ Reads

PodsStored ==
  /\ pc = "podMetrics" /\ namespacesToCollect = {}
  /\ pc' = "wait"
  /\ UNCHANGED <<nodeVars, podVars, err>> /\ Reads

(* Mutant: the sample stays in the list. *)
GetPodKeeps(s) ==
  /\ pc = "pod" /\ s \in podList /\ where[s.pod] \in Nodes
  /\ sample' = s /\ nodeName' = where[s.pod]
  /\ pc' = "node"
  /\ UNCHANGED <<nodeVars, namespacesToCollect, visit, podList, todo, rows, err>> /\ Reads

GetPod(s) ==
  /\ pc = "pod" /\ s \in podList /\ where[s.pod] \in Nodes
  /\ podList' = podList \ {s}
  /\ sample' = s /\ nodeName' = where[s.pod]
  /\ pc' = "node"
  /\ UNCHANGED <<nodeVars, namespacesToCollect, visit, todo, rows, err>> /\ Reads

PodUnscheduled(s) ==
  /\ pc = "pod" /\ s \in podList /\ where[s.pod] = "unscheduled"
  /\ podList' = podList \ {s}
  /\ UNCHANGED <<pc, nodeVars, namespacesToCollect, visit, sample, nodeName, todo, rows, err>>
  /\ Reads

(* Mutant: the Get is repeated until the pod is there. *)
PodGoneRetries(s) ==
  /\ pc = "pod" /\ s \in podList /\ where[s.pod] = "none"
  /\ UNCHANGED vars

PodGone(s) ==
  /\ pc = "pod" /\ s \in podList /\ where[s.pod] = "none"
  /\ GiveUp /\ UNCHANGED <<disturbances, quiet>>

NamespaceStored ==
  /\ pc = "pod" /\ podList = {}
  /\ pc' = "podMetrics"
  /\ UNCHANGED <<nodeVars, podVars, err>> /\ Reads

GetNode ==
  /\ pc = "node" /\ nodeName \in exists
  /\ todo' = Containers
  /\ pc' = "store"
  /\ UNCHANGED <<nodeVars, namespacesToCollect, visit, podList, sample, nodeName, rows, err>>
  /\ Reads

NodeGone ==
  /\ pc = "node" /\ nodeName \notin exists
  /\ GiveUp /\ UNCHANGED <<disturbances, quiet>>

RowOf(c) == [nth |-> visit.nth, pod |-> sample.pod, container |-> c,
             node |-> nodeName, measured |-> sample.node]

(* Mutant: only one container of a pod is stored. *)
StoreFirstContainer(c) ==
  /\ pc = "store" /\ c \in todo
  /\ todo' = {}
  /\ rows' = rows \cup {RowOf(c)}
  /\ UNCHANGED <<pc, nodeVars, namespacesToCollect, visit, podList, sample, nodeName, err>>
  /\ Reads

StoreContainer(c) ==
  /\ pc = "store" /\ c \in todo
  /\ todo' = todo \ {c}
  /\ rows' = rows \cup {RowOf(c)}
  /\ UNCHANGED <<pc, nodeVars, namespacesToCollect, visit, podList, sample, nodeName, err>>
  /\ Reads

StoreContainerLost(c) ==
  /\ pc = "store" /\ c \in todo /\ opt.storage = "csv"
  /\ Disturb
  /\ todo' = todo \ {c}
  /\ UNCHANGED <<opt, cluster, tick, pc, nodeVars, namespacesToCollect, visit, podList,
                 sample, nodeName, rows, err>>

PodStored ==
  /\ pc = "store" /\ todo = {}
  /\ pc' = "pod"
  /\ UNCHANGED <<nodeVars, podVars, err>> /\ Reads

-----------------------------------------------------------------------------
Cluster ==
  \/ \E p \in Pods : PodCreated(p) \/ PodDeleted(p)
  \/ \E p \in Pods, n \in Nodes : PodScheduled(p, n)
  \/ \E n \in Nodes : NodeChanges(n)
  \/ Scrape

CollectNodes ==
  \/ ListNodeMetrics \/ ListNodes \/ NodesStored
  \/ \E n \in Nodes :
       \/ \E share \in {"finite", "infinite", "NaN"} : StoreNode(n, share)
       \/ StoreNodeRefused(n)

CollectPods ==
  \/ ListNamespaces \/ PodsStored \/ NamespaceStored \/ GetNode \/ NodeGone \/ PodStored
  \/ \E v \in namespacesToCollect : ListPodMetrics(v)
  \/ \E s \in podList : GetPod(s) \/ PodUnscheduled(s) \/ PodGone(s)
  \/ \E c \in Containers : StoreContainer(c)

Losses ==
  \/ \E n \in Nodes : StoreNodeLost(n)
  \/ \E c \in Containers : StoreContainerLost(c)

Collect == BeginTick \/ CollectNodes \/ CollectPods

Next == Cluster \/ Ticks \/ Collect \/ CallFails \/ Losses

(* The ticker ticks, the API server answers, the metrics server scrapes; changes,
   failures and losses are free to come or not. *)
Fairness == WF_vars(Ticks) /\ WF_vars(Collect) /\ WF_vars(Scrape)

Spec == Init /\ [][Next]_vars
FairSpec == Spec /\ Fairness

-----------------------------------------------------------------------------
(* What must hold. *)

Named(ns) == {i \in DOMAIN opt.named : opt.named[i] = ns}
OneOfAll(ns) == opt.all /\ ns \notin opt.ignored
Collected(ns) == Named(ns) # {} \/ OneOfAll(ns)
Twice(ns) == \E i \in Named(ns) : OneOfAll(ns) \/ \E j \in Named(ns) : j # i

(* A container has one row per tick, and none is about to be stored again, unless
   its namespace is named twice, or named and one of all: then --namespace makes its
   samples count twice instead of selecting them. *)
RowOnce ==
  /\ \A r, s \in rows :
       r.pod = s.pod /\ r.container = s.container /\ ~Twice(NamespaceOf[r.pod]) => r = s
  /\ pc = "store" => \A c \in todo : RowOf(c) \notin rows

(* In a tick that collects nodes too, rows about pods are stored only after every
   node the metrics server has listed has got its row, but for rows that a CSV file
   did not take: one node that cannot be stored costs the tick all its pods. *)
PodsNeedNodes ==
  rows # {} /\ opt.nodes =>
    /\ err # "nodes"
    /\ \A n \in nodesDue : \E r \in nodeRows : r.node = n

Wanted == {r \in Row : /\ [nth |-> r.nth, namespace |-> NamespaceOf[r.pod]] \in Visits
                       /\ r.pod \in Running
                       /\ r.node = where[r.pod] /\ r.measured = where[r.pod]}

(* A tick that began with fresh samples and during which nothing changed or failed
   ends without an error, with one row per node, and one per running container and
   entry of the flags that asks for it, each charged to the node it was measured on. *)
QuietTickIsComplete ==
  pc = "wait" /\ quiet =>
    /\ err = "none"
    /\ nodeRows = (IF opt.nodes THEN [node : exists, share : {"finite"}] ELSE {})
    /\ rows = (IF opt.pods THEN Wanted ELSE {})

(* A pod that goes on running in a collected namespace is sampled again and again,
   on the node it runs on, whatever has gone wrong before. *)
SettledPodsSampled ==
  \A p \in Pods, n \in Nodes, c \in Containers :
    []<>(~(where[p] = n /\ n \in exists /\ opt.pods /\ Collected(NamespaceOf[p])))
    \/ []<>(\E r \in rows : r.pod = p /\ r.container = c /\ r.node = n)
=============================================================================
