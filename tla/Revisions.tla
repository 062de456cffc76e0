----------------------------- MODULE Revisions -----------------------------
(***************************************************************************)
(* The configuration draft of a cluster and the revisions published from   *)
(* it: imports, edits, adoption of drift, publication, archiving and       *)
(* deletion, beside the deployments and drift events that retain them.     *)
(*                                                                         *)
(* Sources: internal/controlplane/service.go, internal/inventory/          *)
(* service.go, internal/database/{controlplane,inventory,nodes}.go,        *)
(* internal/api/{controlplane,inventory}_handlers.go.                      *)
(*                                                                         *)
(* A request is two steps: what it reads, then the transaction it writes   *)
(* with.  A document names, for each of its sections, the observation the  *)
(* section agrees with.  What the executor does to nodes is in             *)
(* Deployments; only what it writes here is kept.  Identifiers of deleted  *)
(* rows are used again once nothing remembers them.                        *)
(***************************************************************************)
EXTENDS Integers, FiniteSets

CONSTANTS
  Nodes, Values,        \* nodes; what a section of a document can say
  Invalid,              \* the values validation refuses
  Ids, Deployments,     \* identifiers of revisions and of deployments
  Requests,             \* requests in flight
  MaxVersion,           \* bound on draft versions
  MaxChanges,           \* bound on observations, drift, archiving and node changes
  None

VARIABLES
  node,         \* enabled, disabled or removed
  snapshots,    \* successful observations
  drift,        \* drift_events
  draft,        \* the row of configuration_drafts; version 0 before it exists
  revisions,    \* configuration_revisions, by identifier
  active,       \* clusters.active_revision_id
  applied,      \* nodes.applied_revision_id
  deployments,  \* deployments, by identifier
  request,      \* what each request in flight has read
  issued,       \* the highest revision number ever given out
  changes

vars == <<node, snapshots, drift, draft, revisions, active, applied,
          deployments, request, issued, changes>>

Documents == [shared : Values, own : [Nodes -> Values \cup {None}]]
Snapshots == [node : Nodes, value : Values]
DriftEvents == [node : Nodes, value : Values, revision : Ids]
Drafts == [version : Nat, doc : Documents \cup {None}, base : Ids \cup {None}]
RevisionRows == [doc : Documents, number : Nat \ {0}, archived : BOOLEAN]
DeploymentRows == [status : {"queued", "started", "finished"},
                   revision : Ids, rollbackOf : Ids \cup {None}, archived : BOOLEAN]

Writing == [op : {"import", "update", "adopt", "publish"}, read : Drafts, doc : Documents]
Deploying == [op : {"deploy"}, revision : Ids, rollbackOf : Ids \cup {None}]

ASSUME RevisionsConstants ==
  /\ Invalid \subseteq Values
  /\ MaxVersion \in Nat /\ MaxChanges \in Nat
  /\ None \notin Values \cup Ids \cup Documents
  /\ None \notin RevisionRows \cup DeploymentRows

NoDraft == [version |-> 0, doc |-> None, base |-> None]
Idle == [op |-> "idle"]

(* The rows of the database and the requests are of their declared shape. *)
TypeOK ==
  /\ node \in [Nodes -> {"enabled", "disabled", "removed"}]
  /\ snapshots \subseteq Snapshots
  /\ drift \subseteq DriftEvents
  /\ draft \in Drafts
  /\ IF draft.version = 0 THEN draft = NoDraft ELSE draft.doc \in Documents
  /\ revisions \in [Ids -> RevisionRows \cup {None}]
  /\ active \in Ids \cup {None}
  /\ applied \in [Nodes -> Ids \cup {None}]
  /\ deployments \in [Deployments -> DeploymentRows \cup {None}]
  /\ request \in [Requests -> Writing \cup Deploying \cup {Idle}]
  /\ issued \in Nat
  /\ changes \in Nat

Init ==
  /\ node = [n \in Nodes |-> "enabled"]
  /\ \E seen \in SUBSET Values : snapshots = [node : Nodes, value : seen]
  /\ drift = {}
  /\ draft = NoDraft
  /\ revisions = [id \in Ids |-> None]
  /\ active = None
  /\ applied = [n \in Nodes |-> None]
  /\ deployments = [d \in Deployments |-> None]
  /\ request = [r \in Requests |-> Idle]
  /\ issued = 0
  /\ changes = 0

Published == {id \in Ids : revisions[id] # None}

(* What the draft becomes when an observation of one node is taken in: its *)
(* shared section, and that node's own; other nodes keep theirs.           *)
Merge(own, s) == [shared |-> s.value, own |-> [own EXCEPT ![s.node] = s.value]]

(* Every section is valid, and every enabled node has one. *)
ValidateDesired(doc) ==
  /\ doc.shared \notin Invalid
  /\ \A n \in Nodes : node[n] = "enabled" => doc.own[n] \in Values \ Invalid

Previewed(doc) == ValidateDesired(doc) /\ \E n \in Nodes : node[n] = "enabled"

Change == changes < MaxChanges /\ changes' = changes + 1

Respond(r) == request' = [request EXCEPT ![r] = Idle]

-----------------------------------------------------------------------------
(* What the reconciler, the operator and the nodes do meanwhile. *)

(* A failed observation leaves nothing that can be imported. *)
SaveObservation(n, v) ==
  /\ Change
  /\ node[n] = "enabled"
  /\ snapshots' = snapshots \cup {[node |-> n, value |-> v]}
  /\ UNCHANGED <<node, drift, draft, revisions, active, applied, deployments, request, issued>>

(* The reconciler found that an observation is not what the active        *)
(* revision wants of the node.                                            *)
UpsertDriftEvent(s) ==
  /\ Change
  /\ s \in snapshots /\ node[s.node] = "enabled"
  /\ active # None
  /\ revisions[active].doc # Merge(revisions[active].doc.own, s)
  /\ drift' = drift \cup {[node |-> s.node, value |-> s.value, revision |-> active]}
  /\ UNCHANGED <<node, snapshots, draft, revisions, active, applied, deployments, request, issued>>

UpdateNode(n) ==
  /\ Change
  /\ node[n] # "removed"
  /\ node' = [node EXCEPT ![n] = IF @ = "enabled" THEN "disabled" ELSE "enabled"]
  /\ UNCHANGED <<snapshots, drift, draft, revisions, active, applied, deployments, request, issued>>

\* Mutant: the removal does not count as a new version of the draft.
DroppedQuietly(n) ==
  IF draft.version # 0 /\ draft.doc.own[n] # None
  THEN [draft EXCEPT !.doc.own[n] = None]
  ELSE draft

(* A removed node leaves the draft in the same transaction. *)
Dropped(n) ==
  IF draft.version # 0 /\ draft.doc.own[n] # None
  THEN [draft EXCEPT !.doc.own[n] = None, !.version = @ + 1]
  ELSE draft

SoftDeleteNode(n) ==
  /\ Change
  /\ node[n] # "removed"
  /\ draft.version < MaxVersion
  /\ node' = [node EXCEPT ![n] = "removed"]
  /\ draft' = Dropped(n)
  /\ UNCHANGED <<snapshots, drift, revisions, active, applied, deployments, request, issued>>

-----------------------------------------------------------------------------
(* Writing the draft.  A request that names another version than the one  *)
(* it reads is refused at once and leaves no trace.                       *)

Begin(r, op, doc) ==
  /\ request[r] = Idle
  /\ draft.version < MaxVersion
  /\ request' = [request EXCEPT ![r] = [op |-> op, read |-> draft, doc |-> doc]]
  /\ UNCHANGED <<node, snapshots, drift, draft, revisions, active, applied, deployments, issued, changes>>

(* The first import finds no draft and takes only the observed node. *)
Import(r, s) ==
  /\ s \in snapshots /\ s.value \notin Invalid
  /\ node[s.node] # "removed"
  /\ Begin(r, "import",
           Merge(IF draft = NoDraft THEN [n \in Nodes |-> None] ELSE draft.doc.own, s))

(* An edited document is stored even when it has validation issues.  The  *)
(* client sends a whole document; here it differs in one section.         *)
UpdateDraft(r) ==
  /\ draft # NoDraft
  /\ \/ \E v \in Values : Begin(r, "update", [draft.doc EXCEPT !.shared = v])
     \/ \E n \in Nodes, v \in Values \cup {None} :
          Begin(r, "update", [draft.doc EXCEPT !.own[n] = v])

AdoptDrift(r, e) ==
  /\ e \in drift
  /\ draft # NoDraft
  /\ Begin(r, "adopt", Merge(draft.doc.own, e))

(* Only an import writes the base revision, the one it read. *)
BaseAfter(q) == IF q.op = "import" THEN q.read.base ELSE draft.base

WriteDraft(r) ==
  /\ request[r].op \in {"import", "update", "adopt"}
  /\ draft.version = request[r].read.version
  /\ draft' = [version |-> draft.version + 1,
               doc |-> request[r].doc,
               base |-> BaseAfter(request[r])]
  /\ Respond(r)
  /\ UNCHANGED <<node, snapshots, drift, revisions, active, applied, deployments, issued, changes>>

-----------------------------------------------------------------------------
(* Publication. *)

(* The preview reads the nodes right after the draft; it refuses a        *)
(* document that is invalid for them, and one without a target.           *)
Publish(r) ==
  /\ draft # NoDraft
  /\ Previewed(draft.doc)
  /\ Begin(r, "publish", draft.doc)

(* COALESCE(MAX(revision_number), 0) + 1, under a lock of the cluster. *)
NextNumber(k) ==
  /\ \A id \in Published : revisions[id].number < k
  /\ k = 1 \/ \E id \in Published : revisions[id].number = k - 1

(* Identifiers are random: a new one is not one a request still holds. *)
Fresh(id) ==
  /\ id \notin Published
  /\ \A q \in Requests : request[q].op = "deploy" => id \notin {request[q].revision, request[q].rollbackOf}

\* Mutant: the draft is based on the revision whatever its version is.
PublishUnguarded(r, id) ==
  /\ request[r].op = "publish"
  /\ Fresh(id)
  /\ \E k \in 1 .. issued + 1 :
       /\ NextNumber(k)
       /\ revisions' = [revisions EXCEPT ![id] =
                          [doc |-> request[r].doc, number |-> k, archived |-> FALSE]]
       /\ issued' = IF k > issued THEN k ELSE issued
  /\ draft' = [draft EXCEPT !.base = id, !.version = @ + 1]
  /\ Respond(r)
  /\ UNCHANGED <<node, snapshots, drift, active, applied, deployments, changes>>

\* Mutant: the draft is not based on the new revision.
PublishUnbased(r, id) ==
  /\ request[r].op = "publish"
  /\ Fresh(id)
  /\ draft.version = request[r].read.version
  /\ \E k \in 1 .. issued + 1 :
       /\ NextNumber(k)
       /\ revisions' = [revisions EXCEPT ![id] =
                          [doc |-> request[r].doc, number |-> k, archived |-> FALSE]]
       /\ issued' = IF k > issued THEN k ELSE issued
  /\ draft' = [draft EXCEPT !.version = @ + 1]
  /\ Respond(r)
  /\ UNCHANGED <<node, snapshots, drift, active, applied, deployments, changes>>

PublishRevision(r, id) ==
  /\ request[r].op = "publish"
  /\ Fresh(id)
  /\ draft.version = request[r].read.version
  /\ \E k \in 1 .. issued + 1 :
       /\ NextNumber(k)
       /\ revisions' = [revisions EXCEPT ![id] =
                          [doc |-> request[r].doc, number |-> k, archived |-> FALSE]]
       /\ issued' = IF k > issued THEN k ELSE issued
  /\ draft' = [draft EXCEPT !.base = id, !.version = @ + 1]
  /\ Respond(r)
  /\ UNCHANGED <<node, snapshots, drift, active, applied, deployments, changes>>

(* A draft changed since it was read, an error of the database, or a      *)
(* preview that refuses: capabilities, listeners and the service          *)
(* catalogue are not modelled and may refuse any document.                *)
Refuse(r) ==
  /\ request[r] # Idle
  /\ Respond(r)
  /\ UNCHANGED <<node, snapshots, drift, draft, revisions, active, applied, deployments, issued, changes>>

-----------------------------------------------------------------------------
(* Archiving and deletion.  Revisions are immutable, so what the service  *)
(* reads before the transaction does not matter to it.                    *)

Deployed == {deployments[d] : d \in {d \in Deployments : deployments[d] # None}}

Referenced(id) ==
  \/ \E n \in Nodes : applied[n] = id
  \/ draft.base = id
  \/ \E p \in Deployed : p.revision = id \/ p.rollbackOf = id
  \/ \E e \in drift : e.revision = id

(* Comparing the identifier with a cluster's absent active revision gives *)
(* NULL, which cannot be scanned into a bool: the transaction fails.      *)
ScanActive == active # None

ArchiveAccepted(id) == ScanActive /\ active # id /\ ~revisions[id].archived
DeleteAccepted(id) == ScanActive /\ active # id /\ ~Referenced(id)

SetRevisionArchived(id, archived) ==
  /\ Change
  /\ id \in Published
  /\ IF archived THEN ArchiveAccepted(id) ELSE ScanActive /\ revisions[id].archived
  /\ revisions' = [revisions EXCEPT ![id].archived = archived]
  /\ UNCHANGED <<node, snapshots, drift, draft, active, applied, deployments, request, issued>>

DeleteUnusedRevision(id) ==
  /\ id \in Published
  /\ DeleteAccepted(id)
  /\ revisions' = [revisions EXCEPT ![id] = None]
  /\ UNCHANGED <<node, snapshots, drift, draft, active, applied, deployments, request, issued, changes>>

-----------------------------------------------------------------------------
(* Deployments, as far as they retain and activate revisions. *)

StartDeployment(r, id, rollbackOf) ==
  /\ request[r] = Idle
  /\ id \in Published
  /\ Previewed(revisions[id].doc)
  /\ request' = [request EXCEPT ![r] = [op |-> "deploy", revision |-> id, rollbackOf |-> rollbackOf]]
  /\ UNCHANGED <<node, snapshots, drift, draft, revisions, active, applied, deployments, issued, changes>>

Rollback(r, id) ==
  /\ active # None /\ active # id
  /\ StartDeployment(r, id, active)

\* Mutant: the revision was there when the request read it.
ReadOnce(q) == q.revision \in Ids

(* The foreign keys of the new row. *)
ForeignKeys(q) ==
  /\ q.revision \in Published
  /\ q.rollbackOf \in Published \cup {None}

CreateDeployment(r, d) ==
  /\ request[r].op = "deploy"
  /\ ForeignKeys(request[r])
  /\ deployments[d] = None
  /\ \A p \in Deployed : p.status = "finished"
  /\ deployments' = [deployments EXCEPT ![d] =
       [status |-> "queued", revision |-> request[r].revision,
        rollbackOf |-> request[r].rollbackOf, archived |-> FALSE]]
  /\ Respond(r)
  /\ UNCHANGED <<node, snapshots, drift, draft, revisions, active, applied, issued, changes>>

Has(d, status) == deployments[d] # None /\ deployments[d].status = status

SetStatus(d, status) == deployments' = [deployments EXCEPT ![d].status = status]

(* Claimed by the executor, or told to cancel: no longer deletable. *)
ClaimDeployment(d) ==
  /\ Has(d, "queued")
  /\ SetStatus(d, "started")
  /\ UNCHANGED <<node, snapshots, drift, draft, revisions, active, applied, request, issued, changes>>

MarkNodeApplied(d, n) ==
  /\ Has(d, "started")
  /\ applied' = [applied EXCEPT ![n] = deployments[d].revision]
  /\ UNCHANGED <<node, snapshots, drift, draft, revisions, active, deployments, request, issued, changes>>

FinishDeployment(d, activate) ==
  /\ Has(d, "started")
  /\ SetStatus(d, "finished")
  /\ active' = IF activate THEN deployments[d].revision ELSE active
  /\ UNCHANGED <<node, snapshots, drift, draft, revisions, applied, request, issued, changes>>

SetDeploymentArchived(d, archived) ==
  /\ Change
  /\ Has(d, "finished")
  /\ deployments[d].archived # archived
  /\ deployments' = [deployments EXCEPT ![d].archived = archived]
  /\ UNCHANGED <<node, snapshots, drift, draft, revisions, active, applied, request, issued>>

DeleteUnstartedDeployment(d) ==
  /\ Has(d, "queued")
  /\ deployments' = [deployments EXCEPT ![d] = None]
  /\ UNCHANGED <<node, snapshots, drift, draft, revisions, active, applied, request, issued, changes>>

-----------------------------------------------------------------------------
Environment ==
  \/ \E n \in Nodes : UpdateNode(n) \/ SoftDeleteNode(n)
  \/ \E n \in Nodes, v \in Values : SaveObservation(n, v)
  \/ \E s \in snapshots : UpsertDriftEvent(s)

DraftApi(r) ==
  \/ \E s \in snapshots : Import(r, s)
  \/ \E e \in drift : AdoptDrift(r, e)
  \/ UpdateDraft(r)
  \/ WriteDraft(r)
  \/ Refuse(r)

RevisionApi(r) ==
  \/ Publish(r)
  \/ \E id \in Ids : PublishRevision(r, id)

LifecycleApi ==
  \/ \E id \in Ids, archived \in BOOLEAN : SetRevisionArchived(id, archived)
  \/ \E id \in Ids : DeleteUnusedRevision(id)
  \/ \E d \in Deployments, archived \in BOOLEAN : SetDeploymentArchived(d, archived)
  \/ \E d \in Deployments : DeleteUnstartedDeployment(d)

DeploymentApi(r) ==
  \/ \E id \in Ids : StartDeployment(r, id, None) \/ Rollback(r, id)
  \/ \E d \in Deployments : CreateDeployment(r, d)

Executor ==
  \E d \in Deployments :
    \/ ClaimDeployment(d)
    \/ \E n \in Nodes : MarkNodeApplied(d, n)
    \/ \E activate \in BOOLEAN : FinishDeployment(d, activate)

Next ==
  \/ Environment
  \/ \E r \in Requests : DraftApi(r) \/ RevisionApi(r) \/ DeploymentApi(r)
  \/ LifecycleApi
  \/ Executor

Spec == Init /\ [][Next]_vars

-----------------------------------------------------------------------------
(* No revision that the cluster, a node, the draft, a deployment or a      *)
(* drift event names is ever deleted, whatever is created or deleted       *)
(* between a request's reads and its transaction (DeleteUnusedRevision,    *)
(* CreateDeployment).                                                      *)
ReferencesExist ==
  \A id \in Ids : active = id \/ Referenced(id) => id \in Published

Appears(id) == id \notin Published /\ revisions'[id] # None

(* A revision number is never given out twice, even after the deletion of  *)
(* revisions: MAX(revision_number)+1 is safe only because the draft keeps  *)
(* the latest revision from being deleted, through every import and        *)
(* removal of a node (PublishRevision, ImportDraft).                       *)
NumbersNeverReused ==
  [][\A id \in Ids : Appears(id) => revisions'[id].number > issued]_vars

(* What is published is the draft as it stands, validated in that very     *)
(* form, not one replaced since the request read it (Publish).             *)
PublishedAsReviewed ==
  [][\A id \in Ids : Appears(id) => revisions'[id].doc = draft.doc]_vars

(* A request only ever replaces the draft it read: no edit, import,        *)
(* adoption, publication or removal of a node that came in between is      *)
(* overwritten (UpdateConfigurationDraft, ImportDraft, PublishRevision).   *)
NoLostEdit ==
  [][\A r \in Requests :
       request'[r] # request[r] /\ draft' # draft => request[r].read = draft]_vars

=============================================================================
