-------------------------- MODULE RevisionsProofs --------------------------
(***************************************************************************)
(* Theorems about the draft and its revisions, for every set of nodes,     *)
(* values, identifiers and requests.                                       *)
(***************************************************************************)
EXTENDS Revisions, TLAPS

\* Zenon proves the steps that name no other prover.
USE ZenonT(30)

(* A version names one content of the draft: a request that still finds    *)
(* the version it read finds the draft it read.                            *)
ReadsCurrent ==
  \A r \in Requests : request[r] \in Writing =>
    /\ request[r].read.version <= draft.version
    /\ request[r].read.version = draft.version => request[r].read = draft
    /\ request[r].op = "publish" => request[r].doc = request[r].read.doc

(* The draft is based on the revision with the highest number ever given   *)
(* out, which is therefore still there.                                    *)
BaseIsLatest ==
  /\ \A id \in Published : revisions[id].number <= issued
  /\ draft.base = None => issued = 0
  /\ draft.base # None => /\ draft.base \in Published
                          /\ revisions[draft.base].number = issued

(* Everything a row names, and the draft's base, is published. *)
Retained ==
  /\ active \in Published \cup {None}
  /\ \A n \in Nodes : applied[n] \in Published \cup {None}
  /\ \A d \in Deployments : deployments[d] # None =>
       /\ deployments[d].revision \in Published
       /\ deployments[d].rollbackOf \in Published \cup {None}
  /\ \A e \in drift : e.revision \in Published

IInv == TypeOK /\ ReadsCurrent /\ BaseIsLatest /\ Retained

(* Taking an observation into a document gives a document. *)
LEMMA MergeDocument ==
  ASSUME NEW own \in [Nodes -> Values \cup {None}], NEW s, s.node \in Nodes, s.value \in Values
  PROVE  Merge(own, s) \in Documents
BY DEF Merge, Documents

(* A draft that exists has a document. *)
LEMMA DraftDocument ==
  ASSUME TypeOK, draft # NoDraft
  PROVE  draft.doc \in Documents /\ draft.version \in Nat
BY DEF TypeOK, Drafts

(* What Begin stores is a request of the declared shape. *)
LEMMA BeginType ==
  ASSUME TypeOK, NEW r \in Requests, NEW doc \in Documents,
         NEW op \in {"import", "update", "adopt", "publish"}, Begin(r, op, doc)
  PROVE  TypeOK'
<1>1. [op |-> op, read |-> draft, doc |-> doc] \in Writing
  BY DEF TypeOK, Writing
<1>2. request' \in [Requests -> Writing \cup Deploying \cup {Idle}]
  BY <1>1 DEF TypeOK, Begin
<1> QED
  BY <1>2 DEF TypeOK, Begin

(* The draft operations keep the types. *)
LEMMA DraftApiType ==
  ASSUME TypeOK, NEW r \in Requests, DraftApi(r)
  PROVE  TypeOK'
<1>1. ASSUME NEW s \in snapshots, Import(r, s) PROVE TypeOK'
  <2>1. s.node \in Nodes /\ s.value \in Values
    BY <1>1 DEF TypeOK, Snapshots
  <2>2. (IF draft = NoDraft THEN [n \in Nodes |-> None] ELSE draft.doc.own) \in [Nodes -> Values \cup {None}]
    BY DraftDocument DEF Documents
  <2>3. Merge(IF draft = NoDraft THEN [n \in Nodes |-> None] ELSE draft.doc.own, s) \in Documents
    BY <2>1, <2>2, MergeDocument
  <2> QED
    BY <1>1, <2>3, BeginType DEF Import
<1>2. ASSUME NEW e \in drift, AdoptDrift(r, e) PROVE TypeOK'
  <2>1. e.node \in Nodes /\ e.value \in Values
    BY <1>2 DEF TypeOK, DriftEvents
  <2>2. draft.doc.own \in [Nodes -> Values \cup {None}]
    BY <1>2, DraftDocument DEF AdoptDrift, Documents
  <2>3. Merge(draft.doc.own, e) \in Documents
    BY <2>1, <2>2, MergeDocument
  <2> QED
    BY <1>2, <2>3, BeginType DEF AdoptDrift
<1>3. CASE UpdateDraft(r)
  <2>1. draft.doc \in Documents
    BY <1>3, DraftDocument DEF UpdateDraft
  <2>2. \A v \in Values : [draft.doc EXCEPT !.shared = v] \in Documents
    BY <2>1 DEF Documents
  <2>3. \A n \in Nodes, v \in Values \cup {None} : [draft.doc EXCEPT !.own[n] = v] \in Documents
    BY <2>1 DEF Documents
  <2> QED
    BY <1>3, <2>2, <2>3, BeginType DEF UpdateDraft
<1>4. CASE WriteDraft(r)
  <2>1. request[r] \in Writing
    BY <1>4, SMTT(30) DEF WriteDraft, TypeOK, Deploying, Idle
  <2>2. draft' \in Drafts /\ draft'.version # 0 /\ draft'.doc \in Documents
    BY <1>4, <2>1, SMTT(30) DEF WriteDraft, BaseAfter, TypeOK, Writing, Drafts
  <2>3. request' \in [Requests -> Writing \cup Deploying \cup {Idle}]
    BY <1>4 DEF WriteDraft, Respond, TypeOK
  <2> QED
    BY <1>4, <2>2, <2>3 DEF WriteDraft, TypeOK
<1>5. CASE Refuse(r)
  BY <1>5 DEF Refuse, Respond, TypeOK
<1> QED
  BY <1>1, <1>2, <1>3, <1>4, <1>5 DEF DraftApi

(* Publishing keeps the types. *)
LEMMA RevisionApiType ==
  ASSUME TypeOK, ReadsCurrent, NEW r \in Requests, RevisionApi(r)
  PROVE  TypeOK'
<1>1. CASE Publish(r)
  BY <1>1, DraftDocument, BeginType DEF Publish
<1>2. ASSUME NEW id \in Ids, PublishRevision(r, id) PROVE TypeOK'
  <2>1. request[r] \in Writing /\ request[r].doc \in Documents
    BY <1>2, SMTT(30) DEF PublishRevision, TypeOK, Writing, Deploying, Idle
  <2>2. PICK k \in 1 .. issued + 1 :
          /\ revisions' = [revisions EXCEPT ![id] =
                             [doc |-> request[r].doc, number |-> k, archived |-> FALSE]]
          /\ issued' = IF k > issued THEN k ELSE issued
    BY <1>2 DEF PublishRevision
  <2>3. k \in Nat \ {0} /\ issued' \in Nat
    BY <2>2, SMTT(30) DEF TypeOK
  <2>4. [doc |-> request[r].doc, number |-> k, archived |-> FALSE] \in RevisionRows
    BY <2>1, <2>3 DEF RevisionRows
  <2>5. revisions' \in [Ids -> RevisionRows \cup {None}]
    BY <2>2, <2>4 DEF TypeOK
  <2>6. draft.version # 0
    <3>1. request[r].doc = request[r].read.doc /\ request[r].read = draft
      BY <1>2, <2>1 DEF PublishRevision, ReadsCurrent
    <3>2. draft.version = 0 => draft.doc = None
      BY SMTT(30) DEF TypeOK, NoDraft
    <3> QED
      BY <2>1, <3>1, <3>2, RevisionsConstants
  <2>7. draft' \in Drafts /\ draft'.version # 0 /\ draft'.doc \in Documents
    <3>1. draft \in Drafts /\ draft.doc \in Documents
      BY <2>6 DEF TypeOK
    <3>2. draft' = [version |-> draft.version + 1, doc |-> draft.doc, base |-> id]
      BY <1>2, <3>1 DEF PublishRevision, Drafts
    <3> QED
      BY <3>1, <3>2, SMTT(30) DEF Drafts
  <2>8. request' \in [Requests -> Writing \cup Deploying \cup {Idle}]
    BY <1>2 DEF PublishRevision, Respond, TypeOK
  <2> QED
    BY <1>2, <2>3, <2>5, <2>7, <2>8 DEF PublishRevision, TypeOK
<1> QED
  BY <1>1, <1>2 DEF RevisionApi

(* Starting a deployment keeps the types. *)
LEMMA DeploymentApiType ==
  ASSUME TypeOK, NEW r \in Requests, DeploymentApi(r)
  PROVE  TypeOK'
<1>1. ASSUME NEW id \in Ids, NEW other \in Ids \cup {None}, StartDeployment(r, id, other)
      PROVE  TypeOK'
  <2>1. [op |-> "deploy", revision |-> id, rollbackOf |-> other] \in Deploying
    BY DEF Deploying
  <2>2. request' \in [Requests -> Writing \cup Deploying \cup {Idle}]
    BY <1>1, <2>1 DEF StartDeployment, TypeOK
  <2> QED
    BY <1>1, <2>2 DEF StartDeployment, TypeOK
<1>2. ASSUME NEW d \in Deployments, CreateDeployment(r, d) PROVE TypeOK'
  <2>1. request[r] \in Deploying
    BY <1>2, SMTT(30) DEF CreateDeployment, TypeOK, Writing, Idle
  <2>2. [status |-> "queued", revision |-> request[r].revision,
         rollbackOf |-> request[r].rollbackOf, archived |-> FALSE] \in DeploymentRows
    BY <2>1 DEF Deploying, DeploymentRows
  <2>3. deployments' \in [Deployments -> DeploymentRows \cup {None}]
    BY <1>2, <2>2 DEF CreateDeployment, TypeOK
  <2>4. request' \in [Requests -> Writing \cup Deploying \cup {Idle}]
    BY <1>2 DEF CreateDeployment, Respond, TypeOK
  <2> QED
    BY <1>2, <2>3, <2>4 DEF CreateDeployment, TypeOK
<1>3. ASSUME NEW id \in Ids, Rollback(r, id) PROVE TypeOK'
  BY <1>1, <1>3 DEF Rollback, TypeOK
<1> QED
  BY <1>1, <1>2, <1>3 DEF DeploymentApi

(* Setting a field of a row that is there gives a row. *)
LEMMA DeploymentRow ==
  ASSUME TypeOK, NEW d \in Deployments, NEW status, Has(d, status)
  PROVE  deployments[d] \in DeploymentRows
BY DEF Has, TypeOK

(* The executor keeps the types. *)
LEMMA ExecutorType ==
  ASSUME TypeOK, Executor
  PROVE  TypeOK'
<1> PICK d \in Deployments :
      \/ ClaimDeployment(d)
      \/ \E n \in Nodes : MarkNodeApplied(d, n)
      \/ \E activate \in BOOLEAN : FinishDeployment(d, activate)
  BY DEF Executor
<1>1. deployments[d] \in DeploymentRows
  BY DeploymentRow DEF ClaimDeployment, MarkNodeApplied, FinishDeployment
<1>2. deployments[d].revision \in Ids
  BY <1>1 DEF DeploymentRows
<1>3. ASSUME NEW status \in {"started", "finished"}, SetStatus(d, status)
      PROVE  deployments' \in [Deployments -> DeploymentRows \cup {None}]
  <2>1. [deployments[d] EXCEPT !.status = status] \in DeploymentRows
    BY <1>1 DEF DeploymentRows
  <2> QED
    BY <1>3, <2>1 DEF SetStatus, TypeOK
<1>4. CASE ClaimDeployment(d)
  BY <1>3, <1>4 DEF ClaimDeployment, TypeOK
<1>5. CASE \E n \in Nodes : MarkNodeApplied(d, n)
  BY <1>2, <1>5 DEF MarkNodeApplied, TypeOK
<1>6. CASE \E activate \in BOOLEAN : FinishDeployment(d, activate)
  BY <1>2, <1>3, <1>6 DEF FinishDeployment, TypeOK
<1> QED
  BY <1>4, <1>5, <1>6

(* Archiving and deleting keep the types. *)
LEMMA LifecycleApiType ==
  ASSUME TypeOK, LifecycleApi
  PROVE  TypeOK'
<1>1. ASSUME NEW id \in Ids, NEW archived \in BOOLEAN, SetRevisionArchived(id, archived)
      PROVE  TypeOK'
  <2>1. [revisions[id] EXCEPT !.archived = archived] \in RevisionRows
    BY <1>1, SMTT(30) DEF SetRevisionArchived, Published, TypeOK, RevisionRows
  <2>2. revisions' \in [Ids -> RevisionRows \cup {None}]
    BY <1>1, <2>1 DEF SetRevisionArchived, TypeOK
  <2> QED
    BY <1>1, <2>2, SMTT(30) DEF SetRevisionArchived, Change, TypeOK
<1>2. ASSUME NEW id \in Ids, DeleteUnusedRevision(id) PROVE TypeOK'
  BY <1>2 DEF DeleteUnusedRevision, TypeOK
<1>3. ASSUME NEW d \in Deployments, NEW archived \in BOOLEAN, SetDeploymentArchived(d, archived)
      PROVE  TypeOK'
  <2>1. [deployments[d] EXCEPT !.archived = archived] \in DeploymentRows
    BY <1>3, DeploymentRow DEF SetDeploymentArchived, DeploymentRows
  <2>2. deployments' \in [Deployments -> DeploymentRows \cup {None}]
    BY <1>3, <2>1 DEF SetDeploymentArchived, TypeOK
  <2> QED
    BY <1>3, <2>2, SMTT(30) DEF SetDeploymentArchived, Change, TypeOK
<1>4. ASSUME NEW d \in Deployments, DeleteUnstartedDeployment(d) PROVE TypeOK'
  BY <1>4 DEF DeleteUnstartedDeployment, TypeOK
<1> QED
  BY <1>1, <1>2, <1>3, <1>4 DEF LifecycleApi

(* Removing a node leaves a draft, at a version at least as high. *)
LEMMA DroppedDraft ==
  ASSUME TypeOK, NEW n \in Nodes
  PROVE  /\ Dropped(n) \in Drafts
         /\ IF Dropped(n).version = 0 THEN Dropped(n) = NoDraft ELSE Dropped(n).doc \in Documents
         /\ Dropped(n).base = draft.base
         /\ Dropped(n) = draft \/ Dropped(n).version = draft.version + 1
<1>1. CASE draft.version # 0 /\ draft.doc.own[n] # None
  <2>1. draft \in Drafts /\ draft.doc \in Documents
    BY <1>1 DEF TypeOK
  <2>2. [draft.doc EXCEPT !.own[n] = None] \in Documents
    BY <2>1 DEF Documents
  <2>3. Dropped(n) = [version |-> draft.version + 1, base |-> draft.base,
                      doc |-> [draft.doc EXCEPT !.own[n] = None]]
    BY <1>1, <2>1 DEF Dropped, Drafts
  <2> QED
    BY <2>1, <2>2, <2>3, SMTT(30) DEF Drafts
<1>2. CASE ~(draft.version # 0 /\ draft.doc.own[n] # None)
  BY <1>2 DEF Dropped, TypeOK
<1> QED
  BY <1>1, <1>2

(* Observation, drift detection and node changes keep the types. *)
LEMMA EnvironmentType ==
  ASSUME TypeOK, Environment
  PROVE  TypeOK'
<1>1. ASSUME NEW n \in Nodes, UpdateNode(n) PROVE TypeOK'
  BY <1>1, SMTT(30) DEF UpdateNode, Change, TypeOK
<1>2. ASSUME NEW n \in Nodes, SoftDeleteNode(n) PROVE TypeOK'
  BY <1>2, DroppedDraft, SMTT(30) DEF SoftDeleteNode, Change, TypeOK
<1>3. ASSUME NEW n \in Nodes, NEW v \in Values, SaveObservation(n, v) PROVE TypeOK'
  BY <1>3, SMTT(30) DEF SaveObservation, Change, TypeOK, Snapshots
<1>4. ASSUME NEW s \in snapshots, UpsertDriftEvent(s) PROVE TypeOK'
  <2>1. [node |-> s.node, value |-> s.value, revision |-> active] \in DriftEvents
    BY <1>4 DEF UpsertDriftEvent, TypeOK, Snapshots, DriftEvents
  <2> QED
    BY <1>4, <2>1, SMTT(30) DEF UpsertDriftEvent, Change, TypeOK
<1> QED
  BY <1>1, <1>2, <1>3, <1>4 DEF Environment

(* Every step of the controller and its environment keeps the types. *)
LEMMA TypeStep ==
  ASSUME IInv, [Next]_vars
  PROVE  TypeOK'
<1>1. CASE UNCHANGED vars
  BY <1>1 DEF IInv, TypeOK, vars
<1>2. CASE Next
  BY <1>2, EnvironmentType, DraftApiType, RevisionApiType, DeploymentApiType,
     LifecycleApiType, ExecutorType DEF IInv, Next
<1> QED
  BY <1>1, <1>2

-----------------------------------------------------------------------------
(* A step that gives the draft a higher version, and leaves the requests   *)
(* in flight as they are or answers them, makes every other read stale.    *)
LEMMA NewVersion ==
  ASSUME TypeOK, ReadsCurrent, draft'.version = draft.version + 1,
         \A r \in Requests : request'[r] \in {request[r], Idle}
  PROVE  ReadsCurrent'
<1>0. draft'.version \in Nat /\ \A q \in Writing : q.read.version \in Nat
  BY SMTT(30) DEF TypeOK, Writing, Drafts
<1> SUFFICES ASSUME NEW r \in Requests, request'[r] \in Writing
             PROVE  /\ request'[r].read.version < draft'.version
                    /\ request'[r].op = "publish" => request'[r].doc = request'[r].read.doc
  BY <1>0, SMTT(30) DEF ReadsCurrent
<1>1. Idle \notin Writing
  BY DEF Idle, Writing
<1>2. request'[r] = request[r]
  BY <1>1
<1>3. request[r].read.version \in Nat /\ draft.version \in Nat
  BY <1>2 DEF Writing, Drafts, TypeOK
<1> QED
  BY <1>2, <1>3, SMTT(30) DEF ReadsCurrent

(* A step that leaves the draft alone, and a request in flight as it is,   *)
(* answered, or deploying.                                                 *)
LEMMA SameDraft ==
  ASSUME ReadsCurrent, draft' = draft,
         \A r \in Requests : request'[r] = request[r] \/ request'[r] \notin Writing
  PROVE  ReadsCurrent'
BY DEF ReadsCurrent

(* A request that has just read holds the current draft. *)
LEMMA BeginReads ==
  ASSUME TypeOK, ReadsCurrent, NEW r \in Requests, NEW op, NEW doc, Begin(r, op, doc),
         op = "publish" => doc = draft.doc
  PROVE  ReadsCurrent'
<1> SUFFICES ASSUME NEW q \in Requests, request'[q] \in Writing
             PROVE  /\ request'[q].read.version <= draft.version
                    /\ request'[q].read.version = draft.version => request'[q].read = draft
                    /\ request'[q].op = "publish" => request'[q].doc = request'[q].read.doc
  BY DEF ReadsCurrent, Begin
<1>1. draft.version \in Nat
  BY DEF TypeOK, Drafts
<1>2. CASE q = r
  BY <1>1, <1>2, SMTT(30) DEF Begin, TypeOK
<1>3. CASE q # r
  BY <1>3 DEF Begin, TypeOK, ReadsCurrent
<1> QED
  BY <1>2, <1>3

(* Answering a request changes no other. *)
LEMMA RespondOthers ==
  ASSUME TypeOK, NEW r \in Requests, Respond(r)
  PROVE  \A q \in Requests : request'[q] \in {request[q], Idle}
BY DEF Respond, TypeOK

(* Every step keeps each read in flight either stale or current. *)
LEMMA ReadsStep ==
  ASSUME IInv, [Next]_vars
  PROVE  ReadsCurrent'
<1> USE DEF IInv
<1>1. Idle \notin Writing
  BY DEF Idle, Writing
<1>2. CASE UNCHANGED vars
  BY <1>2, SameDraft DEF vars
<1>3. CASE Environment
  <2>1. CASE \E n \in Nodes : SoftDeleteNode(n)
    <3> PICK n \in Nodes : SoftDeleteNode(n)
      BY <2>1
    <3>1. request' = request /\ draft' = Dropped(n)
      BY DEF SoftDeleteNode
    <3>2. draft' = draft \/ draft'.version = draft.version + 1
      BY <3>1, DroppedDraft
    <3> QED
      BY <3>1, <3>2, NewVersion, SameDraft
  <2>2. CASE ~ \E n \in Nodes : SoftDeleteNode(n)
    <3>1. draft' = draft /\ request' = request
      BY <1>3, <2>2 DEF Environment, UpdateNode, SaveObservation, UpsertDriftEvent
    <3> QED
      BY <3>1, SameDraft
  <2> QED
    BY <2>1, <2>2
<1>4. ASSUME NEW r \in Requests, DraftApi(r) PROVE ReadsCurrent'
  <2>1. CASE WriteDraft(r)
    <3>1. draft'.version = draft.version + 1 /\ Respond(r)
      BY <2>1 DEF WriteDraft
    <3> QED
      BY <3>1, RespondOthers, NewVersion
  <2>2. CASE Refuse(r)
    <3>1. draft' = draft /\ Respond(r)
      BY <2>2 DEF Refuse
    <3> QED
      BY <1>1, <3>1, RespondOthers, SameDraft
  <2>3. CASE UpdateDraft(r) \/ (\E s \in snapshots : Import(r, s)) \/ \E e \in drift : AdoptDrift(r, e)
    BY <2>3, BeginReads DEF UpdateDraft, Import, AdoptDrift
  <2> QED
    BY <1>4, <2>1, <2>2, <2>3 DEF DraftApi
<1>5. ASSUME NEW r \in Requests, RevisionApi(r) PROVE ReadsCurrent'
  <2>1. CASE Publish(r)
    BY <2>1, BeginReads DEF Publish
  <2>2. ASSUME NEW id \in Ids, PublishRevision(r, id) PROVE ReadsCurrent'
    <3>1. draft'.version = draft.version + 1 /\ Respond(r)
      BY <2>2 DEF PublishRevision, TypeOK, Drafts
    <3> QED
      BY <3>1, RespondOthers, NewVersion
  <2> QED
    BY <1>5, <2>1, <2>2 DEF RevisionApi
<1>6. ASSUME NEW r \in Requests, DeploymentApi(r) PROVE ReadsCurrent'
  <2>1. ASSUME NEW id, NEW other, StartDeployment(r, id, other) PROVE ReadsCurrent'
    <3>1. draft' = draft /\ \A q \in Requests : q # r => request'[q] = request[q]
      BY <2>1 DEF StartDeployment, TypeOK
    <3>2. request'[r] \notin Writing
      BY <2>1 DEF StartDeployment, TypeOK, Writing
    <3> QED
      BY <3>1, <3>2, SameDraft
  <2>2. ASSUME NEW d \in Deployments, CreateDeployment(r, d) PROVE ReadsCurrent'
    <3>1. draft' = draft /\ Respond(r)
      BY <2>2 DEF CreateDeployment
    <3> QED
      BY <1>1, <3>1, RespondOthers, SameDraft
  <2> QED
    BY <1>6, <2>1, <2>2 DEF DeploymentApi, Rollback
<1>7. CASE LifecycleApi \/ Executor
  <2>1. draft' = draft /\ request' = request
    BY <1>7 DEF LifecycleApi, Executor, SetRevisionArchived, DeleteUnusedRevision,
       SetDeploymentArchived, DeleteUnstartedDeployment, ClaimDeployment, MarkNodeApplied, FinishDeployment
  <2> QED
    BY <2>1, SameDraft
<1> QED
  BY <1>2, <1>3, <1>4, <1>5, <1>6, <1>7 DEF Next

-----------------------------------------------------------------------------
(* A publication adds one revision, with a number above all of them, and   *)
(* bases the draft on it.                                                  *)
LEMMA PublicationFacts ==
  ASSUME IInv, NEW r \in Requests, NEW id \in Ids, PublishRevision(r, id)
  PROVE  /\ id \notin Published
         /\ Published' = Published \cup {id}
         /\ \A other \in Published : revisions'[other] = revisions[other]
         /\ revisions'[id].doc = draft.doc
         /\ revisions'[id].number > issued
         /\ issued' = revisions'[id].number
         /\ draft'.base = id
         /\ request[r].read = draft
<1> USE DEF IInv
<1>1. request[r] \in Writing
  BY SMTT(30) DEF PublishRevision, TypeOK, Deploying, Idle
<1>2. request[r].read = draft /\ request[r].doc = draft.doc /\ request[r].doc \in Documents
  BY <1>1 DEF PublishRevision, ReadsCurrent, Writing
<1>3. PICK k \in 1 .. issued + 1 :
        /\ NextNumber(k)
        /\ revisions' = [revisions EXCEPT ![id] =
                           [doc |-> request[r].doc, number |-> k, archived |-> FALSE]]
        /\ issued' = IF k > issued THEN k ELSE issued
  BY DEF PublishRevision
<1>4. id \notin Published
  BY DEF PublishRevision, Fresh
<1>5. k \in Nat \ {0} /\ issued \in Nat
  BY SMTT(30) DEF TypeOK
<1>6. k > issued
  <2>1. CASE draft.base = None
    BY <1>5, <2>1, SMTT(30) DEF BaseIsLatest
  <2>2. CASE draft.base # None
    BY <1>3, <1>5, <2>2 DEF BaseIsLatest, NextNumber
  <2> QED
    BY <2>1, <2>2
<1>7. revisions'[id] = [doc |-> request[r].doc, number |-> k, archived |-> FALSE]
  BY <1>3 DEF TypeOK
<1>8. revisions'[id] \in RevisionRows
  BY <1>2, <1>5, <1>7, SMTT(30) DEF RevisionRows
<1>9. revisions'[id] # None
  BY <1>8, RevisionsConstants
<1>10. \A other \in Ids \ {id} : revisions'[other] = revisions[other]
  BY <1>3 DEF TypeOK
<1>11. Published' = Published \cup {id}
  BY <1>9, <1>10 DEF Published
<1>12. draft'.base = id
  BY DEF PublishRevision, TypeOK, Drafts
<1> QED
  BY <1>2, <1>3, <1>4, <1>6, <1>7, <1>10, <1>11, <1>12, SMTT(30) DEF Published

(* A request that writes the draft keeps what the draft is based on. *)
LEMMA WriteFacts ==
  ASSUME IInv, NEW r \in Requests, WriteDraft(r)
  PROVE  draft'.base = draft.base /\ request[r].read = draft
<1>1. request[r] \in Writing
  BY SMTT(30) DEF IInv, WriteDraft, TypeOK, Deploying, Idle
<1>2. request[r].read = draft
  BY <1>1 DEF IInv, WriteDraft, ReadsCurrent
<1> QED
  BY <1>2 DEF WriteDraft, BaseAfter

(* Archiving a revision, or restoring it, changes neither which there are  *)
(* nor their numbers.                                                      *)
LEMMA ArchiveFacts ==
  ASSUME TypeOK, NEW id \in Ids, NEW archived \in BOOLEAN, SetRevisionArchived(id, archived)
  PROVE  /\ Published' = Published
         /\ \A other \in Published : revisions'[other].number = revisions[other].number
<1>1. revisions[id] \in RevisionRows
  BY DEF SetRevisionArchived, Published, TypeOK
<1>2. revisions'[id] = [revisions[id] EXCEPT !.archived = archived]
  BY DEF SetRevisionArchived, TypeOK
<1>3. revisions'[id] \in RevisionRows /\ revisions'[id].number = revisions[id].number
  BY <1>1, <1>2 DEF RevisionRows
<1>4. revisions'[id] # None /\ revisions[id] # None
  BY <1>1, <1>3, RevisionsConstants
<1>5. \A other \in Ids \ {id} : revisions'[other] = revisions[other]
  BY DEF SetRevisionArchived, TypeOK
<1> QED
  BY <1>3, <1>4, <1>5 DEF Published

(* A deletion removes a revision that nothing names. *)
LEMMA DeletionFacts ==
  ASSUME TypeOK, NEW id \in Ids, DeleteUnusedRevision(id)
  PROVE  /\ Published' = Published \ {id}
         /\ \A other \in Published \ {id} : revisions'[other] = revisions[other]
         /\ active # id /\ ~Referenced(id)
BY DEF DeleteUnusedRevision, DeleteAccepted, Published, TypeOK

(* The other steps change neither the revisions, nor the numbers given     *)
(* out, nor what the draft is based on.                                    *)
LEMMA OtherSteps ==
  ASSUME IInv, [Next]_vars,
         ~ \E r \in Requests, id \in Ids : PublishRevision(r, id),
         ~ \E id \in Ids, archived \in BOOLEAN : SetRevisionArchived(id, archived),
         ~ \E id \in Ids : DeleteUnusedRevision(id)
  PROVE  revisions' = revisions /\ issued' = issued /\ draft'.base = draft.base
<1>1. CASE UNCHANGED vars
  BY <1>1 DEF vars
<1>2. CASE Environment
  BY <1>2, DroppedDraft DEF IInv, Environment, UpdateNode, SaveObservation, UpsertDriftEvent, SoftDeleteNode
<1>3. ASSUME NEW r \in Requests, DraftApi(r) PROVE revisions' = revisions /\ issued' = issued /\ draft'.base = draft.base
  <2>1. CASE WriteDraft(r)
    BY <2>1, WriteFacts DEF WriteDraft
  <2>2. CASE ~WriteDraft(r)
    BY <1>3, <2>2 DEF DraftApi, Import, AdoptDrift, UpdateDraft, Begin, Refuse
  <2> QED
    BY <2>1, <2>2
<1>4. ASSUME NEW r \in Requests, RevisionApi(r) PROVE revisions' = revisions /\ issued' = issued /\ draft'.base = draft.base
  BY <1>4 DEF RevisionApi, Publish, Begin
<1>5. ASSUME NEW r \in Requests, DeploymentApi(r) PROVE revisions' = revisions /\ issued' = issued /\ draft'.base = draft.base
  BY <1>5 DEF DeploymentApi, Rollback, StartDeployment, CreateDeployment
<1>6. CASE LifecycleApi
  BY <1>6 DEF LifecycleApi, SetDeploymentArchived, DeleteUnstartedDeployment
<1>7. CASE Executor
  BY <1>7 DEF Executor, ClaimDeployment, MarkNodeApplied, FinishDeployment
<1> QED
  BY <1>1, <1>2, <1>3, <1>4, <1>5, <1>6, <1>7 DEF Next

(* The draft stays based on the revision with the highest number ever      *)
(* given out.                                                              *)
LEMMA BaseStep ==
  ASSUME IInv, [Next]_vars
  PROVE  BaseIsLatest'
<1> USE DEF IInv
<1>1. ASSUME NEW r \in Requests, NEW id \in Ids, PublishRevision(r, id) PROVE BaseIsLatest'
  <2>1. issued \in Nat /\ \A other \in Published : revisions[other].number \in Nat
    BY DEF TypeOK, Published, RevisionRows
  <2>2. issued' \in Nat
    BY <1>1, TypeStep DEF TypeOK, Next, RevisionApi
  <2>3. id # None
    BY RevisionsConstants
  <2> QED
    BY <1>1, <2>1, <2>2, <2>3, PublicationFacts, SMTT(30) DEF BaseIsLatest
<1>2. ASSUME NEW id \in Ids, NEW archived \in BOOLEAN, SetRevisionArchived(id, archived) PROVE BaseIsLatest'
  <2>1. draft' = draft /\ issued' = issued
    BY <1>2 DEF SetRevisionArchived
  <2> QED
    BY <1>2, <2>1, ArchiveFacts DEF BaseIsLatest
<1>3. ASSUME NEW id \in Ids, DeleteUnusedRevision(id) PROVE BaseIsLatest'
  <2>1. draft' = draft /\ issued' = issued /\ draft.base # id
    BY <1>3, DeletionFacts DEF DeleteUnusedRevision, Referenced
  <2> QED
    BY <1>3, <2>1, DeletionFacts DEF BaseIsLatest
<1>4. CASE /\ ~ \E r \in Requests, id \in Ids : PublishRevision(r, id)
           /\ ~ \E id \in Ids, archived \in BOOLEAN : SetRevisionArchived(id, archived)
           /\ ~ \E id \in Ids : DeleteUnusedRevision(id)
  BY <1>4, OtherSteps DEF BaseIsLatest, Published
<1> QED
  BY <1>1, <1>2, <1>3, <1>4

-----------------------------------------------------------------------------
(* What is retained stays retained when no revision disappears and no row  *)
(* comes to name another one.                                              *)
LEMMA RetainedStays ==
  ASSUME Retained, Published \subseteq Published',
         active' = active, applied' = applied, deployments' = deployments, drift' = drift
  PROVE  Retained'
BY DEF Retained

(* What a queued or running deployment names is published. *)
LEMMA DeploymentRetained ==
  ASSUME TypeOK, Retained, NEW d \in Deployments, NEW status, Has(d, status)
  PROVE  deployments[d].revision \in Published /\ deployments[d].rollbackOf \in Published \cup {None}
BY DEF Has, Retained

(* Setting a field of a row that is no reference. *)
LEMMA ReferencesKept ==
  ASSUME TypeOK, Retained, NEW d \in Deployments, NEW status, Has(d, status),
         NEW row \in DeploymentRows,
         row.revision = deployments[d].revision, row.rollbackOf = deployments[d].rollbackOf,
         deployments' = [deployments EXCEPT ![d] = row]
  PROVE  \A p \in Deployments : deployments'[p] # None =>
           /\ deployments'[p].revision \in Published
           /\ deployments'[p].rollbackOf \in Published \cup {None}
BY DEF TypeOK, Retained, Has

(* The executor only copies the revision its deployment names. *)
LEMMA ExecutorRetains ==
  ASSUME TypeOK, Retained, Executor
  PROVE  Retained'
<1> PICK d \in Deployments :
      \/ ClaimDeployment(d)
      \/ \E n \in Nodes : MarkNodeApplied(d, n)
      \/ \E activate \in BOOLEAN : FinishDeployment(d, activate)
  BY DEF Executor
<1>0. revisions' = revisions /\ drift' = drift /\ Published' = Published
  BY DEF ClaimDeployment, MarkNodeApplied, FinishDeployment, Published
<1>1. /\ deployments[d] \in DeploymentRows
      /\ deployments[d].revision \in Published
      /\ Has(d, "queued") \/ Has(d, "started")
  BY DeploymentRow, DeploymentRetained DEF ClaimDeployment, MarkNodeApplied, FinishDeployment
<1>2. ASSUME NEW status \in {"started", "finished"}, SetStatus(d, status)
      PROVE  \A p \in Deployments : deployments'[p] # None =>
               /\ deployments'[p].revision \in Published
               /\ deployments'[p].rollbackOf \in Published \cup {None}
  <2> DEFINE row == [deployments[d] EXCEPT !.status = status]
  <2>1. row \in DeploymentRows /\ row.revision = deployments[d].revision /\ row.rollbackOf = deployments[d].rollbackOf
    BY <1>1 DEF DeploymentRows
  <2>2. deployments' = [deployments EXCEPT ![d] = row]
    BY <1>2 DEF SetStatus
  <2> HIDE DEF row
  <2> QED
    BY <1>1, <2>1, <2>2, ReferencesKept
<1>3. CASE ClaimDeployment(d)
  BY <1>0, <1>2, <1>3 DEF ClaimDeployment, Retained
<1>4. CASE \E n \in Nodes : MarkNodeApplied(d, n)
  BY <1>0, <1>1, <1>4 DEF MarkNodeApplied, Retained, TypeOK
<1>5. CASE \E activate \in BOOLEAN : FinishDeployment(d, activate)
  BY <1>0, <1>1, <1>2, <1>5 DEF FinishDeployment, Retained
<1> QED
  BY <1>3, <1>4, <1>5

(* Archiving drops nothing, and deleting drops only what nobody names. *)
LEMMA LifecycleRetains ==
  ASSUME TypeOK, Retained, LifecycleApi
  PROVE  Retained'
<1>1. ASSUME NEW id \in Ids, NEW archived \in BOOLEAN, SetRevisionArchived(id, archived) PROVE Retained'
  BY <1>1, ArchiveFacts, RetainedStays DEF SetRevisionArchived
<1>2. ASSUME NEW id \in Ids, DeleteUnusedRevision(id) PROVE Retained'
  <2>1. /\ active' = active /\ applied' = applied /\ deployments' = deployments /\ drift' = drift
        /\ Published' = Published \ {id}
        /\ active # id /\ ~Referenced(id)
    BY <1>2, DeletionFacts DEF DeleteUnusedRevision
  <2>2. \A d \in Deployments : deployments[d] # None =>
          deployments[d].revision # id /\ deployments[d].rollbackOf # id
    BY <2>1 DEF Referenced, Deployed
  <2>3. (\A n \in Nodes : applied[n] # id) /\ \A e \in drift : e.revision # id
    BY <2>1 DEF Referenced
  <2> QED
    BY <2>1, <2>2, <2>3 DEF Retained
<1>3. ASSUME NEW d \in Deployments, NEW archived \in BOOLEAN, SetDeploymentArchived(d, archived) PROVE Retained'
  <2> DEFINE row == [deployments[d] EXCEPT !.archived = archived]
  <2>1. row \in DeploymentRows /\ row.revision = deployments[d].revision /\ row.rollbackOf = deployments[d].rollbackOf
    BY <1>3, DeploymentRow DEF SetDeploymentArchived, DeploymentRows
  <2>2. deployments' = [deployments EXCEPT ![d] = row] /\ Has(d, "finished")
    BY <1>3 DEF SetDeploymentArchived
  <2> HIDE DEF row
  <2>3. \A p \in Deployments : deployments'[p] # None =>
          /\ deployments'[p].revision \in Published
          /\ deployments'[p].rollbackOf \in Published \cup {None}
    BY <2>1, <2>2, ReferencesKept
  <2> QED
    BY <1>3, <2>3 DEF SetDeploymentArchived, Retained, Published
<1>4. ASSUME NEW d \in Deployments, DeleteUnstartedDeployment(d) PROVE Retained'
  BY <1>4 DEF DeleteUnstartedDeployment, Retained, Published, TypeOK
<1> QED
  BY <1>1, <1>2, <1>3, <1>4 DEF LifecycleApi

(* Every step keeps every named revision. *)
LEMMA RetainedStep ==
  ASSUME IInv, [Next]_vars
  PROVE  Retained'
<1> USE DEF IInv
<1>1. CASE UNCHANGED vars
  BY <1>1, RetainedStays DEF vars, Published
<1>2. CASE Environment
  <2>1. CASE \E s \in snapshots : UpsertDriftEvent(s)
    BY <2>1, SMTT(30) DEF UpsertDriftEvent, Retained, Published
  <2>2. CASE ~ \E s \in snapshots : UpsertDriftEvent(s)
    BY <1>2, <2>2, RetainedStays DEF Environment, UpdateNode, SoftDeleteNode, SaveObservation, Published
  <2> QED
    BY <2>1, <2>2
<1>3. ASSUME NEW r \in Requests, DraftApi(r) PROVE Retained'
  BY <1>3, RetainedStays DEF DraftApi, Import, AdoptDrift, UpdateDraft, Begin, WriteDraft, Refuse, Published
<1>4. ASSUME NEW r \in Requests, RevisionApi(r) PROVE Retained'
  <2>1. CASE Publish(r)
    BY <2>1, RetainedStays DEF Publish, Begin, Published
  <2>2. ASSUME NEW id \in Ids, PublishRevision(r, id) PROVE Retained'
    BY <2>2, PublicationFacts, RetainedStays DEF PublishRevision
  <2> QED
    BY <1>4, <2>1, <2>2 DEF RevisionApi
<1>5. ASSUME NEW r \in Requests, DeploymentApi(r) PROVE Retained'
  <2>1. ASSUME NEW id, NEW other, StartDeployment(r, id, other) PROVE Retained'
    BY <2>1, RetainedStays DEF StartDeployment, Published
  <2>2. ASSUME NEW d \in Deployments, CreateDeployment(r, d) PROVE Retained'
    <3>1. /\ deployments'[d].revision \in Published
          /\ deployments'[d].rollbackOf \in Published \cup {None}
      BY <2>2 DEF CreateDeployment, ForeignKeys, TypeOK
    <3>2. \A p \in Deployments \ {d} : deployments'[p] = deployments[p]
      BY <2>2 DEF CreateDeployment, TypeOK
    <3>3. Published' = Published /\ active' = active /\ applied' = applied /\ drift' = drift
      BY <2>2 DEF CreateDeployment, Published
    <3> QED
      BY <3>1, <3>2, <3>3 DEF Retained
  <2> QED
    BY <1>5, <2>1, <2>2 DEF DeploymentApi, Rollback
<1>6. CASE LifecycleApi
  BY <1>6, LifecycleRetains
<1>7. CASE Executor
  BY <1>7, ExecutorRetains
<1> QED
  BY <1>1, <1>2, <1>3, <1>4, <1>5, <1>6, <1>7 DEF Next

-----------------------------------------------------------------------------
(* The initial states satisfy the inductive invariant. *)
LEMMA Initially ==
  ASSUME Init
  PROVE  IInv
<1>1. Published = {}
  BY DEF Init, Published
<1>2. TypeOK
  BY DEF Init, TypeOK, NoDraft, Drafts, Snapshots
<1>3. ReadsCurrent
  BY DEF Init, ReadsCurrent, Idle, Writing
<1>4. BaseIsLatest /\ Retained
  BY <1>1 DEF Init, BaseIsLatest, Retained, NoDraft
<1> QED
  BY <1>2, <1>3, <1>4 DEF IInv

(* The inductive invariant holds in every reachable state. *)
THEOREM Invariance == Spec => []IInv
<1>1. Init => IInv
  BY Initially
<1>2. IInv /\ [Next]_vars => IInv'
  BY TypeStep, ReadsStep, BaseStep, RetainedStep DEF IInv
<1> QED
  BY <1>1, <1>2, PTL DEF Spec

(* Whatever is created and deleted concurrently, no revision that the      *)
(* cluster, a node, the draft, a deployment or a drift event names is ever *)
(* deleted.                                                                *)
THEOREM NamedRevisionsExist == Spec => []ReferencesExist
<1>1. IInv => ReferencesExist
  <2> SUFFICES ASSUME IInv, NEW id \in Ids, active = id \/ Referenced(id)
               PROVE  id \in Published
    BY DEF ReferencesExist
  <2>1. id # None
    BY RevisionsConstants
  <2> QED
    BY <2>1, SMTT(30) DEF IInv, Retained, BaseIsLatest, Referenced, Deployed
<1> QED
  BY <1>1, Invariance, PTL

(* A new revision can only be the work of PublishRevision. *)
LEMMA Appearance ==
  ASSUME IInv, [Next]_vars, NEW id \in Ids, Appears(id)
  PROVE  \E r \in Requests : PublishRevision(r, id)
<1> USE DEF IInv
<1>1. ASSUME NEW r \in Requests, NEW other \in Ids, PublishRevision(r, other) PROVE other = id
  BY <1>1, PublicationFacts, SMTT(30) DEF Appears, Published
<1>2. ~ \E other \in Ids, archived \in BOOLEAN : SetRevisionArchived(other, archived)
  BY ArchiveFacts DEF Appears, Published
<1>3. ~ \E other \in Ids : DeleteUnusedRevision(other)
  BY DeletionFacts DEF Appears, Published
<1>4. \E r \in Requests, other \in Ids : PublishRevision(r, other)
  BY <1>2, <1>3, OtherSteps DEF Appears, Published
<1> QED
  BY <1>1, <1>4

(* No revision number is given out twice, for any number of revisions,     *)
(* deletions and concurrent requests.                                      *)
THEOREM NumbersAreFresh == Spec => NumbersNeverReused
<1>1. IInv /\ [Next]_vars => [\A id \in Ids : Appears(id) => revisions'[id].number > issued]_vars
  BY Appearance, PublicationFacts
<1> QED
  BY <1>1, Invariance, PTL DEF Spec, NumbersNeverReused

(* What is published is the draft as it stands. *)
THEOREM PublicationIsCurrent == Spec => PublishedAsReviewed
<1>1. IInv /\ [Next]_vars => [\A id \in Ids : Appears(id) => revisions'[id].doc = draft.doc]_vars
  BY Appearance, PublicationFacts
<1> QED
  BY <1>1, Invariance, PTL DEF Spec, PublishedAsReviewed

(* A request that changes the draft replaces the draft it read. *)
THEOREM EditsAreNotLost == Spec => NoLostEdit
<1>1. ASSUME IInv, [Next]_vars, NEW r \in Requests, request'[r] # request[r], draft' # draft
      PROVE  request[r].read = draft
  <2> USE DEF IInv
  <2>1. Next
    BY <1>1 DEF vars
  <2>2. ~Environment /\ ~LifecycleApi /\ ~Executor
    BY <1>1 DEF Environment, LifecycleApi, Executor, UpdateNode, SaveObservation, UpsertDriftEvent,
       SoftDeleteNode, SetRevisionArchived, DeleteUnusedRevision, SetDeploymentArchived,
       DeleteUnstartedDeployment, ClaimDeployment, MarkNodeApplied, FinishDeployment
  <2>3. PICK q \in Requests : DraftApi(q) \/ RevisionApi(q) \/ DeploymentApi(q)
    BY <2>1, <2>2 DEF Next
  <2>4. WriteDraft(q) \/ \E id \in Ids : PublishRevision(q, id)
    BY <1>1, <2>3 DEF DraftApi, RevisionApi, DeploymentApi, Import, AdoptDrift, UpdateDraft, Publish,
       Begin, Refuse, Rollback, StartDeployment, CreateDeployment
  <2>5. request[q].read = draft
    BY <1>1, <2>4, WriteFacts, PublicationFacts
  <2>6. q = r
    BY <1>1, <2>4 DEF WriteDraft, PublishRevision, Respond, TypeOK
  <2> QED
    BY <2>5, <2>6
<1>2. IInv /\ [Next]_vars =>
        [\A r \in Requests : request'[r] # request[r] /\ draft' # draft => request[r].read = draft]_vars
  BY <1>1
<1> QED
  BY <1>2, Invariance, PTL DEF Spec, NoLostEdit
=============================================================================
