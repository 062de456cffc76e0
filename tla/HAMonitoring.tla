---------------------------- MODULE HAMonitoring ----------------------------
(***************************************************************************)
(* HA monitoring: DNS probes with confirmation, the API health poll, the   *)
(* redundancy, certificate and version transitions that a monitoring pass  *)
(* derives and records as HA events, and the cached upstream release.      *)
(*                                                                         *)
(* Sources: internal/haoperations/{service,dnsprobe,releases}.go,          *)
(* internal/database/ha_operations.go, internal/jobs/{health,              *)
(* ha_operations,releases}.go.                                             *)
(*                                                                         *)
(* Two passes may run at once: the scheduled worker and a refresh that the *)
(* API asked for.  Each database or network call of a pass is a step.      *)
(* What happens outside the controller is bounded by MaxChanges.           *)
(***************************************************************************)
EXTENDS Naturals, Sequences, SequencesExt, FiniteSets

CONSTANTS
  Node,
  Snapshot,    \* observed TLS states: collected, tls, valid, days to expiry (0: expired)
  MinServing,  \* serving nodes that make DNS redundant; 2 in the code
  Tries,       \* attempts of a logical DNS probe; 3 in the code
  MaxVersion,  \* product versions are 1 .. MaxVersion, 0 is "not known"
  MaxChanges,  \* bound on environment changes, edits, faults and restarts
  Calls,       \* API calls that may happen
  Faults       \* faults that may happen

ASSUME MonitoringConstants ==
  /\ MinServing \in Nat /\ Tries \in Nat \ {0} /\ MaxVersion \in Nat \ {0} /\ MaxChanges \in Nat
  /\ Calls \subseteq {"refresh", "nodes", "tls", "release"}
  /\ Faults \subseteq {"dns", "api", "age", "repository", "cancel", "restart"}

Poller == {"worker", "refresh"}

VARIABLES
  real,        \* the nodes themselves: how DNS and API answer, installed version
  nodes,       \* table nodes, as far as Summary reads it
  latest,      \* the newest row of dns_probe_results of a node, by probed_at
  probe,       \* logical probes in flight
  order,       \* those of a node that have a probed_at, oldest first
  pass,        \* monitoring passes
  snap,        \* the latest configuration snapshot of a node
  tlsOff,      \* a snapshot without TLS: since the last certificate event, and the last
               \* collected one
  release,     \* upstream_release_cache
  upstream,    \* the version upstream offers
  dnsEvent,    \* last dns.* event of a node
  redundancy,  \* last redundancy.* event of the cluster
  certEvent,   \* last certificate.* event of a node
  verEvent,    \* last version.* event of a node
  changes      \* used-up part of MaxChanges

vars == <<real, nodes, latest, probe, order, pass, snap, tlsOff, release, upstream, dnsEvent,
          redundancy, certEvent, verEvent, changes>>
world == <<real, snap, upstream>>
eventVars == <<dnsEvent, redundancy, certEvent, verEvent>>

ProbeStatus == {"none", "healthy", "stale", "failed"}
ProbeRow == [pc : {"none", "start", "wait", "previous", "save"}, tries : 0 .. Tries,
             status : ProbeStatus, prev : ProbeStatus, behind : BOOLEAN]
NoProbe == [pc |-> "none", tries |-> 0, status |-> "none", prev |-> "none", behind |-> FALSE]
HAStates == {"none", "healthy", "degraded", "at_risk"}
Alerts == {"warning", "critical", "expired"}
VersionRow == [type : {"none", "current", "update_available"}, target : 0 .. MaxVersion]
PassStep == {"idle", "probing", "redundancy", "announce", "certificates", "certificate",
             "version"}
IdlePass == [pc |-> "idle", seen |-> "none", prev |-> "none", todo |-> {}]

TypeOK ==
  /\ real \in [Node -> [dns : {"up", "down", "invalid"}, api : BOOLEAN, version : 1 .. MaxVersion]]
  /\ nodes \in [Node -> [enabled : BOOLEAN, maintenance : BOOLEAN, converged : BOOLEAN,
                         healthy : BOOLEAN, version : 1 .. MaxVersion]]
  /\ latest \in [Node -> ProbeStatus]
  /\ probe \in [Poller -> [Node -> ProbeRow]]
  /\ \A n \in Node : order[n] \in Seq(Poller) /\ IsInjective(order[n])
  /\ \A p \in Poller : pass[p].pc \in PassStep /\ pass[p].todo \subseteq Node
  /\ snap \in [Node -> Snapshot] /\ tlsOff \in [Node -> [since : BOOLEAN, last : BOOLEAN]]
  /\ release \in [version : 0 .. MaxVersion, expired : BOOLEAN]
  /\ upstream \in 1 .. MaxVersion
  /\ dnsEvent \in [Node -> {"none", "healthy", "failed"}]
  /\ redundancy \in HAStates
  /\ certEvent \in [Node -> {"none", "healthy"} \cup Alerts]
  /\ verEvent \in [Node -> VersionRow]
  /\ changes \in 0 .. MaxChanges

Init ==
  /\ real = [n \in Node |-> [dns |-> "up", api |-> TRUE, version |-> 1]]
  /\ nodes = [n \in Node |-> [enabled |-> TRUE, maintenance |-> FALSE, converged |-> TRUE,
                              healthy |-> TRUE, version |-> 1]]
  /\ latest = [n \in Node |-> "none"]
  /\ probe = [p \in Poller |-> [n \in Node |-> NoProbe]]
  /\ order = [n \in Node |-> <<>>]
  /\ pass = [p \in Poller |-> IdlePass]
  /\ snap \in [Node -> {s \in Snapshot : ~s.collected}]
  /\ tlsOff = [n \in Node |-> [since |-> FALSE, last |-> FALSE]]
  /\ release = [version |-> 1, expired |-> FALSE]
  /\ upstream = 1
  /\ dnsEvent = [n \in Node |-> "none"]
  /\ redundancy = "none"
  /\ certEvent = [n \in Node |-> "none"]
  /\ verEvent = [n \in Node |-> [type |-> "none", target |-> 0]]
  /\ changes = 0

-----------------------------------------------------------------------------
\* Outside the pass

Change == changes < MaxChanges /\ changes' = changes + 1

DNSChanges(n) ==
  /\ "dns" \in Faults /\ Change
  /\ \E d \in {"up", "down", "invalid"} \ {real[n].dns} : real' = [real EXCEPT ![n].dns = d]
  /\ UNCHANGED <<nodes, latest, probe, order, pass, snap, tlsOff, release, upstream, eventVars>>
APIChanges(n) ==
  /\ "api" \in Faults /\ Change
  /\ real' = [real EXCEPT ![n].api = ~@]
  /\ UNCHANGED <<nodes, latest, probe, order, pass, snap, tlsOff, release, upstream, eventVars>>
\* The operator upgrades a node; upstream publishes a release.
InstallVersion(n) ==
  /\ "release" \in Calls /\ Change
  /\ real[n].version < MaxVersion
  /\ real' = [real EXCEPT ![n].version = @ + 1]
  /\ UNCHANGED <<nodes, latest, probe, order, pass, snap, tlsOff, release, upstream, eventVars>>
PublishRelease ==
  /\ "release" \in Calls /\ Change
  /\ upstream < MaxVersion /\ upstream' = upstream + 1
  /\ UNCHANGED <<real, nodes, latest, probe, order, pass, snap, tlsOff, release, eventVars>>
\* Enabling, maintenance and convergence, modelled in NodeLifecycle and Deployments.
EditNode(n) ==
  /\ "nodes" \in Calls /\ Change
  /\ \/ nodes' = [nodes EXCEPT ![n].enabled = ~@]
     \/ nodes' = [nodes EXCEPT ![n].maintenance = ~@]
     \/ nodes' = [nodes EXCEPT ![n].converged = ~@]
  /\ UNCHANGED <<real, latest, probe, order, pass, snap, tlsOff, release, upstream, eventVars>>
\* A new snapshot, or a certificate that has come closer to its expiry.
ObserveTLS(n, s) ==
  /\ "tls" \in Calls /\ Change
  /\ snap' = [snap EXCEPT ![n] = s]
  /\ tlsOff' = [tlsOff EXCEPT ![n] =
       IF s.collected THEN [since |-> @.since \/ ~s.tls, last |-> ~s.tls] ELSE @]
  /\ UNCHANGED <<real, nodes, latest, probe, order, pass, release, upstream, eventVars>>

\* Evidence older than max(3 * interval, 2 minutes).
DNSFreshnessWindow(n) ==
  /\ "age" \in Faults /\ Change
  /\ latest[n] = "healthy"
  /\ latest' = [latest EXCEPT ![n] = "stale"]
  /\ UNCHANGED <<world, nodes, probe, order, pass, tlsOff, release, eventVars>>

\* HealthPoller.pollNode: the status call and the update that records it.
PollNode(n) ==
  /\ nodes[n].enabled
  /\ nodes[n].healthy # real[n].api \/ (real[n].api /\ nodes[n].version # real[n].version)
  /\ nodes' = [nodes EXCEPT ![n].healthy = real[n].api,
                            ![n].version = IF real[n].api THEN real[n].version ELSE @]
  /\ UNCHANGED <<world, latest, probe, order, pass, tlsOff, release, eventVars, changes>>

\* A failed check keeps the version that was cached.
RefreshReleases ==
  /\ release.expired
  /\ \/ release' = [version |-> upstream, expired |-> FALSE]
     \/ release' = [release EXCEPT !.expired = FALSE]
  /\ UNCHANGED <<world, nodes, latest, probe, order, pass, tlsOff, eventVars, changes>>
ReleaseCacheExpires ==
  /\ "release" \in Calls /\ Change
  /\ ~release.expired /\ release' = [release EXCEPT !.expired = TRUE]
  /\ UNCHANGED <<world, nodes, latest, probe, order, pass, tlsOff, eventVars>>

-----------------------------------------------------------------------------
\* Probes

Enabled == {n \in Node : nodes[n].enabled}

\* Nothing is probed or announced for a cluster without an enabled node.
BeginPass(p) ==
  /\ pass[p].pc = "idle" /\ Enabled # {}
  /\ p = "refresh" => "refresh" \in Calls
  /\ pass' = [pass EXCEPT ![p].pc = "probing"]
  /\ probe' = [probe EXCEPT ![p] =
       [n \in Node |-> IF nodes[n].enabled THEN [NoProbe EXCEPT !.pc = "start"] ELSE NoProbe]]
  /\ UNCHANGED <<world, nodes, latest, order, tlsOff, release, eventVars, changes>>

Forget(n, p) == SelectSeq(order[n], LAMBDA q : q # p)

\* ProbeNode wants an enabled node; each attempt takes its own probed_at.
StartAttempt(p, n) ==
  /\ probe[p][n].pc = "start"
  /\ IF nodes[n].enabled \/ probe[p][n].tries > 0
       THEN /\ probe' = [probe EXCEPT ![p][n].pc = "wait", ![p][n].behind = FALSE]
            /\ order' = [order EXCEPT ![n] = Append(Forget(n, p), p)]
       ELSE probe' = [probe EXCEPT ![p][n] = NoProbe] /\ UNCHANGED order
  /\ UNCHANGED <<world, nodes, latest, pass, tlsOff, release, eventVars, changes>>

\* Healthy at once; a failure that may pass only after Tries attempts.
Confirmed(row, dns) ==
  IF dns = "up" THEN [row EXCEPT !.pc = "previous", !.status = "healthy", !.tries = 0]
  ELSE IF dns = "down" /\ row.tries + 1 < Tries
    THEN [row EXCEPT !.pc = "start", !.tries = @ + 1]
    ELSE [row EXCEPT !.pc = "previous", !.status = "failed", !.tries = 0]
Answer(p, n) ==
  /\ probe[p][n].pc = "wait"
  /\ probe' = [probe EXCEPT ![p][n] = Confirmed(@, real[n].dns)]
  /\ UNCHANGED <<world, nodes, latest, order, pass, tlsOff, release, eventVars, changes>>

StoredStatus(n) == IF latest[n] = "stale" THEN "healthy" ELSE latest[n]
LatestDNSProbe(p, n) ==
  /\ probe[p][n].pc = "previous"
  /\ probe' = [probe EXCEPT ![p][n].pc = "save", ![p][n].prev = StoredStatus(n)]
  /\ UNCHANGED <<world, nodes, latest, order, pass, tlsOff, release, eventVars, changes>>

\* Mutant: a result that confirms the last one is not stored.
SaveTransitionsOnly(p, n) ==
  LET row == probe[p][n]
  IN  /\ row.pc = "save"
      /\ latest' = [latest EXCEPT ![n] = IF row.behind \/ row.prev = row.status THEN @ ELSE row.status]
      /\ dnsEvent' = [dnsEvent EXCEPT ![n] = row.status]
      /\ order' = [order EXCEPT ![n] = Forget(n, p)]
      /\ probe' = [probe EXCEPT ![p][n] = NoProbe]
      /\ UNCHANGED <<world, nodes, pass, tlsOff, release, redundancy, certEvent, verEvent, changes>>
\* The row, and in the same transaction an event if the status differs from the
\* one read before; the newest row is the one with the latest probed_at.
SaveDNSProbe(p, n) ==
  LET row == probe[p][n]
      older == {q \in Poller : \E i, j \in 1 .. Len(order[n]) :
                                 i < j /\ order[n][i] = q /\ order[n][j] = p}
  IN  /\ row.pc = "save"
      /\ latest' = [latest EXCEPT ![n] = IF row.behind THEN @ ELSE row.status]
      /\ dnsEvent' = [dnsEvent EXCEPT ![n] = IF row.prev = row.status THEN @ ELSE row.status]
      /\ order' = [order EXCEPT ![n] = Forget(n, p)]
      /\ probe' = [q \in Poller |->
           [probe[q] EXCEPT ![n] =
              IF q = p THEN NoProbe
              ELSE [@ EXCEPT !.behind = @ \/ q \in older]]]
      /\ UNCHANGED <<world, nodes, pass, tlsOff, release, redundancy, certEvent, verEvent, changes>>

\* A failed read counts as "no previous result"; a failed insert loses the result.
ProbeFails(p, n) ==
  /\ "repository" \in Faults /\ Change
  /\ \/ /\ probe[p][n].pc = "previous"
        /\ probe' = [probe EXCEPT ![p][n].pc = "save", ![p][n].prev = "none"]
        /\ UNCHANGED order
     \/ /\ probe[p][n].pc = "save"
        /\ probe' = [probe EXCEPT ![p][n] = NoProbe]
        /\ order' = [order EXCEPT ![n] = Forget(n, p)]
  /\ UNCHANGED <<world, nodes, latest, pass, tlsOff, release, eventVars>>

-----------------------------------------------------------------------------
\* Transitions of the cluster

Serving == {n \in Enabled : ~nodes[n].maintenance /\ latest[n] = "healthy"}
Summary ==
  IF Cardinality(Serving) < MinServing THEN "at_risk"
  ELSE IF \E n \in Enabled : ~nodes[n].healthy \/ ~nodes[n].converged \/ nodes[n].maintenance
    THEN "degraded" ELSE "healthy"

Advance(p, pc, seen, prev, todo) ==
  pass' = [pass EXCEPT ![p] = [pc |-> pc, seen |-> seen, prev |-> prev, todo |-> todo]]

ReadSummary(p) ==
  /\ pass[p].pc = "probing" /\ \A n \in Node : probe[p][n].pc = "none"
  /\ Advance(p, "redundancy", Summary, "none", {})
  /\ UNCHANGED <<world, nodes, latest, probe, order, tlsOff, release, eventVars, changes>>
\* Mutant: a degraded cluster is not announced.
ReadIgnoringDegraded(p) ==
  /\ pass[p].pc = "redundancy"
  /\ IF pass[p].seen \in {redundancy, "degraded"} THEN Advance(p, "certificates", "none", "none", {})
     ELSE Advance(p, "announce", pass[p].seen, "none", {})
  /\ UNCHANGED <<world, nodes, latest, probe, order, tlsOff, release, eventVars, changes>>
ReadRedundancyEvent(p) ==
  /\ pass[p].pc = "redundancy"
  /\ IF redundancy = pass[p].seen THEN Advance(p, "certificates", "none", "none", {})
     ELSE Advance(p, "announce", pass[p].seen, "none", {})
  /\ UNCHANGED <<world, nodes, latest, probe, order, tlsOff, release, eventVars, changes>>
RecordRedundancyTransition(p) ==
  /\ pass[p].pc = "announce"
  /\ redundancy' = pass[p].seen
  /\ Advance(p, "certificates", "none", "none", {})
  /\ UNCHANGED <<world, nodes, latest, probe, order, tlsOff, release, dnsEvent, certEvent, verEvent,
                 changes>>

-----------------------------------------------------------------------------
\* Transitions of the certificates

CertificateState(s) ==
  IF ~s.collected THEN "unknown"
  ELSE IF ~s.tls THEN "not_applicable"
  ELSE IF ~s.valid THEN "unknown"
  ELSE IF s.days = 0 THEN "expired"
  ELSE IF s.days <= 7 THEN "critical"
  ELSE IF s.days <= 30 THEN "warning" ELSE "healthy"

\* The two queries of a phase are one step here: what matters is that the
\* events they lead to are recorded later.
ReadCertificates(p) ==
  /\ pass[p].pc = "certificates"
  /\ Advance(p, "certificate", [n \in Node |-> CertificateState(snap[n])], certEvent, Node)
  /\ UNCHANGED <<world, nodes, latest, probe, order, tlsOff, release, eventVars, changes>>
\* Mutant: a recovery is not announced.
NeverRecovered(current, previous, disabled) ==
  /\ current \in Alerts
  /\ current # (IF disabled THEN "none" ELSE previous)
\* A healthy certificate is announced only as the recovery of an alert, and not
\* across a time without TLS.
CertificateEventDue(current, previous, disabled) ==
  /\ current \notin {"unknown", "not_applicable"}
  /\ current # (IF disabled THEN "none" ELSE previous)
  /\ current = "healthy" => previous # "none" /\ ~disabled
\* CertificateMonitoringDisabledSince: a snapshot without TLS at the last event
\* or after it.
DisabledSince(n) == tlsOff[n].since
RecordCertificateTransition(p, n) ==
  LET current == pass[p].seen[n]
  IN  /\ pass[p].pc = "certificate" /\ n \in pass[p].todo
      /\ IF CertificateEventDue(current, pass[p].prev[n], DisabledSince(n))
           THEN /\ certEvent' = [certEvent EXCEPT ![n] = current]
                /\ tlsOff' = [tlsOff EXCEPT ![n].since = tlsOff[n].last]
           ELSE UNCHANGED <<certEvent, tlsOff>>
      /\ pass' = [pass EXCEPT ![p].todo = @ \ {n}]
      /\ UNCHANGED <<world, nodes, latest, probe, order, release, dnsEvent, redundancy, verEvent,
                     changes>>

-----------------------------------------------------------------------------
\* Transitions of the versions

VersionState(n) ==
  [type |-> IF nodes[n].version < release.version THEN "update_available" ELSE "current",
   target |-> release.version]
\* Nothing is announced while the release is unknown or its cache expired.
ReadVersions(p) ==
  /\ pass[p].pc = "certificate" /\ pass[p].todo = {}
  /\ IF release.version = 0 \/ release.expired THEN Advance(p, "idle", "none", "none", {})
     ELSE Advance(p, "version", [n \in Node |-> VersionState(n)], verEvent, Node)
  /\ UNCHANGED <<world, nodes, latest, probe, order, tlsOff, release, eventVars, changes>>
\* Mutant: only an available update is announced.
RecordUpdateOnly(p, n) ==
  /\ pass[p].pc = "version" /\ n \in pass[p].todo
  /\ verEvent' = [verEvent EXCEPT ![n] =
       IF pass[p].seen[n].type = "current" THEN @ ELSE pass[p].seen[n]]
  /\ pass' = [pass EXCEPT ![p] =
       IF @.todo = {n} THEN IdlePass ELSE [@ EXCEPT !.todo = @ \ {n}]]
  /\ UNCHANGED <<world, nodes, latest, probe, order, tlsOff, release, dnsEvent, redundancy, certEvent,
                 changes>>
RecordVersionTransition(p, n) ==
  /\ pass[p].pc = "version" /\ n \in pass[p].todo
  /\ verEvent' = [verEvent EXCEPT ![n] =
       IF pass[p].seen[n] = pass[p].prev[n] THEN @ ELSE pass[p].seen[n]]
  /\ pass' = [pass EXCEPT ![p] =
       IF @.todo = {n} THEN IdlePass ELSE [@ EXCEPT !.todo = @ \ {n}]]
  /\ UNCHANGED <<world, nodes, latest, probe, order, tlsOff, release, dnsEvent, redundancy, certEvent,
                 changes>>

-----------------------------------------------------------------------------
\* A repository error ends the pass; a cancelled refresh and a restart end its
\* probes too.
Abandon(gone) ==
  /\ pass' = [p \in Poller |-> IF p \in gone THEN IdlePass ELSE pass[p]]
  /\ probe' = [p \in Poller |-> IF p \in gone THEN [n \in Node |-> NoProbe] ELSE probe[p]]
  /\ order' = [n \in Node |-> SelectSeq(order[n], LAMBDA q : q \notin gone)]
  /\ UNCHANGED <<world, nodes, latest, tlsOff, release, eventVars>>
PassFails(p) ==
  /\ "repository" \in Faults /\ Change
  /\ pass[p].pc \notin {"idle", "probing"} /\ Abandon({p})
CancelRefresh == "cancel" \in Faults /\ Change /\ pass["refresh"].pc # "idle" /\ Abandon({"refresh"})
Restart == "restart" \in Faults /\ Change /\ Abandon(Poller)

ProbeStep(p, n) == StartAttempt(p, n) \/ Answer(p, n) \/ LatestDNSProbe(p, n) \/ SaveDNSProbe(p, n)
PassStepOf(p) ==
  \/ BeginPass(p) \/ ReadSummary(p) \/ ReadRedundancyEvent(p) \/ RecordRedundancyTransition(p)
  \/ ReadCertificates(p) \/ ReadVersions(p)
  \/ \E n \in Node :
       ProbeStep(p, n) \/ RecordCertificateTransition(p, n) \/ RecordVersionTransition(p, n)

Next ==
  \/ \E n \in Node :
       \/ DNSChanges(n) \/ APIChanges(n) \/ InstallVersion(n) \/ EditNode(n)
       \/ DNSFreshnessWindow(n) \/ PollNode(n)
       \/ \E s \in Snapshot : ObserveTLS(n, s)
  \/ PublishRelease \/ RefreshReleases \/ ReleaseCacheExpires
  \/ \E p \in Poller :
       PassStepOf(p) \/ PassFails(p) \/ \E n \in Node : ProbeFails(p, n)
  \/ CancelRefresh \/ Restart

\* The scheduled workers run for ever and release checks succeed infinitely
\* often; a refresh runs to its end once it has begun.
Fairness ==
  /\ WF_vars(PassStepOf("worker"))
  /\ WF_vars(pass["refresh"].pc # "idle" /\ PassStepOf("refresh"))
  /\ \A n \in Node : WF_vars(PollNode(n))
Spec == Init /\ [][Next]_vars /\ Fairness

-----------------------------------------------------------------------------
\* Properties

\* Whatever order passes, retries, failed queries and restarts come in, the
\* newest stored probe of an enabled node ends up telling how it answers.
EvidenceConverges ==
  <>[](\A n \in Enabled : latest[n] = IF real[n].dns = "up" THEN "healthy" ELSE "failed")

\* The redundancy state last announced ends up being the one that holds, though
\* the summary, the last event and the new event are three separate queries of
\* two concurrent passes.
RedundancyAnnounced == <>[](Enabled # {} => redundancy = Summary)

\* A certificate alert that persists is the one last announced, and no alert
\* is left standing over a certificate that has been healthy in an unbroken
\* chain of observations.
CertificateAnnounced ==
  <>[](Enabled # {} => \A n \in Node :
         LET c == CertificateState(snap[n])
         IN  /\ c \in Alerts => certEvent[n] = c
             /\ c = "healthy" => certEvent[n] \notin Alerts \/ DisabledSince(n))

\* While the release cache stays valid, every node's update state ends up being
\* the one last announced for it.
VersionAnnounced ==
  <>[](Enabled # {} /\ release.version # 0 /\ ~release.expired)
     => <>[](\A n \in Node : verEvent[n] = VersionState(n))

=============================================================================
