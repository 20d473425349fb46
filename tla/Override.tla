------------------------------ MODULE Override ------------------------------
(***************************************************************************)
(* kernel/override.py and kernel/privilege.py: an operator overrides a     *)
(* blocked action, and AURA asks for a capability of the host, both        *)
(* through the same validation, confirmation and audit log.                *)
(*                                                                         *)
(* A request waits in input() for the operator's answer; permissions       *)
(* change and the other requester goes on meanwhile.                       *)
(***************************************************************************)
EXTENDS Permissions, Bridge

CONSTANTS
  Asked,       \* the capabilities that are asked for
  HostsUsed,   \* the hosts to run on
  MaxRequests, \* bound on the number of requests
  MaxAudits    \* bound on the audit trail: no more virtual-root actions beyond it

ASSUME AskedAssumption ==
  /\ Asked \cap KnownCaps \subseteq Caps
  /\ Asked \subseteq DOMAIN BridgeCap \cup {"host.wipe_device"}
  /\ HostsUsed \subseteq Hosts /\ MaxRequests \in Nat /\ MaxAudits \in Nat

\* privilege.py's tables, as far as they meet the capabilities of BridgeCap.
PermanentlyForbidden == {"host.kernel_patch", "host.wipe_device", "host.root_exploit",
  "host.bypass_security", "host.illegal_action", "host.memory_overwrite"}
HostEscalationEligible == {"net.listen", "net.raw", "fs.mount_bind", "hal.project",
  "hal.teardown", "device.write", "proc.kill"}
VirtualRootCaps == {"kernel.config_write", "service.start", "fs.write", "fs.chmod",
  "net.connect"}

\* override.py: OVERRIDEABLE_ACTIONS
OverrideableActions == {"net.listen", "net.raw", "fs.chmod", "fs.mount_bind",
  "storage.partition", "service.start", "service.stop", "model.load",
  "kernel.config_write"}

Requesters == {"operator", "AURA"}
Idle == [at |-> "idle"]

VARIABLES
  host,       \* the bridge that get_bridge() detects
  bridged,    \* whether the override layer was given that bridge, or none
  request,    \* the request each requester has under way
  asked,      \* the number of requests so far
  trail,      \* OverrideLog._entries: <<request, result, action>>
  ran,        \* history: requests whose execute_fn has begun
  escalated,  \* _host_escalations
  audit       \* the AURA_ACTION entries

hostVars == <<host, bridged>>
overrideVars == <<permVars, hostVars, request, asked, trail, ran, escalated, audit>>

OverrideTypeOK ==
  /\ PermTypeOK /\ host \in Hosts /\ bridged \in BOOLEAN
  /\ \A who \in Requesters : request[who].at \in {"idle", "prompt", "approved", "ran", "listed", "granted"}
  /\ asked \in 0..MaxRequests /\ ran \subseteq 1..asked
  /\ escalated \subseteq Asked

OverrideInit ==
  /\ PermInit /\ host \in HostsUsed /\ bridged \in BOOLEAN
  /\ request = [who \in Requesters |-> Idle]
  /\ asked = 0 /\ trail = <<>> /\ ran = {}
  /\ escalated = {} /\ audit = <<>>

\* OverrideGuard.validate(), in its order: the allowlist, the host if
\* there is a bridge to ask, the protected partitions, a reason. AURA's reason is never
\* blank, because the layer above puts a prefix before it.
Validates(c, flaw) ==
  /\ c \in OverrideableActions
  /\ bridged => HasCapability(host, c)
  /\ flaw # "protected path"
  /\ flaw # "blank reason"

\* A fault: an approval is not logged before the callable runs.
LogsAfterwards(id, result, c) ==
  trail' = IF result = "approved" THEN trail ELSE Append(trail, <<id, result, c>>)

\* OverrideLog.record()
RecordResult(id, result, c) == trail' = Append(trail, <<id, result, c>>)

\* AURAPrivilege._audit()
Audits(c, result) == audit' = Append(audit, <<c, result>>)

\* request_host_escalation(), steps 1 to 3: refused before the operator is
\* asked.
MayAsk(c) ==
  /\ c \notin PermanentlyForbidden
  /\ c \in HostEscalationEligible
  /\ HasCapability(host, c)

EscalationRefused(c) ==
  /\ ~ MayAsk(c)
  /\ request["AURA"] = Idle /\ Len(audit) < MaxAudits
  /\ Audits(c, "refused")
  /\ UNCHANGED <<permVars, hostVars, request, asked, trail, ran, escalated>>

\* request_override() up to the confirmation: denied by the guard, and
\* logged, or waiting for the operator. AURA gets here from MayAsk(c) with
\* neither a path nor a callable, and records the denial.
Ask(who, c, flaw, runs) ==
  /\ request[who] = Idle /\ asked < MaxRequests
  /\ who = "AURA" => MayAsk(c) /\ flaw = "none" /\ ~ runs
  /\ asked' = asked + 1
  /\ \/ /\ Validates(c, flaw)
        /\ request' = [request EXCEPT ![who] =
                         [at |-> "prompt", id |-> asked + 1, of |-> c, runs |-> runs]]
        /\ UNCHANGED <<trail, audit>>
     \/ /\ ~ Validates(c, flaw)
        /\ RecordResult(asked + 1, "denied", c)
        /\ IF who = "AURA" THEN Audits(c, "refused") ELSE UNCHANGED audit
        /\ UNCHANGED request
  /\ UNCHANGED <<permVars, hostVars, ran, escalated>>

\* A fault: AURA's capability is granted although the operator said no.
GrantsAnyway(who) ==
  /\ request[who].at = "prompt"
  /\ RecordResult(request[who].id, "declined", request[who].of)
  /\ request' = [request EXCEPT ![who] = Idle]
  /\ escalated' = IF who = "AURA" THEN escalated \cup {request[who].of} ELSE escalated
  /\ UNCHANGED <<permVars, hostVars, asked, ran, audit>>

\* The operator's answer is not "yes", or there is nobody at the console.
Decline(who) ==
  /\ request[who].at = "prompt"
  /\ RecordResult(request[who].id, "declined", request[who].of)
  /\ IF who = "AURA" THEN Audits(request[who].of, "refused") ELSE UNCHANGED audit
  /\ request' = [request EXCEPT ![who] = Idle]
  /\ UNCHANGED <<permVars, hostVars, asked, ran, escalated>>

\* The answer is "yes", or confirm is set: logged before anything is done.
Approve(who) ==
  /\ request[who].at = "prompt"
  /\ RecordResult(request[who].id, "approved", request[who].of)
  /\ request' = [request EXCEPT ![who] =
       IF who = "AURA" \/ @.runs THEN [@ EXCEPT !.at = "approved"] ELSE Idle]
  /\ UNCHANGED <<permVars, hostVars, asked, ran, escalated, audit>>

\* execute_fn() is entered ...
Execute(who) ==
  /\ request[who].at = "approved" /\ request[who].runs
  /\ ran' = ran \cup {request[who].id}
  /\ request' = [request EXCEPT ![who].at = "ran"]
  /\ UNCHANGED <<permVars, hostVars, asked, trail, escalated, audit>>

\* ... and returns or raises.
Executed(who) ==
  /\ request[who].at = "ran"
  /\ \E result \in {"executed", "failed"} : RecordResult(request[who].id, result, request[who].of)
  /\ request' = [request EXCEPT ![who] = Idle]
  /\ UNCHANGED <<permVars, hostVars, asked, ran, escalated, audit>>

\* request_host_escalation(), step 5: the escalation is listed, ...
EscalationListed ==
  /\ request["AURA"].at = "approved"
  /\ escalated' = escalated \cup {request["AURA"].of}
  /\ request' = [request EXCEPT !["AURA"].at = "listed"]
  /\ UNCHANGED <<permVars, hostVars, asked, trail, ran, audit>>

\* ... granted, which undoes a revocation made while the operator was being
\* asked; when KernelAPI raises in the announcement the grant has been made, ...
EscalationGranted ==
  /\ request["AURA"].at = "listed"
  /\ Grant(request["AURA"].of)
  /\ request' = [request EXCEPT !["AURA"].at = "granted"]
  /\ UNCHANGED <<hostVars, asked, trail, ran, escalated, audit>>

\* A fault: an exception out of the grant leaves without the audit entry.
EscalationAudited_UnlessRaised ==
  /\ request["AURA"].at = "granted"
  /\ Audits(request["AURA"].of, "executed") \/ UNCHANGED audit
  /\ request' = [request EXCEPT !["AURA"] = Idle]
  /\ UNCHANGED <<permVars, hostVars, asked, trail, ran, escalated>>

\* ... and audited as executed, whether or not it raised.
EscalationAudited ==
  /\ request["AURA"].at = "granted"
  /\ Audits(request["AURA"].of, "executed")
  /\ request' = [request EXCEPT !["AURA"] = Idle]
  /\ UNCHANGED <<permVars, hostVars, asked, trail, ran, escalated>>

Escalate == EscalationListed \/ EscalationGranted \/ EscalationAudited

\* execute_as_virtual_root(): asserted, audited, run, audited again.
ExecuteAsVirtualRoot(c) ==
  /\ request["AURA"] = Idle /\ Len(audit) < MaxAudits
  /\ c \in VirtualRootCaps
  /\ \E result \in {"executed", "failed"} :
       audit' = audit \o <<<<c, "approved">>, <<c, result>>>>
  /\ UNCHANGED <<permVars, hostVars, request, asked, trail, ran, escalated>>

OverrideNext ==
  \/ PermNext /\ UNCHANGED <<hostVars, request, asked, trail, ran, escalated, audit>>
  \/ \E who \in Requesters :
       \/ \E c \in Asked, flaw \in {"none", "protected path", "blank reason"},
             runs \in BOOLEAN : Ask(who, c, flaw, runs)
       \/ Decline(who) \/ Approve(who) \/ Execute(who) \/ Executed(who)
  \/ Escalate
  \/ \E c \in Asked : EscalationRefused(c) \/ ExecuteAsVirtualRoot(c)

OverrideSpec == OverrideInit /\ [][OverrideNext]_overrideVars

-----------------------------------------------------------------------------
\* The places in the trail at which a request has left a result: one of its own,
\* or two.
EntriesOf(id) == {i \in DOMAIN trail : trail[i][1] = id}
Tells(id, r) == \E i \in EntriesOf(id) : EntriesOf(id) = {i} /\ trail[i][2] = r
TellsThen(id, r, s) ==
  \E i, j \in EntriesOf(id) : /\ i < j /\ EntriesOf(id) = {i, j}
                              /\ trail[i][2] = r /\ trail[j][2] = s

UnderWay(id) == \E who \in Requesters : request[who] # Idle /\ request[who].id = id
ApprovedFirst(id) == \E i \in EntriesOf(id) : /\ trail[i][2] = "approved"
                                              /\ \A j \in EntriesOf(id) : i <= j
Over(id) == \/ \E r \in {"denied", "declined", "approved"} : Tells(id, r)
            \/ \E r \in {"executed", "failed"} : TellsThen(id, "approved", r)

\* The audit log tells every request's story, in order, whatever two
\* requesters do at once: nothing runs before its approval is on record, and
\* a request that is over has exactly one of the five possible endings.
\* override.py:296-365, "The override is logged immutably before execution".
AuditTellsAll ==
  \A id \in 1..asked : /\ id \in ran => ApprovedFirst(id)
                       /\ ~ UnderWay(id) => Over(id)

\* Step 5 is under way for c, at one of these points.
Escalating(c, points) == request["AURA"].at \in points /\ request["AURA"].of = c

\* A host capability that AURA has escalated to is never forbidden, is one
\* that the mirror would let pass on this host, was confirmed by the operator,
\* and is granted and audited once the call that lists it first is over, also
\* when the grant raises: privilege.py:196-284 with override.py:126-165,
\* mirror.py:233-265.
EscalationsConfirmed ==
  \A c \in escalated :
    /\ MayAsk(c) /\ c \in OverrideableActions /\ ~ HostDenies(host, c, "host_root")
    /\ \E i \in DOMAIN trail : trail[i][2] = "approved" /\ trail[i][3] = c
    /\ \/ Escalating(c, {"listed"})
       \/ \E i \in DOMAIN record : record[i] = [what |-> "grant", of |-> c]
    /\ \/ Escalating(c, {"listed", "granted"})
       \/ \E i \in DOMAIN audit : audit[i] = <<c, "executed">>
=============================================================================
