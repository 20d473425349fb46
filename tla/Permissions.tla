---------------------------- MODULE Permissions ----------------------------
(***************************************************************************)
(* kernel/permissions.py and kernel/api.py: capabilities by kernel mode,   *)
(* grants and revocations at runtime, and the calls they gate.             *)
(*                                                                         *)
(* `record' is not in the code: it is the history of what was decided and  *)
(* done, from which LawfulAfter says, without looking at the model's       *)
(* state, which capabilities are allowed.                                  *)
(***************************************************************************)
EXTENDS Naturals, Sequences, FiniteSets

CONSTANTS
  Caps,      \* the capabilities in play
  MaxRecord  \* bound on the number of decisions and calls

Modes == {"universal", "internal", "hardware"}

\* _MODE_TIER
ModeTier == [m \in Modes |-> CASE m = "universal" -> 1
                               [] m = "internal" -> 2 [] OTHER -> 3]

\* TIER_0 .. TIER_3, each without the tiers below it.
TierCaps ==
  [t \in 0..3 |->
     CASE t = 0 -> {"aura.query", "aura.pulse", "fs.read", "event.publish",
                    "event.subscribe", "shell.command", "sysinfo.read"}
       [] t = 1 -> {"fs.write", "fs.list", "net.connect", "net.send", "net.recv",
                    "proc.spawn", "proc.kill", "service.query", "log.read",
                    "job.submit", "pkg.install", "pkg.list"}
       [] t = 2 -> {"fs.chmod", "fs.mount_bind", "net.listen", "net.raw",
                    "sys.info", "service.start", "service.stop",
                    "service.register", "kernel.config_write", "storage.write",
                    "storage.partition", "log.write", "job.cancel",
                    "model.load", "model.unload"}
       [] OTHER -> {"hal.project", "hal.teardown", "kernel.mode_switch",
                    "kernel.patch", "device.write", "device.project",
                    "hardware.bind", "hardware.unbind"}]

\* _CAPABILITY_TIER's keys, and its values.
KnownCaps == UNION {TierCaps[t] : t \in 0..3}
TierOf(c) == CHOOSE t \in 0..3 : c \in TierCaps[t]

ASSUME CapsAssumption == Caps \subseteq KnownCaps /\ MaxRecord \in Nat \ {0}

VARIABLES
  mode,     \* _mode
  granted,  \* _granted
  revoked,  \* _revoked
  record    \* history: what was decided and which calls went through

permVars == <<mode, granted, revoked, record>>

PermTypeOK ==
  /\ mode \in Modes
  /\ granted \subseteq Caps /\ revoked \subseteq Caps
  /\ Len(record) <= MaxRecord

PermInit ==
  /\ mode \in Modes
  /\ granted = {} /\ revoked = {} /\ record = <<[what |-> "mode", of |-> mode]>>

\* _TIER_MAP
ModeCaps(m) == {c \in Caps : TierOf(c) <= ModeTier[m]}

\* check(): a revocation first, then the mode, then a grant.
Permitted(c) == c \notin revoked /\ (c \in ModeCaps(mode) \/ c \in granted)

\* allowed_capabilities()
AllowedCapabilities == (ModeCaps(mode) \cup granted) \ revoked

Happens(what, of) ==
  /\ Len(record) < MaxRecord
  /\ record' = Append(record, [what |-> what, of |-> of])

\* A fault: grants survive every change of mode.
KeepsGrants(m) ==
  /\ Happens("mode", m) /\ mode' = m /\ UNCHANGED <<granted, revoked>>

\* set_mode()
SetMode(m) ==
  /\ Happens("mode", m)
  /\ mode' = m
  /\ granted' = IF ModeTier[m] < ModeTier[mode] THEN {} ELSE granted
  /\ UNCHANGED revoked

\* grant(), through KernelAPI.grant_capability(). The announcement that
\* follows is itself gated: with event.publish revoked the call raises after
\* the grant has been made.
Grant(c) ==
  /\ Happens("grant", c)
  /\ granted' = granted \cup {c}
  /\ revoked' = revoked \ {c}
  /\ UNCHANGED mode

\* revoke(), through KernelAPI.revoke_capability()
Revoke(c) ==
  /\ Happens("revoke", c)
  /\ granted' = granted \ {c}
  /\ revoked' = revoked \cup {c}
  /\ UNCHANGED mode

\* reset_grants()
ResetGrants ==
  /\ Happens("reset", "all")
  /\ granted' = {} /\ revoked' = {}
  /\ UNCHANGED mode

\* KernelAPI: every gated call checks its capability and then does its work
\* in another component; a denied one raises PermissionDenied.
ApiCall(c) ==
  /\ Permitted(c)
  /\ Happens("call", c)
  /\ UNCHANGED <<mode, granted, revoked>>

PermNext ==
  \/ \E m \in Modes : SetMode(m)
  \/ \E c \in Caps : Grant(c) \/ Revoke(c) \/ ApiCall(c)
  \/ ResetGrants

PermSpec == PermInit /\ [][PermNext]_permVars

-----------------------------------------------------------------------------
(* The documented meaning, read off the first n entries of the history h.  *)

Does(e, what, c) == e.what = what /\ e.of = c

\* m is the mode that was set last.
InForce(h, n, m) ==
  \E i \in 1..n : /\ Does(h[i], "mode", m)
                  /\ \A j \in (i + 1)..n : h[j].what # "mode"

\* The entry j lowers the mode.
StepsDown(h, j) ==
  /\ h[j].what = "mode"
  /\ \E m \in Modes : InForce(h, j - 1, m) /\ ModeTier[h[j].of] < ModeTier[m]

\* c was revoked and neither granted nor reset since.
StillRevoked(h, n, c) ==
  \E i \in 1..n : /\ Does(h[i], "revoke", c)
                  /\ \A j \in (i + 1)..n : ~ Does(h[j], "grant", c) /\ h[j].what # "reset"

\* c was granted, and since then neither revoked nor reset, nor the mode lowered.
StillGranted(h, n, c) ==
  \E i \in 1..n : /\ Does(h[i], "grant", c)
                  /\ \A j \in (i + 1)..n : /\ ~ Does(h[j], "revoke", c)
                                           /\ h[j].what # "reset" /\ ~ StepsDown(h, j)

LawfulAfter(h, n, c) ==
  /\ ~ StillRevoked(h, n, c)
  /\ \/ \E m \in Modes : InForce(h, n, m) /\ TierOf(c) <= ModeTier[m]
     \/ StillGranted(h, n, c)

\* What the permission model allows is what the history of modes, grants,
\* revocations and resets entitles the caller to; the listing shown to the
\* user agrees with the check; and every call that went through was entitled
\* at that moment: permissions.py:206-246, 252-255, api.py.
EntitledByHistory ==
  /\ \A c \in Caps : Permitted(c) <=> LawfulAfter(record, Len(record), c)
  /\ \A c \in Caps : Permitted(c) <=> c \in AllowedCapabilities
  /\ \A i \in DOMAIN record :
       record[i].what = "call" => LawfulAfter(record, i - 1, record[i].of)
=============================================================================
