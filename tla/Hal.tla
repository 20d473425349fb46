--------------------------------- MODULE Hal ---------------------------------
(***************************************************************************)
(* hal/__init__.py with kernel/modes: the virtual hardware, its devices,   *)
(* and the consent under which Hardware Mode projects devices onto it.     *)
(***************************************************************************)
EXTENDS Naturals, FiniteSets

CONSTANTS
  Tokens,     \* consent tokens
  Projected,  \* names of devices that are projected
  NoToken

ASSUME HalAssumption ==
  /\ IsFiniteSet(Tokens) /\ IsFiniteSet(Projected) /\ NoToken \notin Tokens
  /\ Projected \cap {"storage", "net0", "display0"} = {}

Adapters == {"net0", "display0"}

VARIABLES
  vcpu,       \* VCPU.running
  devices,    \* HAL._devices; the bus carries the same, until hal.stop()
  bus,        \* VBus._devices
  projecting, \* HAL._projection_active
  valid,      \* _VALID_TOKENS
  held,       \* HardwareMode._consent_token
  wired,      \* whether HardwareMode._kernel is set
  active      \* history: the mode was activated and not told to revoke() since

halVars == <<vcpu, devices, bus, projecting, valid, held, wired, active>>

HalTypeOK ==
  /\ {vcpu, projecting, wired, active} \subseteq BOOLEAN
  /\ devices \subseteq Projected \cup Adapters \cup {"storage"} /\ bus \subseteq devices
  /\ valid \subseteq Tokens /\ held \in Tokens \cup {NoToken}

HalInit ==
  /\ vcpu = FALSE /\ devices = {} /\ bus = {} /\ projecting = FALSE
  /\ valid = {} /\ held = NoToken /\ wired = FALSE /\ active = FALSE

\* VBus
Attached(names) == bus' = bus \cup names
Detached == bus' = {}

\* HAL.start(), HAL.stop(): the registry of devices survives a stop, and so
\* does the permission to project.
HalStart == vcpu' = TRUE /\ UNCHANGED <<devices, bus, projecting, valid, held, wired, active>>
HalStop ==
  /\ vcpu' = FALSE /\ Detached
  /\ UNCHANGED <<devices, projecting, valid, held, wired, active>>

\* register_device(), once for each of the names.
RegisterDevices(names) ==
  /\ devices' = devices \cup names /\ Attached(names)
  /\ UNCHANGED <<vcpu, projecting, valid, held, wired, active>>

\* activate() of the modes Universal and Internal.
ActivateMode == RegisterDevices(Adapters)

\* issue_consent_token(), and revoke_consent_token() when the user, and not
\* the mode, calls it: it reaches nothing that is under way, the mode that
\* holds the token included.
IssueToken(t) ==
  /\ t \notin valid /\ valid' = valid \cup {t}
  /\ UNCHANGED <<vcpu, devices, bus, projecting, held, wired, active>>

RevokeToken(t) ==
  /\ t \in valid /\ valid' = valid \ {t}
  /\ UNCHANGED <<vcpu, devices, bus, projecting, held, wired, active>>

\* HardwareMode.activate()
ActivateHardware(t) ==
  /\ t \in valid
  /\ wired' = TRUE /\ held' = t /\ projecting' = TRUE /\ active' = TRUE
  /\ devices' = devices \cup Adapters /\ Attached(Adapters)
  /\ UNCHANGED <<vcpu, valid>>

\* HAL.project()
HalProject(d) ==
  /\ projecting
  /\ devices' = devices \cup {d} /\ Attached({d})

\* HardwareMode.project()
Project(d) ==
  /\ wired /\ HalProject(d)
  /\ UNCHANGED <<vcpu, projecting, valid, held, wired, active>>

\* A fault: the devices go and the permission to project stays.
KeepsProjecting ==
  devices' = {} /\ Detached /\ vcpu' = FALSE /\ projecting' = projecting

\* HAL.teardown_all()
TeardownAll ==
  devices' = {} /\ Detached /\ vcpu' = FALSE /\ projecting' = FALSE

\* HardwareMode.revoke(): the mode stays wired to the kernel.
RevokeProjection ==
  /\ wired /\ TeardownAll
  /\ valid' = valid \ {held} /\ held' = NoToken /\ active' = FALSE
  /\ UNCHANGED wired

HardwareNext ==
  \/ \E t \in Tokens : IssueToken(t) \/ RevokeToken(t) \/ ActivateHardware(t)
  \/ \E d \in Projected : Project(d)
  \/ RevokeProjection

\* After HardwareMode.revoke() no device is projected, not even a new one
\* through the mode that is still wired to the kernel, until the mode is
\* activated again; the kernel's start and shutdown in between change nothing
\* about it: modes/hardware.py:92-106, hal/__init__.py:138-160.
RevokedTearsDown == ~ active => devices \cap Projected = {}

\* What the mode says of itself: it "cannot operate without a valid consent
\* token", and consent can be revoked at any time. A device is projected only
\* while the token the mode was activated with is valid:
\* modes/hardware.py:8-11.
ProjectsWithConsent ==
  [][\A d \in Projected : d \in devices' \ devices => held \in valid]_halVars
=============================================================================
