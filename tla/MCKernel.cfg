CONSTANTS
  Tokens = {t1}
  Projected = {dev}
  NoToken = NoToken
  BufferSize = 1
  MaxEvents = 2
  MaxInterrupts = 2
  Units = {u1}
  Caps = {"net.listen", "proc.kill", "fs.chmod"}
  Asked = {"net.listen", "proc.kill", "fs.chmod", "host.wipe_device"}
  HostsUsed = {"linux", "windows"}
  MaxRecord = 3
  MaxRequests = 2
  MaxAudits = 1
  Settings = {"boot", "rounds", "talk", "consent", "override"}
SPECIFICATION MCSpec
INVARIANTS RevokedTearsDown LogOnDisk EntitledByHistory AuditTellsAll EscalationsConfirmed
PROPERTIES NothingLeftRunning ShutdownEnds
CHECK_DEADLOCK FALSE
