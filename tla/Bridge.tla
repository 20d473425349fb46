------------------------------- MODULE Bridge -------------------------------
(***************************************************************************)
(* bridge/*.py, host_bridge/__init__.py and kernel/mirror.py: what the     *)
(* host under the system can do and what the mirror denies there.          *)
(*                                                                         *)
(* The kernel names its capabilities with dots ("net.listen") and the      *)
(* bridges with underscores ("net_listen"); BridgeCap is the conversion.   *)
(***************************************************************************)
EXTENDS Naturals, FiniteSets

\* The hosts: one for each capability set that a bridge can build.
Hosts == {"linux", "linux_root", "linux_container", "android", "android_api",
          "macos", "macos_root", "windows"}

\* The capabilities that every bridge offers.
CommonCaps == {"fs_read", "fs_write", "fs_list", "net_connect", "net_send",
               "net_recv", "proc_spawn", "sys_info"}

\* _build_caps() of the four bridges: what each adds to that.
LinuxCaps(h) ==
  CASE h = "linux_root" -> {"fs_chmod", "fs_mount_bind", "net_listen", "net_raw", "proc_kill"}
    [] h = "linux_container" -> {}
    [] OTHER -> {"fs_chmod", "net_listen", "proc_kill"}
MacOSCaps(h) ==
  {"fs_chmod", "net_listen", "proc_kill"}
  \cup IF h = "macos_root" THEN {"fs_mount_bind", "net_raw"} ELSE {}
AndroidCaps(h) ==
  IF h = "android_api"
    THEN {"battery_info", "wifi_info", "notification", "vibrate", "clipboard"} ELSE {}
WindowsCaps == {}

\* get_bridge(): the bridge that recognises the host, and what it offers.
AvailableCaps ==
  [h \in Hosts |-> CommonCaps \cup
     CASE h \in {"linux", "linux_root", "linux_container"} -> LinuxCaps(h)
       [] h \in {"macos", "macos_root"} -> MacOSCaps(h)
       [] h \in {"android", "android_api"} -> AndroidCaps(h)
       [] OTHER -> WindowsCaps]

\* capability.replace(".", "_"), for the capabilities the layers ask about.
BridgeCap ==
  [c \in {"net.listen", "net.raw", "net.connect", "fs.chmod", "fs.mount_bind",
          "fs.write", "proc.kill", "hal.project", "device.write",
          "service.start", "kernel.config_write"} |->
     CASE c = "net.listen" -> "net_listen"    [] c = "net.raw" -> "net_raw"
       [] c = "net.connect" -> "net_connect"  [] c = "fs.chmod" -> "fs_chmod"
       [] c = "fs.write" -> "fs_write"        [] c = "fs.mount_bind" -> "fs_mount_bind"
       [] c = "proc.kill" -> "proc_kill"      [] c = "hal.project" -> "hal_project"
       [] c = "device.write" -> "device_write"
       [] c = "service.start" -> "service_start"
       [] OTHER -> "kernel_config_write"]

\* has_capability()
HasCapability(h, c) == BridgeCap[c] \in AvailableCaps[h]

\* MirrorModeEnforcer.enforce(): virtual-root work never reaches the host.
HostDenies(h, c, tier) == tier # "virtual_root" /\ ~ HasCapability(h, c)
=============================================================================
