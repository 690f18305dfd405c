------------------------------- MODULE Probes -------------------------------
(***************************************************************************)
(* The registry of probes and their runs (src/probes/mod.rs): a probe is   *)
(* run on a machine, and the user may then become root, as an answer that  *)
(* needs root asks, and run it again.  Root may read more of the machine,  *)
(* but has another home, account and environment than the user.            *)
(*                                                                         *)
(* Of the registry these are the probes that take a machine as it is; the  *)
(* other ones are in Processes.                                            *)
(***************************************************************************)
EXTENDS HardwareProbes, SystemProbes, SettingsProbes

\* The names in REGISTRY of these probes.
RegisteredNames ==
  {"mem.summary", "mem.vm", "mem.numa", "mem.errors", "disk.tree", "fs.tmp",
   "fs.fstab", "dev.udev", "disk.hardware", "disk.io", "fs.mounts",
   "cpu.summary", "cpu.features", "cpu.topology", "cpu.caches", "cpu.freq",
   "cpu.vulns", "gpu.devices", "kernel.sysctl", "kernel.modules",
   "kernel.overview", "kernel.irq", "boot.info", "virt.detect",
   "log.journal", "net.interfaces", "net.listening", "net.dns",
   "net.firewall", "net.layers", "user.identity", "shell.env",
   "shell.startup", "bin.path", "text.locale", "time.clock", "security.lsm",
   "crypto.setup", "pkg.manager", "git.config", "ssh.setup", "proc.limits",
   "ipc.summary", "proc.cgroup", "systemd.overrides"}

\* The sites that a probe reads.
SitesOf(name) ==
  CASE name = "mem.summary" -> {"meminfo", "swappiness"}
    [] name = "mem.vm" -> {"vmstat", "smaps", "thp"}
    [] name = "mem.numa" -> {"nodes", "meminfo", "numastat", "cpulist", "balancing"}
    [] name = "mem.errors" -> {"controllers", "ce_count", "dimms", "mem_type",
          "meminfo"}
    [] name = "disk.tree" -> {"block", "size", "swaps", "dev", "mountinfo",
          "children", "partition"}
    [] name = "fs.tmp" -> {"mountinfo", "space"}
    [] name = "fs.fstab" -> {"fstab", "mountinfo"}
    [] name = "dev.udev" -> {"etc", "usr_lib", "lib"}
    [] name = "disk.hardware" -> {"block", "size", "size_again", "model",
          "scheduler"}
    [] name = "disk.io" -> {"diskstats", "block", "size", "meminfo", "uptime",
          "expire"}
    [] name = "fs.mounts" -> {"mountinfo"}
    [] name = "cpu.summary" -> {"cpuinfo", "online", "loadavg", "governor"}
    [] name = "cpu.features" -> {"cpuinfo", "arch"}
    [] name = "cpu.topology" -> {"cpus", "package"}
    [] name = "cpu.caches" -> {"cpus", "cache", "level", "type", "size", "shared"}
    [] name = "cpu.freq" -> {"cpus", "scaling_driver", "cur_freq", "idle_driver",
          "boost", "zones", "temp", "zone_type", "hwmon", "driver", "input"}
    [] name = "cpu.vulns" -> {"names", "state", "cmdline"}
    [] name = "gpu.devices" -> {"drm", "vendor", "driver", "uevent", "connector",
          "nvidia"}
    [] name = "kernel.sysctl" -> {"sys", "value", "sysctl_conf", "sysctl_d", "link",
          "file"}
    [] name = "kernel.modules" -> {"modules", "tainted"}
    [] name = "kernel.overview" -> {"stat", "osrelease", "version", "uptime",
          "filesystems"}
    [] name = "kernel.irq" -> {"interrupts", "softirqs"}
    [] name = "boot.info" -> {"osrelease", "cmdline", "uptime", "firmware",
          "secure_boot", "default_target", "loader", "grub"}
    [] name = "virt.detect" -> {"systemd_container", "dockerenv", "cgroup", "ns",
          "hypervisor", "dmi", "cpuinfo", "self", "mountinfo"}
    [] name = "log.journal" -> {"conf", "persistent", "volatile", "var_log",
          "logrotate"}
    [] name = "net.interfaces" -> {"net", "operstate", "addrs", "route"}
    [] name = "net.listening" -> {"tcp", "udp", "passwd", "proc", "fds"}
    [] name = "net.dns" -> {"resolv", "nsswitch"}
    [] name = "net.firewall" -> {"systemctl", "ufw"}
    [] name = "net.layers" -> {"net", "operstate", "addrs", "route", "resolv",
          "nsswitch", "arp", "snmp"}
    [] name = "user.identity" -> {"status", "passwd", "group"}
    [] name = "shell.env" -> {"environ", "status", "passwd"}
    [] name = "shell.startup" -> {"status", "passwd", "bash_profile", "bash_login",
          "profile", "profile_d"}
    [] name = "bin.path" -> {"environ", "loader"}
    [] name = "text.locale" -> {"environ", "locale_conf", "default_locale",
          "locales"}
    [] name = "time.clock" -> {"localtime", "timezone", "clocksource", "stat",
          "adjtime", "proc", "comm"}
    [] name = "security.lsm" -> {"lsm", "enabled", "profiles", "enforce", "config"}
    [] name = "crypto.setup" -> {"bundle", "crypto", "rng", "tpm", "policy"}
    [] name = "pkg.manager" -> {"dpkg", "rpm", "pacman", "snaps", "flatpak",
          "own_flatpak", "status", "passwd"}
    [] name = "git.config" -> {"status", "passwd", "gitconfig", "own_config",
          "own_gitconfig"}
    [] name = "ssh.setup" -> {"status", "passwd", "ssh_dir", "key_pub",
          "ssh_config", "known_hosts", "authorized_keys", "environ", "sshd_config"}
    [] name = "proc.limits" -> {"limits", "file_nr", "nr_open"}
    [] name = "ipc.summary" -> {"unix", "shm_space", "shm"}
    [] name = "proc.cgroup" -> {"cgroup", "controllers", "own", "parent", "top"}
    [] name = "systemd.overrides" -> {"system", "dropin", "link", "vendor"}

\* The sites that are those of who runs the probe, the groups among the files
\* since of them it takes the own ones, and the fields that rest on them.
Own(name) ==
  CASE name = "user.identity" ->
         [sites |-> {"status", "passwd", "group"},
          fields |-> {"uid", "gid", "groups", "user", "umask", "admin_group"}]
    [] name = "shell.env" ->
         [sites |-> {"environ", "status", "passwd"},
          fields |-> {"total", "vars", "login_shell"}]
    [] name = "shell.startup" ->
         [sites |-> {"status", "passwd", "bash_profile", "bash_login", "profile"},
          fields |-> {"login_shell", "bash_login_file", "ignored_by_bash"}]
    [] name = "bin.path" ->
         [sites |-> {"environ"}, fields |-> {"entries", "ld_preload"}]
    [] name = "text.locale" ->
         [sites |-> {"environ"}, fields |-> {"ctype", "vars"}]
    [] name = "pkg.manager" ->
         [sites |-> {"own_flatpak", "status", "passwd"}, fields |-> {"flatpaks"}]
    [] name = "git.config" ->
         [sites |-> {"status", "passwd", "own_config", "own_gitconfig"},
          fields |-> {"files", "name_set", "aliases"}]
    [] name = "ssh.setup" ->
         [sites |-> {"status", "passwd", "ssh_dir", "key_pub", "ssh_config",
                     "known_hosts", "authorized_keys", "environ"},
          fields |-> {"dir", "key", "kind", "config_hosts", "known_hosts",
                      "authorized_keys", "agent"}]
    [] name = "proc.limits" ->
         [sites |-> {"limits"}, fields |-> {"open_files", "processes"}]
    [] name = "proc.cgroup" ->
         [sites |-> {"cgroup", "own", "parent", "top"}, fields |-> {"path", "memory_limit"}]
    [] OTHER -> [sites |-> {}, fields |-> {}]

CONSTANTS
  Probed,     \* pairs of the name of a probe and a machine: its sites
  RootsOwn,   \* for the name of a probe, what the own sites of root may be
  NoAnswer    \* before the first run

\* What OpenedAll takes for a site.
IsSite(site) == {"err", "has"} \subseteq DOMAIN site

\* A machine has the sites of its probe.  Those of the CPUs are functions from
\* the CPUs that are listed, and who may list a folder of units may read the
\* links in it.
IsMachine(name, sites) ==
  /\ SitesOf(name) \subseteq DOMAIN sites
  /\ \A s \in SitesOf(name) \ {"package"} : IsSite(sites[s])
  /\ "package" \in SitesOf(name) =>
       /\ "err" \notin DOMAIN sites.package
       /\ \A c \in sites.cpus.has : c \in DOMAIN sites.package /\ IsSite(sites.package[c])
  /\ "link" \in SitesOf(name) => sites.link.err \notin Denied

ASSUME ProbedAssumption ==
  \A p \in Probed :
    {"name", "sites"} \subseteq DOMAIN p /\ p.name \in RegisteredNames /\ IsMachine(p.name, p.sites)

ASSUME RootsOwnAssumption ==
  \A name \in RegisteredNames : \A own \in RootsOwn[name] :
    Own(name).sites \subseteq DOMAIN own /\ \A s \in Own(name).sites : IsSite(own[s])

VARIABLES
  probe,      \* the pair that is run
  root,       \* the user has become root
  supported,  \* ProbeCtx.supported: this is Linux
  answer      \* the last answer

vars == <<probe, root, supported, answer>>

-----------------------------------------------------------------------------

\* REGISTRY: the function of a name.
Registered(name, h) ==
  CASE name = "mem.summary"        -> MemSummary(h)
    [] name = "mem.vm"             -> MemVm(h)
    [] name = "mem.numa"           -> MemNuma(h)
    [] name = "mem.errors"         -> MemErrors(h)
    [] name = "disk.tree"          -> DiskTree(h)
    [] name = "fs.tmp"             -> FsTmp(h)
    [] name = "fs.fstab"           -> FsFstab(h)
    [] name = "dev.udev"           -> DevUdev(h)
    [] name = "disk.hardware"      -> DiskHardware(h)
    [] name = "disk.io"            -> DiskIo(h)
    [] name = "fs.mounts"          -> FsMount(h)
    [] name = "cpu.summary"        -> CpuSummary(h)
    [] name = "cpu.features"       -> CpuFeatures(h)
    [] name = "cpu.topology"       -> CpuTopology(h)
    [] name = "cpu.caches"         -> CpuCaches(h)
    [] name = "cpu.freq"           -> CpuFreq(h)
    [] name = "cpu.vulns"          -> CpuVulns(h)
    [] name = "gpu.devices"        -> GpuCards(h)
    [] name = "kernel.sysctl"      -> KernelSysctl(h)
    [] name = "kernel.modules"     -> KernelModules(h)
    [] name = "kernel.overview"    -> KernelOverview(h)
    [] name = "kernel.irq"         -> KernelIrq(h)
    [] name = "boot.info"          -> Boot(h)
    [] name = "virt.detect"        -> Virt(h)
    [] name = "log.journal"        -> Logs(h)
    [] name = "net.interfaces"     -> NetInterfaces(h)
    [] name = "net.listening"      -> NetListening(h)
    [] name = "net.dns"            -> NetDns(h)
    [] name = "net.firewall"       -> NetFirewall(h)
    [] name = "net.layers"         -> NetLayers(h)
    [] name = "user.identity"      -> User(h)
    [] name = "shell.env"          -> ShellEnv(h)
    [] name = "shell.startup"      -> Startup(h)
    [] name = "bin.path"           -> BinPath(h)
    [] name = "text.locale"        -> Locale(h)
    [] name = "time.clock"         -> Time(h)
    [] name = "security.lsm"       -> Lsm(h)
    [] name = "crypto.setup"       -> Crypto(h)
    [] name = "pkg.manager"        -> PkgManager(h)
    [] name = "git.config"         -> Git(h)
    [] name = "ssh.setup"          -> SshSetup(h)
    [] name = "proc.limits"        -> Limits(h)
    [] name = "ipc.summary"        -> Ipc(h)
    [] name = "proc.cgroup"        -> Cgroup(h)
    [] name = "systemd.overrides"  -> Overrides(h)

-----------------------------------------------------------------------------

\* ProbeInfo::run.
RunProbe(name, sites, linux) ==
  IF linux THEN Registered(name, sites) ELSE Unsupported

\* What root finds of the host: nothing is denied.  The sites of the CPUs are
\* functions.
Opened(site) == [site EXCEPT !.err = IF @ \in Denied THEN "none" ELSE @]
OpenedAll(sites) ==
  [s \in DOMAIN sites |->
     IF "err" \in DOMAIN sites[s] THEN Opened(sites[s])
     ELSE [c \in DOMAIN sites[s] |-> Opened(sites[s][c])]]

\* What root finds: the own sites are root's, the others are opened.
AsRoot(name, sites) ==
  {[s \in DOMAIN sites |-> IF s \in Own(name).sites THEN own[s] ELSE OpenedAll(sites)[s]] :
     own \in RootsOwn[name]}

\* result: what the page of an answer begins with, before its notes.
PageHead(a) ==
  CASE a.status = "NeedsRoot"               -> "needs root"
    [] a.status = "Unavailable" /\ ~a.data  -> "not available on this system"
    [] a.status = "Unsupported"             -> "not supported on this OS"
    [] OTHER                                -> IF a.data THEN "data" ELSE "nothing"

Init ==
  /\ probe \in Probed
  /\ root = FALSE
  /\ supported \in BOOLEAN
  /\ answer = NoAnswer

\* atfq probe <name>.
Run ==
  /\ answer' = RunProbe(probe.name, probe.sites, supported)
  /\ UNCHANGED <<probe, root, supported>>

\* The user turns to sudo.
BecomeRoot ==
  /\ ~root
  /\ answer # NoAnswer
  /\ root' = TRUE
  /\ \E sites \in AsRoot(probe.name, probe.sites) : probe' = [probe EXCEPT !.sites = sites]
  /\ UNCHANGED <<supported, answer>>

Next == Run \/ BecomeRoot

Spec == Init /\ [][Next]_vars

-----------------------------------------------------------------------------
(* Properties *)

(* Explained(a): without data, or with a status that says something is *)
(* missing, an answer says why, and one without data is never Ok: the  *)
(* pages show the notes in the place of the values.  What it has found *)
(* is on the page, in the place of which a status may stand.           *)
Explained(a) ==
  /\ (~a.data \/ a.status # "Ok") => (a.notes # {} /\ a.status # "Ok")
  /\ a.data => PageHead(a) = "data"

(* SaysWhy: a probe that cannot answer says why, whatever is missing on *)
(* the machine, unreadable or odd (README.md:128).  The exception is the *)
(* firewall of a machine of which systemctl says nothing (net.rs:402).   *)
SaysWhy ==
  answer # NoAnswer =>
    \/ Explained(answer)
    \/ probe.name = "net.firewall" /\ "line" \notin probe.sites.systemctl.has

(* ShowsHost(name, a, b): b shows all of the host that a does.  What rests *)
(* on the home, the account, the environment or the limits of the one who  *)
(* asks is not of the host, and a probe that ends without these may have   *)
(* no answer for another user.                                             *)
ShowsHost(name, a, b) ==
  /\ Own(name).sites = {} => (a.data => b.data)
  /\ b.data => a.known \ Own(name).fields \subseteq b.known

(* RootKnowsMore: run again as root, a probe loses nothing of the host that *)
(* it could show before, though many of its defaults, first choices and     *)
(* counts depend on what could be read.  The ten probes that look at the    *)
(* user's own files too show root's instead (account(), shell.rs:54).       *)
RootKnowsMore == [][answer # NoAnswer => ShowsHost(probe.name, answer, answer')]_answer
=============================================================================
