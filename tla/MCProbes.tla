------------------------------ MODULE MCProbes ------------------------------
(***************************************************************************)
(* Machines for Probes: for each probe the machine where all of its sites  *)
(* are there with all they may hold, the one where none is, and every one  *)
(* that differs from one of the two in at most two sites.  In addition     *)
(* three memory limits for a control group, and two CPUs for the topology. *)
(* Root's own sites are all there, none, or those of an empty home.         *)
(***************************************************************************)
EXTENDS Probes, TLC

\* What each site of each probe may hold.
Holds ==
     "mem.summary" :> [meminfo |-> {"MemTotal", "MemFree", "MemAvailable"},
       swappiness |-> {"number"}]
  @@ "mem.vm" :> [vmstat |-> {"pgfault", "pgmajfault"},
       smaps |-> {"KernelPageSize"}, thp |-> {"[mode]"}]
  @@ "mem.numa" :> [nodes |-> {"node"}, meminfo |-> {"MemTotal"},
       numastat |-> {"numa_hit"}, cpulist |-> {"range"}, balancing |-> {"1"}]
  @@ "mem.errors" :> [controllers |-> {"mc"}, ce_count |-> {"number"},
       dimms |-> {"dimm"}, mem_type |-> {"Unknown"},
       meminfo |-> {"HardwareCorrupted"}]
  @@ "disk.tree" :> [block |-> {"disk", "loop"}, size |-> {"nonzero"},
       swaps |-> {"disk"}, dev |-> {"number"},
       mountinfo |-> {"its_number", "its_path"}, children |-> {"child"},
       partition |-> {"number"}]
  @@ "fs.tmp" :> [mountinfo |-> {"tmpfs"}, space |-> {"total"}]
  @@ "fs.fstab" :> [fstab |-> {"swap", "ext4"}, mountinfo |-> {"its_path"}]
  @@ "dev.udev" :> [etc |-> {"rule"}, usr_lib |-> {"rule"}, lib |-> {"rule"}]
  @@ "disk.hardware" :> [block |-> {"disk"}, size |-> {"nonzero"},
       size_again |-> {"nonzero"}, model |-> {"name"}, scheduler |-> {"[active]"}]
  @@ "disk.io" :> [diskstats |-> {"disk"}, block |-> {"disk"},
       size |-> {"nonzero"}, meminfo |-> {"Dirty"}, uptime |-> {"number"},
       expire |-> {"number"}]
  @@ "fs.mounts" :> [mountinfo |-> {"6_before", "2_after", "data"}]
  @@ "cpu.summary" :> [cpuinfo |-> {"processor", "model"}, online |-> {"range"},
       loadavg |-> {"load", "running"}, governor |-> {"name"}]
  @@ "cpu.features" :> [cpuinfo |-> {"vendor_id", "flags"}, arch |-> {"x86_64"}]
  @@ "cpu.caches" :> [cpus |-> {"cpu0"}, cache |-> {"index"}, level |-> {"number"},
       type |-> {"Data"}, size |-> {"number"}, shared |-> {"range"}]
  @@ "cpu.freq" :> [cpus |-> {"cpu0"}, scaling_driver |-> {"name"},
       cur_freq |-> {"number"}, idle_driver |-> {"none"}, boost |-> {"1"},
       zones |-> {"zone"}, temp |-> {"plausible"}, zone_type |-> {"cpu"},
       hwmon |-> {"sensor"}, driver |-> {"cpu"}, input |-> {"plausible"}]
  @@ "cpu.vulns" :> [names |-> {"name"}, state |-> {"text"},
       cmdline |-> {"mitigations"}]
  @@ "gpu.devices" :> [drm |-> {"card", "connector"}, vendor |-> {"id"},
       driver |-> {"link"}, uevent |-> {"DRIVER"}, connector |-> {"status"},
       nvidia |-> {"version"}]
  @@ "kernel.sysctl" :> [sys |-> {"dir"}, value |-> {"number"},
       sysctl_conf |-> {"setting"}, sysctl_d |-> {"file"}, link |-> {"/dev/null"},
       file |-> {"setting"}]
  @@ "kernel.modules" :> [modules |-> {"module"}, tainted |-> {"number"}]
  @@ "kernel.overview" :> [stat |-> {"ctxt"}, osrelease |-> {"name"},
       version |-> {"compiler", "#build"}, uptime |-> {"number"},
       filesystems |-> {"ext4"}]
  @@ "kernel.irq" :> [interrupts |-> {"header", "count"}, softirqs |-> {"count"}]
  @@ "boot.info" :> [osrelease |-> {"name"}, cmdline |-> {"text"},
       uptime |-> {"number"}, firmware |-> {"efi"}, secure_boot |-> {"byte"},
       default_target |-> {"link"}, loader |-> {"utf16"}, grub |-> {"cfg"}]
  @@ "virt.detect" :> [systemd_container |-> {"kind"}, dockerenv |-> {"file"},
       cgroup |-> {"docker"}, ns |-> {"own"}, hypervisor |-> {"name"},
       dmi |-> {"vendor"}, cpuinfo |-> {"hypervisor"}, self |-> {"dir"},
       mountinfo |-> {"overlay"}]
  @@ "log.journal" :> [conf |-> {"Storage=volatile"}, persistent |-> {"journal"},
       volatile |-> {"journal"}, var_log |-> {"file"}, logrotate |-> {"rule"}]
  @@ "net.interfaces" :> [net |-> {"interface"}, operstate |-> {"up"},
       addrs |-> {"address"}, route |-> {"default"}]
  @@ "net.listening" :> [tcp |-> {"listening"}, udp |-> {"listening"},
       passwd |-> {"entry"}, proc |-> {"process"}, fds |-> {"socket"}]
  @@ "net.dns" :> [resolv |-> {"nameserver"}, nsswitch |-> {"hosts"}]
  @@ "net.firewall" :> [systemctl |-> {"line"}, ufw |-> {"ENABLED"}]
  @@ "net.layers" :> [net |-> {"interface"}, operstate |-> {"up"},
       addrs |-> {"address"}, route |-> {"default"}, resolv |-> {"nameserver"},
       nsswitch |-> {"hosts"}, arp |-> {"entry"}, snmp |-> {"Tcp"}]
  @@ "user.identity" :> [status |-> {"Uid", "Gid", "Umask"},
       passwd |-> {"own_entry"}, group |-> {"sudo"}]
  @@ "shell.env" :> [environ |-> {"SHELL"}, status |-> {"Uid"},
       passwd |-> {"own_entry"}]
  @@ "shell.startup" :> [status |-> {"Uid"}, passwd |-> {"own_entry"},
       bash_profile |-> {"text"}, bash_login |-> {"text"}, profile |-> {"text"},
       profile_d |-> {"file"}]
  @@ "bin.path" :> [environ |-> {"LD_PRELOAD"}, loader |-> {"elf"}]
  @@ "text.locale" :> [environ |-> {"LANG"}, locale_conf |-> {"LANG"},
       default_locale |-> {"LANG"}, locales |-> {"locale-archive", "a_locale"}]
  @@ "time.clock" :> [localtime |-> {"zoneinfo"}, timezone |-> {"text"},
       clocksource |-> {"tsc"}, stat |-> {"btime"}, adjtime |-> {"line_3"},
       proc |-> {"process"}, comm |-> {"systemd-timesyncd"}]
  @@ "security.lsm" :> [lsm |-> {"apparmor"}, enabled |-> {"Y"},
       profiles |-> {"profile"}, enforce |-> {"1"}, config |-> {"SELINUX"}]
  @@ "crypto.setup" :> [bundle |-> {"certificate"}, crypto |-> {"aes"},
       rng |-> {"name"}, tpm |-> {"2"}, policy |-> {"name"}]
  @@ "pkg.manager" :> [dpkg |-> {"installed"}, rpm |-> {"db"}, pacman |-> {"dir"},
       snaps |-> {"snap"}, flatpak |-> {"app"}, own_flatpak |-> {"app"},
       status |-> {"Uid"}, passwd |-> {"own_entry"}]
  @@ "git.config" :> [status |-> {"Uid"}, passwd |-> {"own_entry"},
       gitconfig |-> {"user.name"}, own_config |-> {"alias"},
       own_gitconfig |-> {"user.name", "alias"}]
  @@ "ssh.setup" :> [status |-> {"Uid"}, passwd |-> {"own_entry"},
       ssh_dir |-> {"key", "key.pub"}, key_pub |-> {"kind"},
       ssh_config |-> {"host"}, known_hosts |-> {"line"},
       authorized_keys |-> {"line"}, environ |-> {"SSH_AUTH_SOCK"},
       sshd_config |-> {"port"}]
  @@ "proc.limits" :> [limits |-> {"open_files", "processes"},
       file_nr |-> {"numbers"}, nr_open |-> {"number"}]
  @@ "ipc.summary" :> [unix |-> {"listening_path"}, shm_space |-> {"total"},
       shm |-> {"row"}]
  @@ "systemd.overrides" :> [system |-> {"unit", "unit.d"}, dropin |-> {".conf"},
       link |-> {"/dev/null"}, vendor |-> {"unit"}]

\* What a site may be that could hold these things.  To read a link takes
\* the right to enter its folder, which whoever lists the folder has here.
States(site, things) ==
  {Absent} \cup [err : IF site = "link" THEN {"none"} ELSE Kinds \ {"NotFound"},
                 has : SUBSET things]

Whole(name) == [s \in DOMAIN Holds[name] |-> Text(Holds[name][s])]
Empty(name) == [s \in DOMAIN Holds[name] |-> Absent]

Near(name, machine) ==
  {[machine EXCEPT ![p[1]] = p[3], ![p[2]] = p[4]] :
     p \in UNION {{s} \X {t} \X States(s, Holds[name][s]) \X States(t, Holds[name][t]) :
                    s \in DOMAIN machine, t \in DOMAIN machine}}

\* A control group and the two above it: with a limit, with none, not to be
\* read.
Limited == {Absent, Text({}), Text({"number"}), [err |-> "PermissionDenied", has |-> {"number"}]}
Groups ==
  [cgroup : {Text({}), Absent}, controllers : {Text({"memory"}), Absent},
   own : Limited, parent : Limited, top : Limited]

\* Two CPUs, of which one may be offline, or hidden.
TwoCpus == {"cpu0", "cpu1"}
Topologies ==
  [cpus : {Absent, Text({"cpu0"}), Text(TwoCpus)},
   package : [TwoCpus -> [err : {"none", "NotFound", "PermissionDenied"}, has : {{0}, {1}}]]]

MCProbed ==
  UNION {[name : {n}, sites : Near(n, Whole(n)) \cup Near(n, Empty(n))] : n \in DOMAIN Holds}
  \cup [name : {"proc.cgroup"}, sites : Groups]
  \cup [name : {"cpu.topology"}, sites : Topologies]

\* What is root's own: a machine like the user's whole one, an account whose
\* home is empty, nothing at all.
HomeEmpty(name) == [s \in DOMAIN Holds[name] |->
                     IF s \in {"status", "passwd", "environ"} THEN Text(Holds[name][s]) ELSE Absent]
MCRootsOwn ==
  [name \in RegisteredNames |->
     CASE Own(name).sites = {}  -> {<<>>}
       [] name = "proc.cgroup"  -> Groups
       [] OTHER                 -> {Whole(name), HomeEmpty(name), Empty(name)}]

=============================================================================
