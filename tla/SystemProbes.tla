---------------------------- MODULE SystemProbes ----------------------------
(***************************************************************************)
(* The probes of the running system: kernel.rs, boot.rs, virt.rs, logs.rs  *)
(* and net.rs of src/probes, as operators from the sites they read to      *)
(* their answers.                                                          *)
(***************************************************************************)
EXTENDS ProbeResults

-----------------------------------------------------------------------------
(* kernel.rs *)

\* One watched value and one configured one.  A file of settings that links
\* to /dev/null is masked.
KernelSysctl(h) ==
  Needs("sys", h.sys,
    Always(When(CanRead(h.value), {"value"})
             \cup When(\/ Has(h.sysctl_conf, "setting")
                       \/ /\ Has(h.sysctl_d, "file")
                          /\ ~Has(h.link, "/dev/null")
                          /\ Has(h.file, "setting"),
                       {"configured"})))

KernelModules(h) ==
  Needs("modules", h.modules,
    Always({"loaded"} \cup When(Has(h.tainted, "number"), {"tainted", "taint_flags"})))

\* The compiler and the build are two parts of one line.
KernelOverview(h) ==
  Needs("stat", h.stat,
    Always(When("ctxt" \in h.stat.has, {"context_switches"})
             \cup When(CanRead(h.osrelease), {"release"})
             \cup When(Has(h.version, "#build"), {"build"})
             \cup When(Has(h.version, "compiler"), {"compiler"})
             \cup When(Has(h.uptime, "number"), {"uptime"})
             \cup When(CanRead(h.filesystems), {"filesystems"})))

\* Columns are counted from the header; a line is kept if its sum is not 0.
KernelIrq(h) ==
  Needs("interrupts", h.interrupts,
    Always(When({"header", "count"} \subseteq h.interrupts.has, {"top"})
             \cup When(Has(h.softirqs, "count"), {"softirqs"})))

-----------------------------------------------------------------------------
(* boot.rs *)

\* The default target is the first of the links that is there, the boot
\* loader what it says of itself, or GRUB if there is a GRUB to see.
Boot(h) ==
  LET kernel  == CanRead(h.osrelease)
      cmdline == Has(h.cmdline, "text")
      uptime  == Has(h.uptime, "number")
  IN  IF ~(kernel \/ cmdline \/ uptime)
      THEN Nothing("no_kernel,_command_line_or_uptime")
      ELSE Always(When(kernel, {"kernel"}) \cup When(cmdline, {"cmdline"})
                    \cup When(uptime, {"uptime"})
                    \cup When(Exists(h.firmware), {"firmware"})
                    \cup When(Has(h.secure_boot, "byte"), {"secure_boot"})
                    \cup When(CanRead(h.default_target), {"default_target"})
                    \cup When(Has(h.loader, "utf16") \/ Exists(h.grub), {"bootloader"}))

-----------------------------------------------------------------------------
(* virt.rs *)

\* container(): the first hint, from the plainest to the one that only says
\* that this is not the host.
Container(h) ==
  CASE Has(h.systemd_container, "kind") -> "says_systemd"
    [] ~Has(h.systemd_container, "kind") /\ Exists(h.dockerenv) -> "docker"
    [] /\ ~Has(h.systemd_container, "kind") /\ ~Exists(h.dockerenv)
       /\ Has(h.cgroup, "docker") -> "docker"
    [] /\ ~Has(h.systemd_container, "kind") /\ ~Exists(h.dockerenv)
       /\ ~Has(h.cgroup, "docker") /\ Has(h.ns, "own") -> "container"
    [] OTHER -> "none"

\* vm(): the hypervisor by name, or the flag that every hypervisor sets.
Vm(h) ==
  CASE CanRead(h.hypervisor) -> "named"
    [] ~CanRead(h.hypervisor) /\ Has(h.dmi, "vendor") -> "named"
    [] /\ ~CanRead(h.hypervisor) /\ ~Has(h.dmi, "vendor")
       /\ Has(h.cpuinfo, "hypervisor") -> "unknown"
    [] OTHER -> "none"

Virt(h) ==
  IF ~CanRead(h.ns) /\ ~Exists(h.self)
  THEN Failed("self", "Missing")
  ELSE Always(When(Container(h) # "none", {"container"})
                \cup When(Vm(h) # "none", {"vm"})
                \cup When(CanRead(h.ns), {"namespaces"})
                \cup When(Has(h.mountinfo, "overlay"), {"overlays"}))

-----------------------------------------------------------------------------
(* logs.rs *)

\* Where the journal is: the first folder with files in it, where an empty
\* persistent one counts too, unless the settings say it is in memory.
JournalStorage(h) ==
  IF Has(h.conf, "Storage=volatile") THEN "volatile"
  ELSE IF Has(h.persistent, "journal") \/ Exists(h.persistent) THEN "persistent"
  ELSE IF Has(h.volatile, "journal") THEN "volatile"
  ELSE "none"

Logs(h) ==
  IF ~Exists(h.var_log) /\ ~Exists(h.volatile)
  THEN Failed("/var/log", "Missing")
  ELSE Always(When(JournalStorage(h) # "none", {"storage"})
                \cup When(Has(h.persistent, "journal") \/ Has(h.volatile, "journal"),
                          {"journal_files"})
                \cup When(Has(h.conf, "Storage=volatile"), {"storage_setting"})
                \cup When(CanRead(h.logrotate), {"logrotate_rules"})
                \cup When(Has(h.var_log, "file"), {"biggest"}))

-----------------------------------------------------------------------------
(* net.rs *)

\* One interface.  The addresses come from a system call.
NetInterfaces(h) ==
  Needs("net", h.net,
    Noted(When(Has(h.net, "interface"),
               {"interface"} \cup When(CanRead(h.operstate), {"state"})
                 \cup When(Has(h.addrs, "address"), {"addresses"}))
            \cup When(Has(h.route, "default"), {"gateway"}),
          When(~CanRead(h.addrs), {"addrs"})))

\* socket_owners(): the sockets among the open files of the processes that
\* can be looked into.
Owned(h) == Has(h.proc, "process") /\ Has(h.fds, "socket")

\* One listening socket of another table than the last.
NetListening(h) ==
  LET tables == {h.tcp, h.udp}
  IN  IF \A t \in tables : ~CanRead(t)
      THEN Nothing("/proc/net/tcp:_not_found")
      ELSE LET found == \E t \in tables : Has(t, "listening")
           IN  [Noted({"total"} \cup When(found,
                        {"socket"} \cup When(Has(h.passwd, "entry"), {"user"})
                                   \cup When(Owned(h), {"process"})),
                      When(found /\ ~Owned(h), {"process"}))
                 EXCEPT !.status = "Ok"]

NetDnsOfOneFile(h) ==
  IF CanRead(h.resolv)
  THEN Always(When(Has(h.resolv, "nameserver"), {"nameservers"}))
  ELSE Needs("resolv", h.nsswitch,
         Noted(When(Has(h.nsswitch, "hosts"), {"hosts_order"}), {"resolv"}))

\* Two files, of which one is enough.
NetDns(h) ==
  IF ~CanRead(h.resolv) /\ ~CanRead(h.nsswitch)
  THEN Failed("resolv", ReadError(h.resolv.err))
  ELSE Noted(When(Has(h.resolv, "nameserver"), {"nameservers"})
               \cup When(Has(h.nsswitch, "hosts"), {"hosts_order"}),
             When(~CanRead(h.resolv), {"resolv"}))

\* The states that systemctl printed, one to a line, go to the units in the
\* order they were asked for: no line, no service.
NetFirewall(h) ==
  LET services == Has(h.systemctl, "line")
      notes    == When(~CanRead(h.systemctl), {"systemctl"})
  IN  IF ~services /\ ~CanRead(h.ufw)
      THEN Result("Unavailable", FALSE, {}, notes)
      ELSE Noted(When(services, {"services"}) \cup When(CanRead(h.ufw), {"ufw_enabled"}),
                 notes)

\* Built on two other probes: the notes of the first are kept, its status is
\* not, and of the second there is only what it knows.
NetLayers(h) ==
  LET r == NetInterfaces(h)
  IN  IF ~r.data THEN r
      ELSE Result("Ok", TRUE,
             When("state" \in r.known, {"links_up"})
               \cup (r.known \cap {"addresses", "gateway"})
               \cup (NetDns(h).known \cap {"nameservers"})
               \cup When(CanRead(h.arp), {"neighbours"})
               \cup When(Has(h.snmp, "Tcp"), {"tcp"}),
             r.notes)
=============================================================================
