---------------------------- MODULE ProbesProofs ----------------------------
(***************************************************************************)
(* Every probe of Probes says why it cannot answer, and a probe that is    *)
(* run again as root loses nothing of the host that it showed: both proved *)
(* for every machine, for any sites, whatever is in them and however       *)
(* reading them fails.                                                     *)
(***************************************************************************)
EXTENDS Probes, TLAPS

-----------------------------------------------------------------------------
(* How answers are put together. *)

LEMMA AlwaysExplains == \A known : Explained(Always(known))
BY DEF Explained, PageHead, Always, Result

LEMMA NothingExplains == \A note : Explained(Nothing(note))
BY DEF Explained, PageHead, Nothing, Result

LEMMA NotedExplains == \A known, notes : Explained(Noted(known, notes))
BY DEF Explained, PageHead, Noted, Result

LEMMA FailedExplains == \A name, err : Explained(Failed(name, err))
BY DEF Explained, PageHead, Failed, Result

\* What fails to read its main site explains that, and else what it says.
LEMMA NeedsExplains ==
  ASSUME NEW name, NEW site, NEW a, CanRead(site) => Explained(a)
  PROVE  Explained(Needs(name, site, a))
BY FailedExplains DEF Needs

-----------------------------------------------------------------------------
(* The probes, by the files of the source. *)

LEMMA HardwareProbesExplain ==
  ASSUME NEW h
  PROVE  /\ Explained(MemSummary(h))
         /\ Explained(MemVm(h))
         /\ Explained(MemNuma(h))
         /\ Explained(MemErrors(h))
         /\ Explained(DiskTree(h))
         /\ Explained(FsTmp(h))
         /\ Explained(FsFstab(h))
         /\ Explained(DevUdev(h))
         /\ Explained(DiskHardware(h))
         /\ Explained(DiskIo(h))
         /\ Explained(FsMount(h))
         /\ Explained(CpuSummary(h))
         /\ Explained(CpuFeatures(h))
         /\ Explained(CpuTopology(h))
         /\ Explained(CpuCaches(h))
         /\ Explained(CpuFreq(h))
         /\ Explained(CpuVulns(h))
         /\ Explained(GpuCards(h))
<1>1. Explained(MemSummary(h))
  BY NeedsExplains, NotedExplains, NothingExplains DEF MemSummary
<1>2. Explained(MemVm(h))
  BY NeedsExplains, AlwaysExplains DEF MemVm
<1>3. Explained(MemNuma(h))
  BY AlwaysExplains DEF MemNuma
<1>4. Explained(MemErrors(h))
  BY AlwaysExplains DEF MemErrors
<1>5. Explained(DiskTree(h))
  BY NeedsExplains, NotedExplains DEF DiskTree
<1>6. Explained(FsTmp(h))
  BY NeedsExplains, AlwaysExplains DEF FsTmp
<1>7. Explained(FsFstab(h))
  BY NeedsExplains, AlwaysExplains DEF FsFstab
<1>8. Explained(DevUdev(h))
  BY AlwaysExplains, NothingExplains DEF DevUdev
<1>9. Explained(DiskHardware(h))
  BY NeedsExplains, AlwaysExplains DEF DiskHardware
<1>10. Explained(DiskIo(h))
  BY NeedsExplains, AlwaysExplains DEF DiskIo
<1>11. Explained(FsMount(h))
  BY NeedsExplains, AlwaysExplains DEF FsMount
<1>12. Explained(CpuSummary(h))
  BY NeedsExplains, NotedExplains DEF CpuSummary
<1>13. Explained(CpuFeatures(h))
  BY NeedsExplains, NotedExplains DEF CpuFeatures
<1>14. Explained(CpuTopology(h))
  BY AlwaysExplains, NotedExplains, FailedExplains DEF CpuTopology
<1>15. Explained(CpuCaches(h))
  BY AlwaysExplains, NothingExplains DEF CpuCaches
<1>16. Explained(CpuFreq(h))
  BY AlwaysExplains, NothingExplains DEF CpuFreq
<1>17. Explained(CpuVulns(h))
  BY NeedsExplains, AlwaysExplains DEF CpuVulns
<1>18. Explained(GpuCards(h))
  BY NeedsExplains, AlwaysExplains DEF GpuCards
<1>. QED  BY <1>1, <1>2, <1>3, <1>4, <1>5, <1>6, <1>7, <1>8, <1>9, <1>10, <1>11, <1>12,
            <1>13, <1>14, <1>15, <1>16, <1>17, <1>18

LEMMA SystemProbesExplain ==
  ASSUME NEW h
  PROVE  /\ Explained(KernelSysctl(h))
         /\ Explained(KernelModules(h))
         /\ Explained(KernelOverview(h))
         /\ Explained(KernelIrq(h))
         /\ Explained(Boot(h))
         /\ Explained(Virt(h))
         /\ Explained(Logs(h))
         /\ Explained(NetInterfaces(h))
         /\ Explained(NetListening(h))
         /\ Explained(NetDns(h))
         /\ Explained(NetLayers(h))
<1>1. Explained(KernelSysctl(h))
  BY NeedsExplains, AlwaysExplains DEF KernelSysctl
<1>2. Explained(KernelModules(h))
  BY NeedsExplains, AlwaysExplains DEF KernelModules
<1>3. Explained(KernelOverview(h))
  BY NeedsExplains, AlwaysExplains DEF KernelOverview
<1>4. Explained(KernelIrq(h))
  BY NeedsExplains, AlwaysExplains DEF KernelIrq
<1>5. Explained(Boot(h))
  BY AlwaysExplains, NothingExplains DEF Boot
<1>6. Explained(Virt(h))
  BY AlwaysExplains, FailedExplains DEF Virt
<1>7. Explained(Logs(h))
  BY AlwaysExplains, FailedExplains DEF Logs
<1>8. Explained(NetInterfaces(h))
  BY NeedsExplains, NotedExplains DEF NetInterfaces
<1>9. Explained(NetListening(h))
  BY NothingExplains DEF NetListening, Noted, Result, Explained, PageHead
<1>10. Explained(NetDns(h))
  BY NotedExplains, FailedExplains DEF NetDns
<1>11. Explained(NetLayers(h))
  BY <1>8 DEF NetLayers, Result, Explained, PageHead
<1>. QED  BY <1>1, <1>2, <1>3, <1>4, <1>5, <1>6, <1>7, <1>8, <1>9, <1>10, <1>11

LEMMA SettingsProbesExplain ==
  ASSUME NEW h
  PROVE  /\ Explained(User(h))
         /\ Explained(ShellEnv(h))
         /\ Explained(Startup(h))
         /\ Explained(BinPath(h))
         /\ Explained(Locale(h))
         /\ Explained(Time(h))
         /\ Explained(Lsm(h))
         /\ Explained(Crypto(h))
         /\ Explained(PkgManager(h))
         /\ Explained(Git(h))
         /\ Explained(SshSetup(h))
         /\ Explained(Limits(h))
         /\ Explained(Ipc(h))
         /\ Explained(Cgroup(h))
         /\ Explained(Overrides(h))
<1>1. Explained(User(h))
  BY NeedsExplains, NotedExplains, NothingExplains DEF User
<1>2. Explained(ShellEnv(h))
  BY NeedsExplains, AlwaysExplains DEF ShellEnv
<1>3. Explained(Startup(h))
  BY AlwaysExplains, NothingExplains DEF Startup
<1>4. Explained(BinPath(h))
  BY NeedsExplains, AlwaysExplains DEF BinPath
<1>5. Explained(Locale(h))
  BY NeedsExplains, AlwaysExplains DEF Locale
<1>6. Explained(Time(h))
  BY AlwaysExplains, NothingExplains DEF Time
<1>7. Explained(Lsm(h))
  BY NothingExplains DEF Lsm, Result, Explained, PageHead
<1>8. Explained(Crypto(h))
  BY AlwaysExplains, NothingExplains DEF Crypto
<1>9. Explained(PkgManager(h))
  BY AlwaysExplains, NothingExplains DEF PkgManager
<1>10. Explained(Git(h))
  BY NotedExplains DEF Git
<1>11. Explained(SshSetup(h))
  BY AlwaysExplains, NothingExplains DEF SshSetup
<1>12. Explained(Limits(h))
  BY NeedsExplains, AlwaysExplains DEF Limits
<1>13. Explained(Ipc(h))
  BY NeedsExplains, AlwaysExplains DEF Ipc
<1>14. Explained(Cgroup(h))
  BY NeedsExplains, AlwaysExplains DEF Cgroup
<1>15. Explained(Overrides(h))
  BY NeedsExplains, AlwaysExplains DEF Overrides
<1>. QED  BY <1>1, <1>2, <1>3, <1>4, <1>5, <1>6, <1>7, <1>8, <1>9, <1>10, <1>11, <1>12,
            <1>13, <1>14, <1>15

\* The firewall alone may be silent, if systemctl is.
LEMMA FirewallExplains ==
  ASSUME NEW h
  PROVE  Explained(NetFirewall(h)) \/ "line" \notin h.systemctl.has
<1>1. CASE Has(h.systemctl, "line")
  BY <1>1, NotedExplains DEF NetFirewall
<1>2. CASE ~CanRead(h.systemctl)
  BY <1>2, NotedExplains DEF NetFirewall, Has, When, Result, Explained
<1>. QED  BY <1>1, <1>2 DEF Has

-----------------------------------------------------------------------------
(* The registry and its runs. *)

LEMMA RegisteredExplains ==
  ASSUME NEW name \in RegisteredNames, NEW h
  PROVE  \/ Explained(Registered(name, h))
         \/ name = "net.firewall" /\ "line" \notin h.systemctl.has
BY HardwareProbesExplain, SystemProbesExplain, SettingsProbesExplain, FirewallExplains
   DEF RegisteredNames, Registered

LEMMA RunExplains ==
  ASSUME NEW name \in RegisteredNames, NEW h, NEW linux
  PROVE  \/ Explained(RunProbe(name, h, linux))
         \/ name = "net.firewall" /\ "line" \notin h.systemctl.has
BY RegisteredExplains DEF RunProbe, Unsupported, Result, Explained

\* The probe stays one of the registry, and has its sites.
ProbeInv ==
  /\ {"name", "sites"} \subseteq DOMAIN probe
  /\ probe.name \in RegisteredNames
  /\ IsMachine(probe.name, probe.sites)

\* What root finds in a site, and where.
LEMMA OpenedIsSite ==
  ASSUME NEW site, IsSite(site)
  PROVE  /\ DOMAIN Opened(site) = DOMAIN site
         /\ Opened(site).has = site.has
         /\ Opened(site).err = IF site.err \in Denied THEN "none" ELSE site.err
BY DEF Opened, IsSite

LEMMA OpenedSites ==
  ASSUME NEW name, NEW h, IsMachine(name, h)
  PROVE  /\ DOMAIN OpenedAll(h) = DOMAIN h
         /\ \A s \in SitesOf(name) \ {"package"} : OpenedAll(h)[s] = Opened(h[s])
         /\ "package" \in SitesOf(name) =>
              /\ DOMAIN OpenedAll(h).package = DOMAIN h.package
              /\ \A c \in h.cpus.has : OpenedAll(h).package[c] = Opened(h.package[c])
BY DEF OpenedAll, IsMachine, IsSite

LEMMA CpusAreListed ==
  ASSUME NEW name \in RegisteredNames, "package" \in SitesOf(name)
  PROVE  "cpus" \in SitesOf(name)
BY DEF RegisteredNames, SitesOf

LEMMA OpenedIsMachine ==
  ASSUME NEW name \in RegisteredNames, NEW h, IsMachine(name, h)
  PROVE  IsMachine(name, OpenedAll(h))
<1>1. \A s \in SitesOf(name) \ {"package"} : IsSite(OpenedAll(h)[s])
  BY OpenedSites, OpenedIsSite DEF IsMachine, IsSite
<1>2. ASSUME "package" \in SitesOf(name)
      PROVE  /\ "err" \notin DOMAIN OpenedAll(h).package
             /\ \A c \in OpenedAll(h).cpus.has :
                  c \in DOMAIN OpenedAll(h).package /\ IsSite(OpenedAll(h).package[c])
  <2>1. OpenedAll(h).cpus.has = h.cpus.has
    BY <1>2, CpusAreListed, OpenedSites, OpenedIsSite DEF IsMachine
  <2>. QED  BY <1>2, <2>1, OpenedSites, OpenedIsSite DEF IsMachine, IsSite
<1>3. ASSUME "link" \in SitesOf(name)
      PROVE  OpenedAll(h).link.err \notin Denied
  BY <1>3, OpenedSites, OpenedIsSite DEF IsMachine, Denied
<1>. QED  BY <1>1, <1>2, <1>3, OpenedSites DEF IsMachine

\* The own sites are those of files.
LEMMA OwnSites ==
  ASSUME NEW name \in RegisteredNames
  PROVE  Own(name).sites \cap {"package", "cpus", "link"} = {}
BY DEF Own

LEMMA AsRootSites ==
  ASSUME NEW name, NEW h, NEW g \in AsRoot(name, h), IsMachine(name, h)
  PROVE  \E own \in RootsOwn[name] :
           /\ DOMAIN g = DOMAIN h
           /\ \A s \in SitesOf(name) :
                g[s] = IF s \in Own(name).sites THEN own[s] ELSE OpenedAll(h)[s]
BY DEF AsRoot, IsMachine

LEMMA AsRootIsMachine ==
  ASSUME NEW name \in RegisteredNames, NEW h, IsMachine(name, h), NEW g \in AsRoot(name, h)
  PROVE  IsMachine(name, g)
<1>1. PICK own \in RootsOwn[name] :
        /\ DOMAIN g = DOMAIN h
        /\ \A s \in SitesOf(name) :
             g[s] = IF s \in Own(name).sites THEN own[s] ELSE OpenedAll(h)[s]
  BY AsRootSites
<1>2. IsMachine(name, OpenedAll(h)) /\ DOMAIN OpenedAll(h) = DOMAIN h
  BY OpenedIsMachine, OpenedSites
<1>3. \A s \in SitesOf(name) \ {"package"} : IsSite(g[s])
  BY <1>1, <1>2, RootsOwnAssumption DEF IsMachine
<1>4. ASSUME NEW s \in {"package", "cpus", "link"}, s \in SitesOf(name)
      PROVE  g[s] = OpenedAll(h)[s]
  BY <1>1, <1>4, OwnSites
<1>5. "package" \in SitesOf(name) =>
        /\ "err" \notin DOMAIN g.package
        /\ \A c \in g.cpus.has : c \in DOMAIN g.package /\ IsSite(g.package[c])
  BY <1>2, <1>4, CpusAreListed DEF IsMachine
<1>6. "link" \in SitesOf(name) => g.link.err \notin Denied
  BY <1>2, <1>4 DEF IsMachine
<1>. QED  BY <1>1, <1>2, <1>3, <1>5, <1>6 DEF IsMachine

\* Becoming root changes how systemctl is read, not what it says.
LEMMA BecomeRootKeeps ==
  ASSUME ProbeInv, BecomeRoot
  PROVE  /\ ProbeInv'
         /\ probe'.name = probe.name
         /\ probe'.sites \in AsRoot(probe.name, probe.sites)
         /\ probe.name = "net.firewall" =>
              probe'.sites.systemctl.has = probe.sites.systemctl.has
<1>1. /\ DOMAIN probe' = DOMAIN probe
      /\ probe'.name = probe.name
      /\ probe'.sites \in AsRoot(probe.name, probe.sites)
  BY DEF BecomeRoot, ProbeInv
<1>2. ProbeInv'
  BY <1>1, AsRootIsMachine DEF ProbeInv
<1>3. ASSUME probe.name = "net.firewall"
      PROVE  probe'.sites.systemctl.has = probe.sites.systemctl.has
  <2>1. "systemctl" \in SitesOf(probe.name) \ {"package"} /\ Own(probe.name).sites = {}
    BY <1>3 DEF SitesOf, Own
  <2>2. probe'.sites.systemctl = OpenedAll(probe.sites).systemctl
    BY <1>1, <2>1, AsRootSites DEF ProbeInv
  <2>. QED  BY <2>1, <2>2, OpenedSites, OpenedIsSite DEF ProbeInv, IsMachine
<1>. QED  BY <1>1, <1>2, <1>3

Inv == ProbeInv /\ SaysWhy

LEMMA InvInit == Init => Inv
BY ProbedAssumption DEF Init, Inv, ProbeInv, SaysWhy

LEMMA InvNext == Inv /\ [Next]_vars => Inv'
<1>. SUFFICES ASSUME Inv, [Next]_vars PROVE Inv'
  OBVIOUS
<1>1. CASE Run
  <2>1. ProbeInv'
    BY <1>1 DEF Run, Inv, ProbeInv
  <2>2. SaysWhy'
    BY <1>1, RunExplains DEF Run, Inv, ProbeInv, SaysWhy
  <2>. QED  BY <2>1, <2>2 DEF Inv
<1>2. CASE BecomeRoot
  <2>1. answer' = answer
    BY <1>2 DEF BecomeRoot
  <2>. QED  BY <1>2, <2>1, BecomeRootKeeps DEF Inv, SaysWhy
<1>3. CASE UNCHANGED vars
  BY <1>3 DEF vars, Inv, ProbeInv, SaysWhy
<1>. QED  BY <1>1, <1>2, <1>3 DEF Next

(* A probe that cannot answer says why (README.md:128): for every machine, *)
(* before and after its user became root.                                  *)
THEOREM ProbesSayWhy == Spec => []SaysWhy
<1>1. Spec => []Inv
  BY InvInit, InvNext, PTL DEF Spec
<1>2. Inv => SaysWhy
  BY DEF Inv
<1>. QED  BY <1>1, <1>2, PTL

-----------------------------------------------------------------------------
(***************************************************************************)
(* Run as root: every probe is monotone.  On a machine of which more can   *)
(* be read it knows at least as much; and one that looks at the own sites  *)
(* of the user keeps what does not rest on them, whatever root's are.      *)
(* What speaks against it, and what the lemmas are about, is that probes   *)
(* take the first of several sources, compare members of a list, or hide a *)
(* field for what they find in another file.                               *)
(***************************************************************************)

-----------------------------------------------------------------------------
(* Machines of which more can be read, and answers that know more. *)

Opens(a, b) ==
  /\ b.has = a.has
  /\ CanRead(a) => CanRead(b)
  /\ Exists(a) => Exists(b)

Wider(h, g, sites) == \A s \in sites : Opens(h[s], g[s])

Knows(a, b) == (a.data => b.data) /\ a.known \subseteq b.known

-----------------------------------------------------------------------------
(* The probes, by the files of the source. *)

(* mem.rs *)

LEMMA MemSummaryKnows ==
  ASSUME NEW h, NEW g, Wider(h, g, {"meminfo", "swappiness"})
  PROVE  Knows(MemSummary(h), MemSummary(g))
BY DEF MemSummary, Needs, Noted, Nothing, Result, Failed, Has, When, Wider, Opens,
       Knows

LEMMA MemVmKnows ==
  ASSUME NEW h, NEW g, Wider(h, g, {"vmstat", "smaps", "thp"})
  PROVE  Knows(MemVm(h), MemVm(g))
BY DEF MemVm, Needs, Always, Result, Failed, Has, When, Wider, Opens, Knows

LEMMA MemNumaKnows ==
  ASSUME NEW h, NEW g, Wider(h, g, {"nodes", "meminfo", "numastat", "cpulist",
         "balancing"})
  PROVE  Knows(MemNuma(h), MemNuma(g))
BY DEF MemNuma, Always, Result, Has, When, Wider, Opens, Knows

LEMMA MemErrorsKnows ==
  ASSUME NEW h, NEW g, Wider(h, g, {"controllers", "ce_count", "dimms",
         "mem_type", "meminfo"})
  PROVE  Knows(MemErrors(h), MemErrors(g))
BY DEF MemErrors, Always, Result, Has, When, Wider, Opens, Knows

(* disk.rs *)

LEMMA DiskTreeKnows ==
  ASSUME NEW h, NEW g, Wider(h, g, {"block", "size", "swaps", "dev", "mountinfo",
         "children", "partition"})
  PROVE  Knows(DiskTree(h), DiskTree(g))
BY DEF DiskTree, Needs, Noted, Result, Failed, Has, When, SizeOf, MountsOf, Wider,
       Opens, Knows

LEMMA FsTmpKnows ==
  ASSUME NEW h, NEW g, Wider(h, g, {"mountinfo", "space"})
  PROVE  Knows(FsTmp(h), FsTmp(g))
BY DEF FsTmp, Needs, Always, Result, Failed, Has, When, Wider, Opens, Knows

LEMMA FsFstabKnows ==
  ASSUME NEW h, NEW g, Wider(h, g, {"fstab", "mountinfo"})
  PROVE  Knows(FsFstab(h), FsFstab(g))
BY DEF FsFstab, Needs, Always, Result, Failed, Has, When, Wider, Opens, Knows

LEMMA DevUdevKnows ==
  ASSUME NEW h, NEW g, Wider(h, g, {"etc", "usr_lib", "lib"})
  PROVE  Knows(DevUdev(h), DevUdev(g))
BY DEF DevUdev, Always, Nothing, Result, Has, When, Wider, Opens, Knows

LEMMA DiskHardwareKnows ==
  ASSUME NEW h, NEW g, Wider(h, g, {"block", "size", "size_again", "model",
         "scheduler"})
  PROVE  Knows(DiskHardware(h), DiskHardware(g))
BY DEF DiskHardware, Needs, Always, Result, Failed, Has, When, SizeOf, PhysicalDisk,
       Wider, Opens, Knows

LEMMA DiskIoKnows ==
  ASSUME NEW h, NEW g, Wider(h, g, {"diskstats", "block", "size", "meminfo",
         "uptime", "expire"})
  PROVE  Knows(DiskIo(h), DiskIo(g))
BY DEF DiskIo, Needs, Always, Result, Failed, Has, When, PhysicalDisk, SizeOf,
       Wider, Opens, Knows

(* fsmount.rs *)

LEMMA FsMountKnows ==
  ASSUME NEW h, NEW g, Wider(h, g, {"mountinfo"})
  PROVE  Knows(FsMount(h), FsMount(g))
BY DEF FsMount, Needs, Always, Result, Failed, Has, When, Wider, Opens, Knows

(* cpu.rs *)

LEMMA CpuSummaryKnows ==
  ASSUME NEW h, NEW g, Wider(h, g, {"cpuinfo", "online", "loadavg", "governor"})
  PROVE  Knows(CpuSummary(h), CpuSummary(g))
BY DEF CpuSummary, Needs, Noted, Result, Failed, Has, When, Wider, Opens, Knows

LEMMA CpuFeaturesKnows ==
  ASSUME NEW h, NEW g, Wider(h, g, {"cpuinfo", "arch"})
  PROVE  Knows(CpuFeatures(h), CpuFeatures(g))
BY DEF CpuFeatures, Needs, Noted, Result, Failed, Has, When, Wider, Opens, Knows

LEMMA CpuTopologyKnows ==
  ASSUME NEW h, NEW g, Wider(h, g, {"cpus"}),
         \A c \in h.cpus.has : Opens(h.package[c], g.package[c])
  PROVE  Knows(CpuTopology(h), CpuTopology(g))
BY DEF CpuTopology, Noted, Always, Failed, Result, Has, CpuDirs, Counted, Wider,
       Opens, Knows

LEMMA CpuCachesKnows ==
  ASSUME NEW h, NEW g, Wider(h, g, {"cpus", "cache", "level", "type", "size",
         "shared"})
  PROVE  Knows(CpuCaches(h), CpuCaches(g))
BY DEF CpuCaches, Always, Nothing, Result, Has, When, CpuDirs, Wider, Opens, Knows

LEMMA CpuFreqKnows ==
  ASSUME NEW h, NEW g, Wider(h, g, {"cpus", "scaling_driver", "cur_freq",
         "idle_driver", "boost", "zones", "temp", "zone_type", "hwmon", "driver",
         "input"})
  PROVE  Knows(CpuFreq(h), CpuFreq(g))
BY DEF CpuFreq, Always, Nothing, Result, Has, When, CpuDirs, Celsius, CpuSensor,
       Wider, Opens, Knows

LEMMA CpuVulnsKnows ==
  ASSUME NEW h, NEW g, Wider(h, g, {"names", "state", "cmdline"})
  PROVE  Knows(CpuVulns(h), CpuVulns(g))
BY DEF CpuVulns, Needs, Always, Result, Failed, Has, When, Wider, Opens, Knows

(* gpu.rs *)

LEMMA GpuCardsKnows ==
  ASSUME NEW h, NEW g, Wider(h, g, {"drm", "vendor", "driver", "uevent",
         "connector", "nvidia"})
  PROVE  Knows(GpuCards(h), GpuCards(g))
BY DEF GpuCards, Needs, Always, Result, Failed, Has, When, Wider, Opens, Knows

(* kernel.rs *)

LEMMA KernelSysctlKnows ==
  ASSUME NEW h, NEW g, Wider(h, g, {"sys", "value", "sysctl_conf", "sysctl_d", "link", "file"}),
         CanRead(g.link) => CanRead(h.link)
  PROVE  Knows(KernelSysctl(h), KernelSysctl(g))
BY DEF KernelSysctl, Needs, Always, Result, Failed, Has, When, Wider, Opens, Knows

LEMMA KernelModulesKnows ==
  ASSUME NEW h, NEW g, Wider(h, g, {"modules", "tainted"})
  PROVE  Knows(KernelModules(h), KernelModules(g))
BY DEF KernelModules, Needs, Always, Result, Failed, Has, When, Wider, Opens, Knows

LEMMA KernelOverviewKnows ==
  ASSUME NEW h, NEW g, Wider(h, g, {"stat", "osrelease", "version", "uptime",
         "filesystems"})
  PROVE  Knows(KernelOverview(h), KernelOverview(g))
BY DEF KernelOverview, Needs, Always, Result, Failed, Has, When, Wider, Opens, Knows

LEMMA KernelIrqKnows ==
  ASSUME NEW h, NEW g, Wider(h, g, {"interrupts", "softirqs"})
  PROVE  Knows(KernelIrq(h), KernelIrq(g))
BY DEF KernelIrq, Needs, Always, Result, Failed, Has, When, Wider, Opens, Knows

(* boot.rs *)

LEMMA BootKnows ==
  ASSUME NEW h, NEW g, Wider(h, g, {"osrelease", "cmdline", "uptime", "firmware",
         "secure_boot", "default_target", "loader", "grub"})
  PROVE  Knows(Boot(h), Boot(g))
BY DEF Boot, Always, Nothing, Result, Has, When, Wider, Opens, Knows

(* virt.rs *)

LEMMA VirtKnows ==
  ASSUME NEW h, NEW g, Wider(h, g, {"systemd_container", "dockerenv", "cgroup",
         "ns", "hypervisor", "dmi", "cpuinfo", "self", "mountinfo"})
  PROVE  Knows(Virt(h), Virt(g))
BY DEF Virt, Always, Failed, Result, Has, When, Container, Vm, Wider, Opens, Knows

(* logs.rs *)

LEMMA LogsKnows ==
  ASSUME NEW h, NEW g, Wider(h, g, {"conf", "persistent", "volatile", "var_log",
         "logrotate"})
  PROVE  Knows(Logs(h), Logs(g))
BY DEF Logs, Always, Failed, Result, Has, When, JournalStorage, Wider, Opens, Knows

(* net.rs *)

LEMMA NetInterfacesKnows ==
  ASSUME NEW h, NEW g, Wider(h, g, {"net", "operstate", "addrs", "route"})
  PROVE  Knows(NetInterfaces(h), NetInterfaces(g))
BY DEF NetInterfaces, Needs, Noted, Result, Failed, Has, When, Wider, Opens, Knows

LEMMA NetListeningKnows ==
  ASSUME NEW h, NEW g, Wider(h, g, {"tcp", "udp", "passwd", "proc", "fds"})
  PROVE  Knows(NetListening(h), NetListening(g))
BY DEF NetListening, Noted, Nothing, Result, Has, When, Owned, Wider, Opens, Knows

LEMMA NetDnsKnows ==
  ASSUME NEW h, NEW g, Wider(h, g, {"resolv", "nsswitch"})
  PROVE  Knows(NetDns(h), NetDns(g))
BY DEF NetDns, Noted, Failed, Result, Has, When, Wider, Opens, Knows

LEMMA NetFirewallKnows ==
  ASSUME NEW h, NEW g, Wider(h, g, {"systemctl", "ufw"})
  PROVE  Knows(NetFirewall(h), NetFirewall(g))
BY DEF NetFirewall, Noted, Result, Has, When, Wider, Opens, Knows

LEMMA NetLayersKnows ==
  ASSUME NEW h, NEW g, Wider(h, g, {"net", "operstate", "addrs", "route",
         "resolv", "nsswitch", "arp", "snmp"})
  PROVE  Knows(NetLayers(h), NetLayers(g))
BY DEF NetLayers, NetInterfaces, NetDns, Needs, Noted, Failed, Result, Has, When,
       Wider, Opens, Knows

(* user.rs *)

LEMMA UserShows ==
  ASSUME NEW h, NEW g
  PROVE  ShowsHost("user.identity", User(h), User(g))
BY DEF User, Needs, Noted, Nothing, Result, Failed, Has, When, ShowsHost, Own

(* shell.rs *)

LEMMA ShellEnvShows ==
  ASSUME NEW h, NEW g
  PROVE  ShowsHost("shell.env", ShellEnv(h), ShellEnv(g))
BY DEF ShellEnv, Needs, Always, Result, Failed, Has, When, Account, ShowsHost, Own

LEMMA StartupShows ==
  ASSUME NEW h, NEW g, Wider(h, g, {"profile_d"})
  PROVE  ShowsHost("shell.startup", Startup(h), Startup(g))
BY DEF Startup, Always, Nothing, Result, Has, When, Account, BashLogin, Wider,
       Opens, ShowsHost, Own

LEMMA BinPathShows ==
  ASSUME NEW h, NEW g, Wider(h, g, {"loader"})
  PROVE  ShowsHost("bin.path", BinPath(h), BinPath(g))
BY DEF BinPath, Needs, Always, Result, Failed, Has, When, Wider, Opens, ShowsHost,
       Own

(* text.rs *)

LEMMA LocaleShows ==
  ASSUME NEW h, NEW g, Wider(h, g, {"locale_conf", "default_locale", "locales"})
  PROVE  ShowsHost("text.locale", Locale(h), Locale(g))
BY DEF Locale, Needs, Always, Result, Failed, Has, When, Wider, Opens, ShowsHost,
       Own

(* time.rs *)

LEMMA TimeKnows ==
  ASSUME NEW h, NEW g, Wider(h, g, {"localtime", "timezone", "clocksource",
         "stat", "adjtime", "proc", "comm"})
  PROVE  Knows(Time(h), Time(g))
BY DEF Time, Always, Nothing, Result, Has, When, Wider, Opens, Knows

(* security.rs *)

LEMMA LsmKnows ==
  ASSUME NEW h, NEW g, Wider(h, g, {"lsm", "enabled", "profiles", "enforce",
         "config"})
  PROVE  Knows(Lsm(h), Lsm(g))
BY DEF Lsm, Nothing, Result, Has, When, Wider, Opens, Knows

(* crypto.rs *)

LEMMA CryptoKnows ==
  ASSUME NEW h, NEW g, Wider(h, g, {"bundle", "crypto", "rng", "tpm", "policy"})
  PROVE  Knows(Crypto(h), Crypto(g))
BY DEF Crypto, Always, Nothing, Result, Has, When, Wider, Opens, Knows

(* pkg.rs *)

LEMMA PkgManagerShows ==
  ASSUME NEW h, NEW g, Wider(h, g, {"dpkg", "rpm", "pacman", "snaps", "flatpak"})
  PROVE  ShowsHost("pkg.manager", PkgManager(h), PkgManager(g))
BY DEF PkgManager, Always, Nothing, Result, Has, When, Account, Wider, Opens,
       ShowsHost, Own

(* git.rs *)

LEMMA GitShows ==
  ASSUME NEW h, NEW g, Wider(h, g, {"gitconfig"})
  PROVE  ShowsHost("git.config", Git(h), Git(g))
BY DEF Git, Noted, Result, Has, When, Account, GitFiles, Wider, Opens, ShowsHost,
       Own

(* ssh.rs *)

LEMMA SshSetupShows ==
  ASSUME NEW h, NEW g, Wider(h, g, {"sshd_config"})
  PROVE  ShowsHost("ssh.setup", SshSetup(h), SshSetup(g))
BY DEF SshSetup, Always, Nothing, Result, Has, When, Account, Wider, Opens,
       ShowsHost, Own

(* conc.rs *)

LEMMA LimitsShows ==
  ASSUME NEW h, NEW g, Wider(h, g, {"file_nr", "nr_open"})
  PROVE  ShowsHost("proc.limits", Limits(h), Limits(g))
BY DEF Limits, Needs, Always, Result, Failed, Has, When, Wider, Opens, ShowsHost,
       Own

LEMMA IpcKnows ==
  ASSUME NEW h, NEW g, Wider(h, g, {"unix", "shm_space", "shm"})
  PROVE  Knows(Ipc(h), Ipc(g))
BY DEF Ipc, Needs, Always, Result, Failed, Has, When, Wider, Opens, Knows

(* proc.rs *)

LEMMA CgroupShows ==
  ASSUME NEW h, NEW g, Wider(h, g, {"controllers"})
  PROVE  ShowsHost("proc.cgroup", Cgroup(h), Cgroup(g))
BY DEF Cgroup, Needs, Always, Result, Failed, Has, When, MemoryLimits, Wider,
       Opens, ShowsHost, Own

(* systemd.rs *)

LEMMA OverridesKnows ==
  ASSUME NEW h, NEW g, Wider(h, g, {"system", "dropin", "link", "vendor"}),
         CanRead(g.link) => CanRead(h.link)
  PROVE  Knows(Overrides(h), Overrides(g))
BY DEF Overrides, Needs, Always, Result, Failed, Has, When, OverrideKind, Wider,
       Opens, Knows

-----------------------------------------------------------------------------
(* The registry and its runs. *)

\* What g shows to root of what h is.
Sees(name, h, g) ==
  /\ Wider(h, g, SitesOf(name) \ ({"package"} \cup Own(name).sites))
  /\ "package" \in SitesOf(name) =>
       \A c \in h.cpus.has : Opens(h.package[c], g.package[c])
  /\ "link" \in SitesOf(name) => (CanRead(g.link) => CanRead(h.link))

\* Of a probe that reads nothing of the user's own, all is of the host.
LEMMA HostOnly ==
  ASSUME NEW name, Own(name).sites = {}, NEW a, NEW b, Knows(a, b)
  PROVE  ShowsHost(name, a, b)
BY DEF ShowsHost, Knows

LEMMA RegisteredShows ==
  ASSUME NEW name \in RegisteredNames, NEW h, NEW g, Sees(name, h, g)
  PROVE  ShowsHost(name, Registered(name, h), Registered(name, g))
<1>1. CASE name = "mem.summary"
  BY <1>1, MemSummaryKnows, HostOnly DEF Sees, SitesOf, Own, Registered, Wider
<1>2. CASE name = "mem.vm"
  BY <1>2, MemVmKnows, HostOnly DEF Sees, SitesOf, Own, Registered, Wider
<1>3. CASE name = "mem.numa"
  BY <1>3, MemNumaKnows, HostOnly DEF Sees, SitesOf, Own, Registered, Wider
<1>4. CASE name = "mem.errors"
  BY <1>4, MemErrorsKnows, HostOnly DEF Sees, SitesOf, Own, Registered, Wider
<1>5. CASE name = "disk.tree"
  BY <1>5, DiskTreeKnows, HostOnly DEF Sees, SitesOf, Own, Registered, Wider
<1>6. CASE name = "fs.tmp"
  BY <1>6, FsTmpKnows, HostOnly DEF Sees, SitesOf, Own, Registered, Wider
<1>7. CASE name = "fs.fstab"
  BY <1>7, FsFstabKnows, HostOnly DEF Sees, SitesOf, Own, Registered, Wider
<1>8. CASE name = "dev.udev"
  BY <1>8, DevUdevKnows, HostOnly DEF Sees, SitesOf, Own, Registered, Wider
<1>9. CASE name = "disk.hardware"
  BY <1>9, DiskHardwareKnows, HostOnly DEF Sees, SitesOf, Own, Registered, Wider
<1>10. CASE name = "disk.io"
  BY <1>10, DiskIoKnows, HostOnly DEF Sees, SitesOf, Own, Registered, Wider
<1>11. CASE name = "fs.mounts"
  BY <1>11, FsMountKnows, HostOnly DEF Sees, SitesOf, Own, Registered, Wider
<1>12. CASE name = "cpu.summary"
  BY <1>12, CpuSummaryKnows, HostOnly DEF Sees, SitesOf, Own, Registered, Wider
<1>13. CASE name = "cpu.features"
  BY <1>13, CpuFeaturesKnows, HostOnly DEF Sees, SitesOf, Own, Registered, Wider
<1>14. CASE name = "cpu.topology"
  BY <1>14, CpuTopologyKnows, HostOnly DEF Sees, SitesOf, Own, Registered, Wider
<1>15. CASE name = "cpu.caches"
  BY <1>15, CpuCachesKnows, HostOnly DEF Sees, SitesOf, Own, Registered, Wider
<1>16. CASE name = "cpu.freq"
  BY <1>16, CpuFreqKnows, HostOnly DEF Sees, SitesOf, Own, Registered, Wider
<1>17. CASE name = "cpu.vulns"
  BY <1>17, CpuVulnsKnows, HostOnly DEF Sees, SitesOf, Own, Registered, Wider
<1>18. CASE name = "gpu.devices"
  BY <1>18, GpuCardsKnows, HostOnly DEF Sees, SitesOf, Own, Registered, Wider
<1>19. CASE name = "kernel.sysctl"
  BY <1>19, KernelSysctlKnows, HostOnly DEF Sees, SitesOf, Own, Registered, Wider
<1>20. CASE name = "kernel.modules"
  BY <1>20, KernelModulesKnows, HostOnly DEF Sees, SitesOf, Own, Registered, Wider
<1>21. CASE name = "kernel.overview"
  BY <1>21, KernelOverviewKnows, HostOnly DEF Sees, SitesOf, Own, Registered, Wider
<1>22. CASE name = "kernel.irq"
  BY <1>22, KernelIrqKnows, HostOnly DEF Sees, SitesOf, Own, Registered, Wider
<1>23. CASE name = "boot.info"
  BY <1>23, BootKnows, HostOnly DEF Sees, SitesOf, Own, Registered, Wider
<1>24. CASE name = "virt.detect"
  BY <1>24, VirtKnows, HostOnly DEF Sees, SitesOf, Own, Registered, Wider
<1>25. CASE name = "log.journal"
  BY <1>25, LogsKnows, HostOnly DEF Sees, SitesOf, Own, Registered, Wider
<1>26. CASE name = "net.interfaces"
  BY <1>26, NetInterfacesKnows, HostOnly DEF Sees, SitesOf, Own, Registered, Wider
<1>27. CASE name = "net.listening"
  BY <1>27, NetListeningKnows, HostOnly DEF Sees, SitesOf, Own, Registered, Wider
<1>28. CASE name = "net.dns"
  BY <1>28, NetDnsKnows, HostOnly DEF Sees, SitesOf, Own, Registered, Wider
<1>29. CASE name = "net.firewall"
  BY <1>29, NetFirewallKnows, HostOnly DEF Sees, SitesOf, Own, Registered, Wider
<1>30. CASE name = "net.layers"
  BY <1>30, NetLayersKnows, HostOnly DEF Sees, SitesOf, Own, Registered, Wider
<1>31. CASE name = "user.identity"
  BY <1>31, UserShows DEF Sees, SitesOf, Own, Registered, Wider
<1>32. CASE name = "shell.env"
  BY <1>32, ShellEnvShows DEF Sees, SitesOf, Own, Registered, Wider
<1>33. CASE name = "shell.startup"
  BY <1>33, StartupShows DEF Sees, SitesOf, Own, Registered, Wider
<1>34. CASE name = "bin.path"
  BY <1>34, BinPathShows DEF Sees, SitesOf, Own, Registered, Wider
<1>35. CASE name = "text.locale"
  BY <1>35, LocaleShows DEF Sees, SitesOf, Own, Registered, Wider
<1>36. CASE name = "time.clock"
  BY <1>36, TimeKnows, HostOnly DEF Sees, SitesOf, Own, Registered, Wider
<1>37. CASE name = "security.lsm"
  BY <1>37, LsmKnows, HostOnly DEF Sees, SitesOf, Own, Registered, Wider
<1>38. CASE name = "crypto.setup"
  BY <1>38, CryptoKnows, HostOnly DEF Sees, SitesOf, Own, Registered, Wider
<1>39. CASE name = "pkg.manager"
  BY <1>39, PkgManagerShows DEF Sees, SitesOf, Own, Registered, Wider
<1>40. CASE name = "git.config"
  BY <1>40, GitShows DEF Sees, SitesOf, Own, Registered, Wider
<1>41. CASE name = "ssh.setup"
  BY <1>41, SshSetupShows DEF Sees, SitesOf, Own, Registered, Wider
<1>42. CASE name = "proc.limits"
  BY <1>42, LimitsShows DEF Sees, SitesOf, Own, Registered, Wider
<1>43. CASE name = "ipc.summary"
  BY <1>43, IpcKnows, HostOnly DEF Sees, SitesOf, Own, Registered, Wider
<1>44. CASE name = "proc.cgroup"
  BY <1>44, CgroupShows DEF Sees, SitesOf, Own, Registered, Wider
<1>45. CASE name = "systemd.overrides"
  BY <1>45, OverridesKnows, HostOnly DEF Sees, SitesOf, Own, Registered, Wider
<1>. QED  BY <1>1, <1>2, <1>3, <1>4, <1>5, <1>6, <1>7, <1>8, <1>9, <1>10, <1>11,
            <1>12, <1>13, <1>14, <1>15, <1>16, <1>17, <1>18, <1>19, <1>20, <1>21,
            <1>22, <1>23, <1>24, <1>25, <1>26, <1>27, <1>28, <1>29, <1>30, <1>31,
            <1>32, <1>33, <1>34, <1>35, <1>36, <1>37, <1>38, <1>39, <1>40, <1>41,
            <1>42, <1>43, <1>44, <1>45 DEF RegisteredNames

LEMMA RunShows ==
  ASSUME NEW name \in RegisteredNames, NEW h, NEW g, NEW linux, Sees(name, h, g)
  PROVE  ShowsHost(name, RunProbe(name, h, linux), RunProbe(name, g, linux))
BY RegisteredShows DEF RunProbe, Unsupported, Result, ShowsHost

LEMMA OpenedSees ==
  ASSUME NEW name \in RegisteredNames, NEW h, IsMachine(name, h)
  PROVE  Sees(name, h, OpenedAll(h))
<1>1. ASSUME NEW site, IsSite(site)
      PROVE  Opens(site, Opened(site))
  BY <1>1, OpenedIsSite DEF Opens, CanRead, Exists, Denied
<1>2. Wider(h, OpenedAll(h), SitesOf(name) \ {"package"})
  BY <1>1, OpenedSites DEF Wider, IsMachine
<1>3. ASSUME "package" \in SitesOf(name), NEW c \in h.cpus.has
      PROVE  Opens(h.package[c], OpenedAll(h).package[c])
  BY <1>1, <1>3, OpenedSites DEF IsMachine
<1>4. ASSUME "link" \in SitesOf(name), CanRead(OpenedAll(h).link)
      PROVE  CanRead(h.link)
  BY <1>4, OpenedSites, OpenedIsSite DEF IsMachine, CanRead
<1>. QED  BY <1>2, <1>3, <1>4 DEF Sees, Wider

LEMMA AsRootSees ==
  ASSUME NEW name \in RegisteredNames, NEW h, IsMachine(name, h), NEW g \in AsRoot(name, h)
  PROVE  Sees(name, h, g)
<1>. DEFINE o == OpenedAll(h)
<1>1. \A s \in SitesOf(name) : s \notin Own(name).sites => g[s] = o[s]
  BY AsRootSites
<1>2. Sees(name, h, o)
  BY OpenedSees
<1>3. Wider(h, g, SitesOf(name) \ ({"package"} \cup Own(name).sites))
  BY <1>1, <1>2 DEF Sees, Wider
<1>4. \A s \in {"package", "link"} : s \in SitesOf(name) => g[s] = o[s]
  BY <1>1, OwnSites
<1>. QED  BY <1>2, <1>3, <1>4 DEF Sees

\* Before the user is root an answer is what the probe answers; then it is no
\* more than what it would answer now, of the host.
AnswerInv ==
  answer # NoAnswer =>
    LET now == RunProbe(probe.name, probe.sites, supported)
    IN  ShowsHost(probe.name, answer, now) /\ (~root => answer = now)

LEMMA AnswerInit == Init => ProbeInv /\ AnswerInv
BY InvInit DEF Init, Inv, AnswerInv

LEMMA AnswerNext == ProbeInv /\ AnswerInv /\ [Next]_vars => ProbeInv' /\ AnswerInv'
<1>. SUFFICES ASSUME ProbeInv, AnswerInv, [Next]_vars PROVE ProbeInv' /\ AnswerInv'
  OBVIOUS
<1>1. CASE Run
  <2>1. ProbeInv'
    BY <1>1 DEF Run, ProbeInv
  <2>2. answer' = RunProbe(probe.name, probe.sites, supported)'
    BY <1>1 DEF Run
  <2>. QED  BY <2>1, <2>2 DEF AnswerInv, ShowsHost
<1>2. CASE BecomeRoot
  <2>1. /\ ProbeInv' /\ probe'.name = probe.name
        /\ probe'.sites \in AsRoot(probe.name, probe.sites)
    BY <1>2, BecomeRootKeeps
  <2>2. /\ answer' = answer /\ supported' = supported /\ root'
        /\ answer = RunProbe(probe.name, probe.sites, supported)
    BY <1>2 DEF BecomeRoot, AnswerInv
  <2>3. ShowsHost(probe.name, RunProbe(probe.name, probe.sites, supported),
                  RunProbe(probe.name, probe'.sites, supported))
    BY <2>1, AsRootSees, RunShows DEF ProbeInv
  <2>. QED  BY <2>1, <2>2, <2>3 DEF AnswerInv
<1>3. CASE UNCHANGED vars
  BY <1>3 DEF vars, ProbeInv, AnswerInv
<1>. QED  BY <1>1, <1>2, <1>3 DEF Next

(* As root a probe loses nothing of the host that it has shown before: the *)
(* 35 that read nothing else have an answer if they had one and know each  *)
(* field that they knew, and the ten that also look at the user's own      *)
(* files keep, if they answer, what does not rest on these, whatever root  *)
(* has in their place (the registry of mod.rs:429-675).                    *)
THEOREM RootIsShownMore == Spec => RootKnowsMore
<1>. DEFINE Shown == answer # NoAnswer => ShowsHost(probe.name, answer, answer')
<1>1. ProbeInv /\ AnswerInv /\ [Next]_vars => [Shown]_answer
  <2>. SUFFICES ASSUME AnswerInv, [Next]_vars, answer' # answer, answer # NoAnswer
                PROVE  Shown
    OBVIOUS
  <2>1. answer' = RunProbe(probe.name, probe.sites, supported)
    BY DEF Next, Run, BecomeRoot, vars
  <2>. QED  BY <2>1 DEF AnswerInv
<1>. QED  BY <1>1, AnswerInit, AnswerNext, PTL DEF Spec, RootKnowsMore
=============================================================================
