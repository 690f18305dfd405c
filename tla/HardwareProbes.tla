--------------------------- MODULE HardwareProbes ---------------------------
(***************************************************************************)
(* The probes of the hardware: mem.rs, disk.rs, fsmount.rs, cpu.rs and     *)
(* gpu.rs of src/probes.  A probe is an operator from the sites it reads   *)
(* to its answer.  Loops over devices, nodes, CPUs or mounts are modelled  *)
(* for one of them, except where the members are compared with each other. *)
(***************************************************************************)
EXTENDS ProbeResults

-----------------------------------------------------------------------------
(* mem.rs *)

MemSummary(h) ==
  Needs("meminfo", h.meminfo,
    IF {"MemTotal", "MemFree"} \subseteq h.meminfo.has
    THEN Noted({"total"} \cup When(Has(h.meminfo, "MemAvailable"), {"available"})
                         \cup When(Has(h.swappiness, "number"), {"swappiness"}),
               When(~Has(h.meminfo, "MemAvailable"), {"MemAvailable"})
                 \cup When(~Has(h.swappiness, "number"), {"swappiness"}))
    ELSE Nothing("no_MemTotal_or_MemFree"))

MemVm(h) ==
  Needs("vmstat", h.vmstat,
    Always(When({"pgfault", "pgmajfault"} \subseteq h.vmstat.has, {"minor_faults"})
             \cup When(Has(h.vmstat, "pgmajfault"), {"major_faults"})
             \cup When(Has(h.smaps, "KernelPageSize"), {"page_size"})
             \cup When(Has(h.thp, "[mode]"), {"thp"})))

\* One node.  What a node does not tell is left empty.
MemNuma(h) ==
  Always(When(Has(h.nodes, "node"),
              {"node"} \cup When(Has(h.meminfo, "MemTotal"), {"total"})
                       \cup When(Has(h.numastat, "numa_hit"), {"hit"})
                       \cup When(CanRead(h.cpulist), {"cpus"}))
           \cup When(CanRead(h.balancing), {"balancing"}))

\* One memory controller.  A count of errors that cannot be read is shown
\* as 0.
MemErrors(h) ==
  Always(When(Has(h.controllers, "mc"),
              {"controller"} \cup When(Has(h.ce_count, "number"), {"corrected"})
                             \cup When(Has(h.dimms, "dimm") /\ CanRead(h.mem_type)
                                         /\ ~Has(h.mem_type, "Unknown"), {"mem_type"}))
           \cup When(Has(h.meminfo, "HardwareCorrupted"), {"hardware_corrupted"}))

-----------------------------------------------------------------------------
(* disk.rs and fsmount.rs *)

\* sectors(): 0 for a size that cannot be read.
SizeOf(site) == Has(site, "nonzero")

\* mounts_of(): by device number, or by a source path.
MountsOf(dev, mountinfo) ==
  \/ CanRead(dev) /\ Has(mountinfo, "its_number")
  \/ Has(mountinfo, "its_path")

\* One block device, "loop" if its name says so, with one partition.
DiskTree(h) ==
  Needs("block", h.block,
    LET shown == /\ h.block.has # {}
                 /\ SizeOf(h.size)
                 /\ "loop" \notin h.block.has
    IN  Noted(When(shown,
                {"device"} \cup When(Has(h.swaps, "disk"), {"swap"})
                  \cup When(MountsOf(h.dev, h.mountinfo), {"mounts"})
                  \cup When(Has(h.children, "child") /\ Has(h.partition, "number"),
                            {"partition"})),
              When(~CanRead(h.mountinfo), {"mountinfo"})))

\* contains(): a mount holds a path below it, and the deepest one wins.
FsTmp(h) ==
  Needs("mountinfo", h.mountinfo,
    Always(When(h.mountinfo.has # {},
                {"dir"} \cup When(CanRead(h.space), {"space"}))))

\* One entry, of swap or of a file system.
FsFstab(h) ==
  Needs("fstab", h.fstab,
    Always(When(h.fstab.has # {},
                {"entry"} \cup When("swap" \notin h.fstab.has /\ CanRead(h.mountinfo),
                                    {"mounted"}))))

\* Packaged rules come from the first folder that can be read.
DevUdev(h) ==
  LET packaged == {h.usr_lib, h.lib}
  IN  IF ~CanRead(h.etc) /\ \A d \in packaged : ~CanRead(d)
      THEN Nothing("no_udev_rules_folder")
      ELSE Always(When(CanRead(h.etc), {"local"})
                    \cup When(\E d \in packaged : CanRead(d), {"packaged"}))

\* physical_disks(): no layers, nothing empty.
PhysicalDisk(block, size) == Has(block, "disk") /\ SizeOf(size)

\* The size is read twice: to tell whether there is a disk, and to show it.
DiskHardware(h) ==
  Needs("block", h.block,
    Always(When(PhysicalDisk(h.block, h.size),
                {"disk"} \cup When(Has(h.model, "name"), {"model"})
                  \cup When(SizeOf(h.size_again), {"size"})
                  \cup When(Has(h.scheduler, "[active]"), {"scheduler"}))))

DiskIo(h) ==
  Needs("diskstats", h.diskstats,
    Always(When(PhysicalDisk(h.block, h.size) /\ Has(h.diskstats, "disk"), {"disk"})
             \cup When(Has(h.meminfo, "Dirty"), {"dirty"})
             \cup When(Has(h.uptime, "number"), {"uptime"})
             \cup When(Has(h.expire, "number"), {"dirty_expire"})))

\* One mount: six fields before " - ", two after, a type that holds data.
FsMount(h) ==
  Needs("mountinfo", h.mountinfo,
    Always(When({"6_before", "2_after", "data"} \subseteq h.mountinfo.has, {"mount"})))

-----------------------------------------------------------------------------
(* cpu.rs *)

CpuSummary(h) ==
  Needs("cpuinfo", h.cpuinfo,
    Noted(When(Has(h.cpuinfo, "processor") \/ Has(h.online, "range"), {"logical"})
            \cup When(Has(h.cpuinfo, "model"), {"model"})
            \cup When(Has(h.loadavg, "load"), {"load"})
            \cup When(Has(h.loadavg, "running"), {"running"})
            \cup When(CanRead(h.governor), {"governor"}),
          When(~Has(h.loadavg, "load"), {"loadavg"})))

\* "level" needs an x86-64 and flags; without the file of the kernel the
\* architecture is told by the fields that only some of them have.
CpuFeatures(h) ==
  Needs("cpuinfo", h.cpuinfo,
    LET flags == "flags" \in h.cpuinfo.has
        arch  == Has(h.arch, "x86_64") \/ "vendor_id" \in h.cpuinfo.has
    IN  Noted(When(arch, {"arch"})
                \cup When("vendor_id" \in h.cpuinfo.has, {"vendor"})
                \cup When(flags, {"flags"})
                \cup When(flags /\ arch, {"level"}),
              When(~flags, {"flags"})))

\* cpu_dirs(): no CPU at all if the folder cannot be read.
CpuDirs(list) == IF CanRead(list) THEN list.has ELSE {}

\* The CPUs that the topology counts.  An offline one has none.
Counted(h) == {c \in CpuDirs(h.cpus) : CanRead(h.package[c])}

CpuTopologyUnexplained(h) ==
  IF CpuDirs(h.cpus) = {} THEN Failed("cpus", "Missing")
  ELSE IF Counted(h) = {} THEN Result("Partial", TRUE, {}, {})
  ELSE Always({"logical", "cores", "packages"})

CpuTopology(h) ==
  IF CpuDirs(h.cpus) = {} THEN Failed("cpus", "Missing")
  ELSE IF Counted(h) = {}
  THEN Noted({}, {"topology"})
  ELSE Always({"logical", "cores", "packages"})

\* One index of one CPU.
CpuCaches(h) ==
  IF /\ CpuDirs(h.cpus) # {}
     /\ Has(h.cache, "index")
     /\ Has(h.level, "number") /\ CanRead(h.type) /\ Has(h.size, "number")
  THEN Always({"cache"} \cup When(CanRead(h.shared), {"shared_by"}))
  ELSE Nothing("cpu*/cache:_not_there")

\* celsius(): 0 and less and 150 degrees and more are no temperature.
Celsius(site) == Has(site, "plausible")

\* cpu_sensors(): one sensor, of a driver of CPUs; the input that is the
\* CPU's by its label, or the only one.
CpuSensor(h) == Has(h.hwmon, "sensor") /\ Has(h.driver, "cpu") /\ Celsius(h.input)

\* One CPU, one idle state, one thermal zone.
CpuFreq(h) ==
  LET cpu      == CpuDirs(h.cpus) # {}
      driver   == cpu /\ CanRead(h.scaling_driver)
      current  == cpu /\ Has(h.cur_freq, "number")
      idle     == CanRead(h.idle_driver) /\ ~Has(h.idle_driver, "none")
      zone     == Has(h.zones, "zone") /\ Celsius(h.temp)
      cpu_temp == CpuSensor(h) \/ (zone /\ Has(h.zone_type, "cpu"))
      hottest  == ~cpu_temp /\ zone
  IN  IF ~(driver \/ current \/ idle \/ cpu_temp \/ hottest)
      THEN Nothing("no_cpufreq,_cpuidle_or_thermal_data")
      ELSE Always(When(driver, {"driver"}) \cup When(current, {"current_khz"})
                    \cup When(idle, {"idle_driver"})
                    \cup When(CanRead(h.boost), {"boost"})
                    \cup When(cpu_temp \/ hottest, {"temperature"}))

\* A vulnerability that cannot be read is left out.
CpuVulns(h) ==
  Needs("vulnerabilities", h.names,
    Always(When(Has(h.names, "name") /\ CanRead(h.state), {"state"})
             \cup When(CanRead(h.cmdline), {"mitigations_off"})))

-----------------------------------------------------------------------------
(* gpu.rs *)

\* One card with one connector.
GpuCards(h) ==
  Needs("drm", h.drm,
    Always(When(Has(h.drm, "card"),
                {"card"} \cup When(CanRead(h.vendor), {"vendor"})
                  \cup When(CanRead(h.driver) \/ Has(h.uevent, "DRIVER"), {"driver"})
                  \cup When(Has(h.drm, "connector") /\ CanRead(h.connector), {"connector"}))
             \cup When(Has(h.nvidia, "version"), {"nvidia"})))
=============================================================================
