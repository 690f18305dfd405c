--------------------------- MODULE SettingsProbes ---------------------------
(***************************************************************************)
(* The probes of the user and of the settings: user.rs, shell.rs, text.rs, *)
(* time.rs, security.rs, crypto.rs, pkg.rs, git.rs and ssh.rs of           *)
(* src/probes, and those of conc.rs, proc.rs and systemd.rs that read the  *)
(* machine once.  They are operators from the sites they read to their     *)
(* answers.  Those that meet a machine that changes while they read it are *)
(* in Processes, the settings of the SSH server in Sshd.                   *)
(***************************************************************************)
EXTENDS ProbeResults

-----------------------------------------------------------------------------
(* shell.rs *)

\* account(): the login shell and the home folder are known together.
Account(h) == Has(h.status, "Uid") /\ Has(h.passwd, "own_entry")

ShellEnv(h) ==
  Needs("environ", h.environ,
    Always({"total"} \cup When("SHELL" \in h.environ.has, {"vars"})
             \cup When(Account(h), {"login_shell"})))

\* Files in the home folder are named by it.  Of its login files bash reads
\* the first that is there and ignores the others.
BashLogin(h) == {f \in {"bash_profile", "bash_login", "profile"} : Exists(h[f])}

Startup(h) ==
  IF ~Account(h)
  THEN Nothing("home_folder_unknown")
  ELSE Always({"login_shell"}
                \cup When(BashLogin(h) # {}, {"bash_login_file"})
                \cup When(\E f, g \in BashLogin(h) : f # g, {"ignored_by_bash"})
                \cup When(Has(h.profile_d, "file"), {"profile_d"}))

\* An empty folder in PATH is the current one, and so is a PATH that is not
\* set.
BinPath(h) ==
  Needs("environ", h.environ,
    Always({"entries"} \cup When("LD_PRELOAD" \in h.environ.has, {"ld_preload"})
             \cup When(Exists(h.loader), {"loaders"})))

-----------------------------------------------------------------------------
(* user.rs and text.rs *)

User(h) ==
  Needs("status", h.status,
    IF {"Uid", "Gid"} \subseteq h.status.has
    THEN Noted({"uid", "gid", "groups"}
                 \cup When(Has(h.passwd, "own_entry"), {"user"})
                 \cup When("Umask" \in h.status.has, {"umask"})
                 \cup When(Has(h.group, "sudo"), {"admin_group"}),
               When("Umask" \notin h.status.has, {"Umask"}))
    ELSE Nothing("no_Uid_or_Gid_line"))

\* An empty variable counts as one that is not set.
Locale(h) ==
  Needs("environ", h.environ,
    Always({"ctype"} \cup When("LANG" \in h.environ.has, {"vars"})
             \cup When(Has(h.locale_conf, "LANG") \/ Has(h.default_locale, "LANG"),
                       {"system"})
             \cup When(Has(h.locales, "locale-archive"), {"archive"})
             \cup When(Has(h.locales, "a_locale"), {"installed"})))

-----------------------------------------------------------------------------
(* time.rs, security.rs and crypto.rs *)

\* Whether the clock is synchronized is asked of timesyncd alone.
Time(h) ==
  LET zone == CanRead(h.localtime) /\ "zoneinfo" \in h.localtime.has
      kept == Has(h.timezone, "text")
      boot == Has(h.stat, "btime")
      timesyncd == Has(h.proc, "process") /\ Has(h.comm, "systemd-timesyncd")
  IN  IF ~(zone \/ kept \/ CanRead(h.clocksource) \/ boot)
      THEN Nothing("no_time_zone,_clock_source_or_boot_time")
      ELSE Always(When(zone \/ kept, {"zone"})
                    \cup When(CanRead(h.clocksource), {"clocksource"})
                    \cup When(boot, {"boot"})
                    \cup When(Has(h.adjtime, "line_3"), {"rtc_local"})
                    \cup When(timesyncd, {"daemon", "synced"}))

\* A list that cannot be read is an empty one; AppArmor also tells of itself.
Lsm(h) ==
  LET apparmor == Has(h.enabled, "Y") \/ Has(h.lsm, "apparmor")
      modules  == CanRead(h.lsm) /\ h.lsm.has # {}
      notes    == When(apparmor /\ ~CanRead(h.profiles), {"profiles"})
  IN  IF ~modules /\ ~CanRead(h.enforce) /\ ~apparmor
      THEN Nothing("lsm")
      ELSE Result("Ok", TRUE,
             When(modules, {"modules"}) \cup When(CanRead(h.enforce), {"selinux_enforcing"})
               \cup When(Has(h.config, "SELINUX"), {"selinux_config"})
               \cup When(apparmor, {"apparmor"})
               \cup When(apparmor /\ Has(h.profiles, "profile"), {"apparmor_profiles"}),
             notes)

\* The bundle of certificates is the first that exists, readable or not.
Crypto(h) ==
  LET crypto == CanRead(h.crypto) /\ h.crypto.has # {}
  IN  IF ~Exists(h.bundle) /\ ~crypto
      THEN Nothing("no_CA_bundle_and_no_crypto")
      ELSE Always(When(Exists(h.bundle), {"ca_bundle"})
                    \cup When(CanRead(h.bundle), {"ca_count"})
                    \cup When(Has(h.crypto, "aes"), {"aes"})
                    \cup When(Has(h.rng, "name"), {"hw_rng"})
                    \cup When(CanRead(h.tpm), {"tpm"})
                    \cup When(Has(h.policy, "name"), {"policy"}))

-----------------------------------------------------------------------------
(* pkg.rs and git.rs *)

\* A database that is there but cannot be read is not in use, but for that of
\* rpm, which is not looked into.
PkgManager(h) ==
  LET native   == CanRead(h.dpkg) \/ Exists(h.rpm) \/ CanRead(h.pacman)
      flatpaks == CanRead(h.flatpak) \/ (Account(h) /\ CanRead(h.own_flatpak))
  IN  IF ~(native \/ CanRead(h.snaps) \/ flatpaks)
      THEN Nothing("no_known_package_database")
      ELSE Always(When(CanRead(h.dpkg), {"dpkg"}) \cup When(Exists(h.rpm), {"rpm"})
                    \cup When(CanRead(h.pacman), {"pacman"})
                    \cup When(CanRead(h.snaps), {"snaps"})
                    \cup When(flatpaks, {"flatpaks"}))

\* The files that git reads: without a home only the system's.
\* A setting is known once a file speaks of it, if only to clear it.
GitFiles(h) ==
  {h.gitconfig} \cup IF Account(h) THEN {h.own_config, h.own_gitconfig} ELSE {}

Git(h) ==
  LET read == {f \in GitFiles(h) : CanRead(f)}
  IN  Noted(When(read # {}, {"files"})
              \cup When(\E f \in read : "user.name" \in f.has, {"name_set"})
              \cup When(\E f \in read : "alias" \in f.has, {"aliases"}),
            When(~Account(h), {"home"}))

-----------------------------------------------------------------------------
(* ssh.rs *)

\* One key, of which both files are there.
SshSetup(h) ==
  IF ~Account(h)
  THEN Nothing("home_folder_unknown")
  ELSE Always(When(Exists(h.ssh_dir), {"dir"})
                \cup When(CanRead(h.ssh_dir) /\ {"key", "key.pub"} \subseteq h.ssh_dir.has,
                          {"key"} \cup When(Has(h.key_pub, "kind"), {"kind"}))
                \cup When(Has(h.ssh_config, "host"), {"config_hosts"})
                \cup When(CanRead(h.known_hosts), {"known_hosts"})
                \cup When(CanRead(h.authorized_keys), {"authorized_keys"})
                \cup When(Has(h.environ, "SSH_AUTH_SOCK"), {"agent"})
                \cup When(Exists(h.sshd_config), {"server"}))

-----------------------------------------------------------------------------
(* conc.rs, proc.rs and systemd.rs: what is read once *)

\* The open files are those allocated less the free ones.
Limits(h) ==
  Needs("limits", h.limits,
    Always(When("open_files" \in h.limits.has, {"open_files"})
             \cup When("processes" \in h.limits.has, {"processes"})
             \cup When(Has(h.file_nr, "numbers"), {"files_open", "files_max"})
             \cup When(Has(h.nr_open, "number"), {"nr_open"})))

Ipc(h) ==
  Needs("unix", h.unix,
    Always({"unix_sockets"}
             \cup When("listening_path" \in h.unix.has, {"listening_paths"})
             \cup When(CanRead(h.shm_space), {"shm_used"})
             \cup When(CanRead(h.shm), {"sysv_segments"})))

\* The memory that a group may use is the least of what it, the group above
\* it and the root may: memory.max on the way up, with no number in one that
\* says "max".
MemoryLimits(h) == {s \in {h.own, h.parent, h.top} : Has(s, "number")}

Cgroup(h) ==
  Needs("cgroup", h.cgroup,
    Always({"path"} \cup When(CanRead(h.controllers), {"version_2"})
             \cup When(CanRead(h.controllers) /\ MemoryLimits(h) # {},
                       {"memory_limit"})))

\* What a unit in /etc/systemd/system is.  One that links elsewhere was
\* enabled, not changed.
OverrideKind(h) ==
  CASE Has(h.link, "/dev/null")                  -> "masked"
    [] CanRead(h.link) /\ "/dev/null" \notin h.link.has -> "enabled"
    [] ~CanRead(h.link) /\ Exists(h.vendor)      -> "replaced"
    [] OTHER                                     -> "local"

\* One drop-in folder and one unit.
Overrides(h) ==
  Needs("system", h.system,
    Always(When("unit.d" \in h.system.has /\ Has(h.dropin, ".conf"), {"dropins"})
             \cup When("unit" \in h.system.has /\ OverrideKind(h) # "enabled", {"unit"})))
=============================================================================
