---------------------------- MODULE SystemTables ----------------------------
(***************************************************************************)
(* The tables system_info makes of what it reads under /proc and /sys, and *)
(* the environment popen_wrapper builds: loops that filter, merge, join    *)
(* and sort.  Each is a function of lines already split into fields; it    *)
(* is compared with a definition of its result on every sample of inputs.  *)
(***************************************************************************)
EXTENDS Integers, Sequences, FiniteSets

LOCAL INSTANCE SequencesExt

CONSTANTS
  IgnoredFs,   \* ignored_fs_types
  TopLimit     \* top_process_limit

VARIABLE sample   \* the inputs of one of the functions below

Seqs(S, n) == UNION {[1..k -> S] : k \in 0..n}
Distinct(s) == \A i, j \in DOMAIN s : s[i] = s[j] => i = j

----------------------------------------------------------------------------
(* CPU usage. *)

\* guest time is counted in user as well: the code adds it once more.
Total(c) == c.busy + c.idle + c.iowait + c.guest
Busy(c) == c.busy

UsagePercent(cur, prev) ==
  LET total == Total(cur) - Total(prev)
      busy == Busy(cur) - Busy(prev)
  IN  IF total <= 0 \/ busy < 0 THEN 0 ELSE (100 * busy) \div total

\* /proc/meminfo: the last line of a key wins, and a value that cannot be
\* parsed is 0.
FetchMemoryInfo(lines) ==
  FoldLeft(LAMBDA m, l : IF l.key \in DOMAIN m
                         THEN [m EXCEPT ![l.key] = 1024 * l.kb] ELSE m,
           [MemTotal |-> 0, MemAvailable |-> 0], lines)

\* Used and SwapUsed.
Used(total, free) == IF total > free THEN total - free ELSE 0

\* The percentages of memory, swap, space and inodes.
UsedPercent(total, used) == IF total = 0 THEN 0 ELSE (100 * used) \div total

CpuTimes == [busy: 0..2, idle: 0..1, iowait: 0..1, guest: 0..1]
CpuSamples ==
  {[kind |-> "cpu", cur |-> c, prev |-> p] : c, p \in CpuTimes}
MemorySamples ==
  {[kind |-> "meminfo", lines |-> l] :
     l \in Seqs([key: {"MemTotal", "MemAvailable", "Buffers"}, kb: 0..2], 3)}

\* A snapshot delayed by another thread may be compared with a newer one;
\* either way round the usage is a percentage (UsagePercent's guards).  So is
\* the memory in use, whichever lines /proc/meminfo has.
UsageInRange ==
  /\ sample.kind = "cpu" =>
       LET c == sample.cur
           p == sample.prev
       IN  (\/ \A f \in DOMAIN c : c[f] >= p[f]
            \/ \A f \in DOMAIN c : c[f] <= p[f]) =>
             UsagePercent(c, p) \in 0..100
  /\ sample.kind = "meminfo" =>
       LET m == FetchMemoryInfo(sample.lines)
       IN  UsedPercent(m.MemTotal, Used(m.MemTotal, m.MemAvailable)) \in 0..100

----------------------------------------------------------------------------
(* CPU topology. *)

CorePair(phys, core) == <<phys, core>>

\* /proc/cpuinfo: the sockets are the physical ids; a core id belongs to the
\* physical id last read.  Without ids every logical core is a core.
CpuTopology(lines, online) ==
  LET phys == {l.val : l \in {k \in ToSet(lines) : k.key = "physical id"}}
      Add(acc, l) ==
        IF l.key = "physical id" THEN [acc EXCEPT !.phys = l.val]
        ELSE [acc EXCEPT !.cores = @ \cup {CorePair(acc.phys, l.val)}]
      cores == FoldLeft(Add, [phys |-> 0, cores |-> {}], lines).cores
      physical == IF cores = {} THEN online ELSE Cardinality(cores)
  IN  [sockets |-> IF phys = {} THEN 1 ELSE Cardinality(phys),
       physical |-> physical,
       hyper |-> online > physical]

CpuLines(cpus) ==
  FoldLeft(LAMBDA acc, c : acc \o <<[key |-> "physical id", val |-> c.phys],
                                    [key |-> "core id", val |-> c.core]>>,
           <<>>, cpus)
TopologySamples ==
  {[kind |-> "cpuinfo", cpus |-> c, ids |-> b] :
     c \in Seqs([phys: 0..1, core: 0..1], 4) \ {<<>>}, b \in BOOLEAN}

\* The logical processors of one core are counted as one core, cores with
\* the same id on two sockets as two, and hyper-threading is reported
\* exactly when two processors share a core.
TopologyExact ==
  sample.kind = "cpuinfo" =>
    LET cpus == sample.cpus
        t == CpuTopology(IF sample.ids THEN CpuLines(cpus) ELSE <<>>, Len(cpus))
    IN  IF sample.ids
        THEN /\ t.physical = Cardinality(ToSet(cpus))
             /\ t.sockets = Cardinality({c.phys : c \in ToSet(cpus)})
             /\ t.hyper = ~Distinct(cpus)
        ELSE t = [sockets |-> 1, physical |-> Len(cpus), hyper |-> FALSE]

----------------------------------------------------------------------------
(* Mounted file systems. *)

MountSeen(seen, line, skipped) ==
  IF skipped THEN seen ELSE seen \cup {line.mount}

\* One line of /proc/mounts: ignored types first, then mount points already
\* seen, then statvfs, which may fail.
FetchDiskInfo(lines, pseudo, unreachable) ==
  LET Add(acc, line) ==
        LET skipped == ~pseudo /\ line.fs \in IgnoredFs
            again == line.mount \in acc.seen
            failed == line.mount \in unreachable
        IN  [seen |-> MountSeen(acc.seen, line, skipped),
             parts |-> IF skipped \/ again \/ failed THEN acc.parts
                       ELSE Append(acc.parts, line)]
  IN  FoldLeft(Add, [seen |-> {}, parts |-> <<>>], lines).parts

MountLines == [mount: {"/", "/tmp"}, fs: {"ext4", "tmpfs"}]
MountSamples ==
  {[kind |-> "mounts", lines |-> l, pseudo |-> b, unreachable |-> u] :
     l \in Seqs(MountLines, 3), b \in BOOLEAN, u \in SUBSET {"/tmp"}}

\* Every reachable mount point that has a line of a wanted type is listed
\* exactly once, with the first such line.
PartitionsExact ==
  sample.kind = "mounts" =>
    LET wanted == SelectSeq(sample.lines,
                    LAMBDA l : (sample.pseudo \/ l.fs \notin IgnoredFs)
                               /\ l.mount \notin sample.unreachable)
        parts == FetchDiskInfo(sample.lines, sample.pseudo, sample.unreachable)
    IN  /\ {parts[i].mount : i \in DOMAIN parts}
             = {wanted[i].mount : i \in DOMAIN wanted}
        /\ Distinct([i \in DOMAIN parts |-> parts[i].mount])
        /\ \A i \in DOMAIN parts :
             parts[i] = SelectSeq(wanted, LAMBDA l : l.mount = parts[i].mount)[1]

----------------------------------------------------------------------------
(* Network interfaces. *)

NamedAt(ifaces, name) == {i \in DOMAIN ifaces : ifaces[i].name = name}

\* Mutant: a name first seen here is not entered in the index.
FindOrAdd_NotIndexed(ifaces, known, name) ==
  IF name \in known THEN ifaces
  ELSE Append(ifaces, [name |-> name, counted |-> FALSE, ips |-> <<>>])

\* The interface of that name, appended when there is none yet.
FindOrAdd(ifaces, known, name) ==
  IF NamedAt(ifaces, name) # {} THEN ifaces
  ELSE Append(ifaces, [name |-> name, counted |-> FALSE, ips |-> <<>>])

Update(ifaces, name, f(_)) ==
  [i \in DOMAIN ifaces |->
     IF i \in NamedAt(ifaces, name) THEN f(ifaces[i]) ELSE ifaces[i]]

Names(ifaces) == {ifaces[i].name : i \in DOMAIN ifaces}

ParseProcNetDev(names) ==
  FoldLeft(LAMBDA acc, n :
             Update(FindOrAdd(acc, {}, n), n,
                    LAMBDA ni : [ni EXCEPT !.counted = TRUE]),
           <<>>, names)

PopulateIfAddrs(ifaces, addrs) ==
  FoldLeft(LAMBDA acc, a :
             Update(FindOrAdd(acc, Names(ifaces), a.name), a.name,
                    LAMBDA ni : IF Contains(ni.ips, a.ip) THEN ni
                                ELSE [ni EXCEPT !.ips = Append(@, a.ip)]),
           ifaces, addrs)

FetchNetworkInfo(names, addrs) == PopulateIfAddrs(ParseProcNetDev(names), addrs)

\* The first address of the first interface of that name that has one, for
\* the interface of the first default route; 0 stands for none.
GetPrimaryIpv4(routes, ifaces) ==
  LET defaults == SelectSeq(routes, LAMBDA r : r.default)
      usable == SelectSeq(ifaces,
                  LAMBDA ni : ni.name = defaults[1].name /\ ni.ips # <<>>)
  IN  IF defaults = <<>> \/ usable = <<>> THEN 0 ELSE usable[1].ips[1]

Interfaces == {"eth", "tun"}
NetSamples ==
  {[kind |-> "net", dev |-> d, addrs |-> a, routes |-> r] :
     d \in {s \in Seqs(Interfaces, 2) : Distinct(s)},
     a \in Seqs([name: Interfaces, ip: {1, 2}], 2),
     r \in Seqs([name: Interfaces, default: BOOLEAN], 2)}

\* Both sources speak of the same interfaces: one entry per name, with
\* counters if /proc/net/dev has it and exactly its addresses, none twice;
\* and the primary address is one the default route's interface has.
InterfacesMerged ==
  sample.kind = "net" =>
    LET ifaces == FetchNetworkInfo(sample.dev, sample.addrs)
        first == SelectSeq(sample.routes, LAMBDA r : r.default)
        ip == GetPrimaryIpv4(sample.routes, ifaces)
    IN  /\ Distinct([i \in DOMAIN ifaces |-> ifaces[i].name])
        /\ Names(ifaces) = ToSet(sample.dev)
                           \cup {a.name : a \in ToSet(sample.addrs)}
        /\ \A ni \in ToSet(ifaces) :
             /\ ni.counted = Contains(sample.dev, ni.name)
             /\ Distinct(ni.ips)
             /\ ToSet(ni.ips) =
                  {a.ip : a \in {b \in ToSet(sample.addrs) : b.name = ni.name}}
        /\ ip # 0 => [name |-> first[1].name, ip |-> ip] \in ToSet(sample.addrs)

----------------------------------------------------------------------------
(* Processes. *)

\* readdir lists the pids; a process that has ended since is left out.
FetchAllProcesses(listed, gone) ==
  SelectSeq(listed, LAMBDA p : p.pid \notin gone)

\* std::sort is not stable: any descending order may come out.
SortedByMemory(procs) ==
  {p \in {[i \in DOMAIN procs |-> procs[f[i]]] :
            f \in {g \in [DOMAIN procs -> DOMAIN procs] : Distinct(g)}} :
     \A i \in 1..Len(p) - 1 : p[i].rss >= p[i + 1].rss}

Limit(n) == IF n = 0 THEN TopLimit ELSE n
Resize(s, n) == SubSeq(s, 1, IF Len(s) > n THEN n ELSE Len(s))

GetTopProcessesByMemory(procs, n) ==
  {Resize(p, Limit(n)) : p \in SortedByMemory(procs)}

ProcessLists ==
  {[i \in DOMAIN s |-> [pid |-> i, rss |-> s[i]]] : s \in Seqs(0..2, 3)}
ProcessSamples ==
  {[kind |-> "top", procs |-> p, gone |-> g, n |-> n] :
     p \in ProcessLists, g \in SUBSET {1}, n \in 0..2}

\* The top N are processes of the list, as many as asked for and there are,
\* and no process left out uses more memory than one that is shown.
TopAreLargest ==
  sample.kind = "top" =>
    LET procs == FetchAllProcesses(sample.procs, sample.gone)
    IN  \A top \in GetTopProcessesByMemory(procs, sample.n) :
          /\ Distinct(top) /\ ToSet(top) \subseteq ToSet(procs)
          /\ Len(top) = IF Limit(sample.n) < Len(procs)
                        THEN Limit(sample.n) ELSE Len(procs)
          /\ \A p \in ToSet(procs) \ ToSet(top), q \in ToSet(top) :
               p.rss <= q.rss

----------------------------------------------------------------------------
(* Listening ports. *)

NoPid == 0

\* inode_to_pid: a socket shared by several processes goes to the last one.
InodeToPid(links) ==
  FoldLeft(LAMBDA map, l : [map EXCEPT ![l.inode] = l.pid],
           [i \in {1, 2} |-> NoPid], links)

Listening(s) == s.listen

GetListeningPorts(links, sockets) ==
  LET found == SelectSeq(sockets, Listening)
      owned == [i \in DOMAIN found |->
                  [port |-> found[i].port,
                   pid |-> InodeToPid(links)[found[i].inode]]]
  IN  SortSeq(owned, LAMBDA a, b : a.port < b.port)

PortSamples ==
  {[kind |-> "ports", links |-> l, sockets |-> s] :
     l \in Seqs([pid: {7, 8}, inode: {1, 2}], 2),
     s \in Seqs([port: {1, 2}, inode: {1, 2}, listen: BOOLEAN], 2)}

\* Every listening socket is reported once, with a process that holds it or
\* with none if nobody does, by ascending port.
PortsAttributed ==
  sample.kind = "ports" =>
    LET ports == GetListeningPorts(sample.links, sample.sockets)
        open == SelectSeq(sample.sockets, LAMBDA s : s.listen)
        holders(i) == {l.pid : l \in {k \in ToSet(sample.links) : k.inode = i}}
    IN  /\ Len(ports) = Len(open)
        /\ \A i \in 1..Len(ports) - 1 : ports[i].port <= ports[i + 1].port
        /\ \A p \in ToSet(ports) :
             \E s \in ToSet(open) :
               /\ s.port = p.port
               /\ IF holders(s.inode) = {} THEN p.pid = NoPid
                  ELSE p.pid \in holders(s.inode)

----------------------------------------------------------------------------
(* The child's environment (popen_wrapper.cc). Names are sequences.        *)

SameKey(entry, kv) == entry.name = kv.name

BuildEnvp(inherited, extra, replace) ==
  LET Add(env, kv) ==
        LET at == {i \in DOMAIN env : SameKey(env[i], kv)}
        IN  IF at = {} THEN Append(env, kv)
            ELSE [env EXCEPT ![CHOOSE i \in at : \A j \in at : i <= j] = kv]
  IN  FoldLeft(Add, IF replace THEN <<>> ELSE inherited, extra)

EnvNames == {<<1>>, <<1, 2>>}
EnvSamples ==
  {[kind |-> "env", inherited |-> e, extra |-> x, replace |-> r] :
     e \in {s \in Seqs([name: EnvNames, value: {0}], 2) : Distinct(s)},
     x \in Seqs([name: EnvNames, value: {1, 2}], 2),
     r \in BOOLEAN}

\* The child finds, for each name, the last value given in extra_env, else
\* the inherited one unless the environment is replaced; no name is lost
\* and none appears twice.
EnvOverrides ==
  sample.kind = "env" =>
    LET env == BuildEnvp(sample.inherited, sample.extra, sample.replace)
        given == sample.extra
        base == IF sample.replace THEN <<>> ELSE sample.inherited
        named(s, n) == SelectSeq(s, LAMBDA kv : kv.name = n)
        last(s) == s[Len(s)]
    IN  \A n \in EnvNames :
          named(env, n) =
            IF named(given, n) # <<>> THEN <<last(named(given, n))>>
            ELSE named(base, n)

----------------------------------------------------------------------------

Samples == CpuSamples \cup MemorySamples \cup TopologySamples \cup MountSamples
           \cup NetSamples \cup ProcessSamples
           \cup PortSamples \cup EnvSamples

\* What the functions of system_info.cc and BuildEnvp of popen_wrapper.cc
\* return, whatever they read: a usage that is a percentage, each core once,
\* each mounted file system once, one interface for the two sources it is
\* listed in, the largest processes, the owner of each listening port, and
\* an environment in which the caller's values win.
TablesExact ==
  /\ UsageInRange
  /\ TopologyExact
  /\ PartitionsExact
  /\ InterfacesMerged
  /\ TopAreLargest
  /\ PortsAttributed
  /\ EnvOverrides
=============================================================================
