------------------------------ MODULE Configs ------------------------------
(***************************************************************************)
(* Running a configuration script: its statements build a system, and the  *)
(* system takes requests, one at a time, from port to port to who answers  *)
(* them.  What a statement and an object of gem5 does is modelled from how *)
(* the scripts use it; caches miss, so that a request goes all its way.    *)
(***************************************************************************)
EXTENDS FullSystemConfigs, RubyConfigs

CONSTANT Builds   \* what may be built: see Script

(* The scripts that make one CPU; the others make as many as they are      *)
(* asked for.                                                              *)
OneCPUScripts ==
  {"simple", "two_level", "two_level_opts", "simple_memobj", "simple_cache",
   "x86"}

ASSUME BuildsAreRecords ==
  \A b \in Builds :
    /\ {"script", "cpus", "mem", "caches", "built", "isa", "memCtrls",
        "lineSize", "ruby_caches"} = DOMAIN b
    /\ b.script \in OneCPUScripts \cup {"x86_mp", "simple_ruby", "ruby_test"}
    /\ b.cpus \in Nat \ {0} /\ (b.script \in OneCPUScripts => b.cpus = 1)
    /\ b.mem \in Nat /\ b.mem > MB /\ b.mem <= IOGap
    /\ b.memCtrls \in Nat
    /\ b.caches \in {"MSI", "MI_example"}
    /\ b.script = "ruby_test" => b.caches = "MSI"
    /\ b.ruby_caches \in BOOLEAN

VARIABLES
  build,     \* the build that is run
  next,      \* its next statement
  made,      \* the objects made
  wires,     \* the ports connected: pairs of master and slave
  links,     \* the links and pointers between objects
  versions,  \* the version counters of the controller classes
  aborted,   \* the script has ended in an error
  packets    \* the request or message under way, if any

vars == <<build, next, made, wires, links, versions, aborted, packets>>
systemVars == <<made, wires, links, versions>>

-----------------------------------------------------------------------------

Script(b) ==
  CASE b.script = "simple" -> simple
    [] b.script = "two_level" -> two_level
    [] b.script = "two_level_opts" -> two_level_opts
    [] b.script = "simple_memobj" -> simple_memobj
    [] b.script = "simple_cache" -> simple_cache
    [] b.script = "x86" -> run(init_fs(membus), b.cpus)
    [] b.script = "x86_mp" -> run(init_fs_mp(membus), b.cpus)
    [] b.script = "simple_ruby" -> simple_ruby(b)
    [] b.script = "ruby_test" -> ruby_test(b)

Program == [b \in Builds |-> Script(b)]

FullSystem == build.script \in {"x86", "x86_mp"}
Ruby == build.script \in {"simple_ruby", "ruby_test"}

ApicBridgeRanges ==
  IF build.script = "x86" THEN x86_apicbridge_ranges
                          ELSE apicbridge_ranges(build.cpus)

Exists(o) == \E m \in made : m.obj = o
ClassOf(o) == (CHOOSE m \in made : m.obj = o).class
VersionOf(o) == (CHOOSE m \in made : m.obj = o).version

Ports ==
  SimpleMemobjPorts \cup SimpleCachePorts \cup XBarPorts \cup OtherPorts
    \cup BufferPorts(build.caches) \cup {Master("Directory", "memory")}
PortsOf(o) == {t \in Ports : t.class = ClassOf(o)}

Bound(e) == \E w \in wires : e \in {w[1], w[2]}
PeersOf(e) == {w[2] : w \in {v \in wires : v[1] = e}}

-----------------------------------------------------------------------------
(* Who answers at a crossbar.                                              *)

(* The ranges that the object at the slave port e has announced.           *)
Accepts(e, a) ==
  LET o == e[1]
  IN  CASE ClassOf(o) = "MemCtrl" -> InRange(a, mem_ranges(build.mem)[1])
        [] ClassOf(o) = "Cache" ->
             o = iocache => InSome(a, iocache_ranges(build.mem))
        [] ClassOf(o) = "Bridge" ->
             InSome(a, IF o = bridge THEN bridge_ranges ELSE ApicBridgeRanges)
        [] ClassOf(o) = "X86LocalApic" ->
             InRange(a, APICRange(IF e[2] = "pio" THEN LocalAPIC(o[2])
                                                  ELSE InterruptTo(o[2])))
        [] ClassOf(o) = "Pc" -> InSome(a, pc_ranges)

Responders(x, a) == {e \in PeersOf(<<x, "master">>) : Accepts(e, a)}

-----------------------------------------------------------------------------
(* The addresses that requests are made for: the first and the last of     *)
(* what the scripts name, and the first beyond.                            *)

MemoryAddresses == {KB(0), KB(build.mem - 1)}

InterruptAddresses == {InterruptTo(i) : i \in 0..(build.cpus - 1)}

PlatformAddresses ==
  {KB(IOGap), KB(IOGap + MB - 1), KB(IOGap + MB), KB(IOAPICAddress),
   KB(M5Ops), KB(M5Ops + 1), IO_address_space_base, <<9, LastKB>>,
   pci_config_address_space_base, AddrMax}
    \cup (IF build.mem < IOGap THEN {KB(build.mem)} ELSE {})

Addresses ==
  MemoryAddresses \cup PlatformAddresses \cup InterruptAddresses
    \cup {LocalAPIC(i) : i \in 0..(build.cpus - 1)}

AddressesFrom(e) ==
  CASE ClassOf(e[1]) \in {"X86LocalApic", "Pc"} /\ e[2] = "int_master" ->
         IF Ruby THEN {} ELSE InterruptAddresses
    [] FullSystem /\ e[2] \in {"icache_port", "dcache_port"} ->
         MemoryAddresses \cup PlatformAddresses \cup {LocalAPIC(e[1][2])}
    [] OTHER -> MemoryAddresses

-----------------------------------------------------------------------------
(* The statements.                                                         *)

Statement == Program[build][next]
Building == ~aborted /\ next <= Len(Program[build])
Simulating == ~aborted /\ next > Len(Program[build])

(* PortRef.connect: a master and a slave of objects that exist, neither    *)
(* of them connected already, unless it is a vector.                       *)
Connectable(e, role) ==
  /\ Exists(e[1])
  /\ \E t \in PortsOf(e[1]) :
       t.port = e[2] /\ t.role = role /\ (t.vector \/ ~Bound(e))

Connections(ends) ==
  {w \in ends \X ends : Connectable(w[1], "master")
                          /\ Connectable(w[2], "slave")}

(* Every port that must be is connected, no two objects of a bus answer    *)
(* for the same address, and each buffer's virtual network is there.       *)
CanInstantiate ==
  /\ \A m \in made : \A t \in PortsOf(m.obj) :
       t.needed => Bound(<<m.obj, t.port>>)
  /\ \A m \in made : m.class \in XBar =>
       \A a \in Addresses : Cardinality(Responders(m.obj, a)) <= 1
  /\ Ruby => \A b \in Buffers(build.caches) :
               b.vnet < number_of_virtual_networks(build.caches)

Succeeds ==
  CASE Statement.op = "bind" -> Connections(Statement.ends) # {}
    [] Statement.op = "check" -> Statement.ok
    [] Statement.op = "instantiate" -> CanInstantiate
    [] OTHER -> TRUE

Execute(op) ==
  /\ Building /\ Statement.op = op /\ Succeeds
  /\ next' = next + 1
  /\ UNCHANGED <<build, aborted, packets>>

MakeObject ==
  /\ Execute("new")
  /\ made' = made \cup {[obj |-> Statement.obj, class |-> Statement.class,
                         version |-> 0]}
  /\ UNCHANGED <<wires, links, versions>>

(* versionCount returns the count before it is raised.                     *)
MakeController_NotRaised ==                              \* seeded fault
  /\ Execute("controller")
  /\ made' = made \cup {[obj |-> Statement.obj, class |-> Statement.class,
                         version |-> 0]}
  /\ UNCHANGED <<wires, links, versions>>
MakeController ==
  /\ Execute("controller")
  /\ versions' = [versions EXCEPT ![Statement.class] = @ + 1]
  /\ made' = made \cup {[obj |-> Statement.obj, class |-> Statement.class,
                         version |-> versions'[Statement.class] - 1]}
  /\ UNCHANGED <<wires, links>>

BindPorts ==
  /\ Execute("bind")
  /\ wires' = wires \cup Connections(Statement.ends)
  /\ UNCHANGED <<made, links, versions>>

MakeLink ==
  /\ Execute("link")
  /\ links' = links \cup {<<Statement.from, Statement.to>>}
  /\ UNCHANGED <<made, wires, versions>>

GoOn ==
  /\ Execute("check") \/ Execute("instantiate")
  /\ UNCHANGED systemVars

Abort ==
  /\ Building /\ ~Succeeds
  /\ aborted' = TRUE
  /\ UNCHANGED <<build, next, packets, systemVars>>

-----------------------------------------------------------------------------
(* Requests and messages.  A packet is at a port of an object; `crossed'   *)
(* are the objects it has passed.  A message is for the controller that    *)
(* `dest' names by class and version; for an access there is none before a *)
(* controller sends a request for it.                                      *)

Nobody == <<"nobody", 0>>

Sources == {"System", "CPU", "X86LocalApic", "Pc", "RubyTester"}

Access(e, a, to) ==
  [origin |-> e, addr |-> a, dest |-> Nobody, vnet |-> 0, at |-> to,
   crossed |-> {}]

SendRequest ==
  /\ Simulating /\ packets = {}
  /\ \E w \in wires : \E a \in AddressesFrom(w[1]) :
       /\ ClassOf(w[1][1]) \in Sources
       /\ packets' = {Access(w[1], a, w[2])}
  /\ UNCHANGED <<build, next, aborted, systemVars>>

(* What the controllers send, and to which machines.                       *)
SendsTo(buffer) ==
  CASE buffer \in {"requestToDir", "requestFromCache"} -> {"Directory"}
    [] buffer = "responseToDirOrSibling" -> {"Directory", "L1Cache"}
    [] buffer \in {"forwardToCache", "responseToCache", "forwardFromDir",
                   "responseFromDir", "responseFromCache"} -> {"L1Cache"}
    [] OTHER -> {}

MachineID(o) == <<ClassOf(o), VersionOf(o)>>
NodesOf(id) == {m.obj : m \in {n \in made : <<n.class, n.version>> = id}}
RouterOf(o) == {n \in {l[2] : l \in {k \in links : k[1] = o}} :
                  ClassOf(n) = "Switch"}

SendMessage ==
  /\ Simulating /\ packets = {}
  /\ \E b \in Buffers(build.caches), o, d \in {m.obj : m \in made} :
       /\ b.way = "To" /\ b.machine = ClassOf(o)
       /\ d # o /\ ClassOf(d) \in SendsTo(b.buffer)
       /\ \E r \in RouterOf(o) :
            packets' = {[origin |-> <<o, b.buffer>>, addr |-> KB(0),
                         dest |-> MachineID(d), vnet |-> b.vnet,
                         at |-> <<r, "network">>, crossed |-> {}]}
  /\ UNCHANGED <<build, next, aborted, systemVars>>

IsMessage(p) == ClassOf(p.origin[1]) \in {"L1Cache", "Directory"}

(* The packet moves on to e.                                               *)
MoveTo(p, e) ==
  packets' = {[p EXCEPT !.at = e, !.crossed = @ \cup {p.at[1]}]}

Hop(p, Step(_)) ==
  /\ Simulating /\ p \in packets
  /\ Step(p)
  /\ UNCHANGED <<build, next, aborted, systemVars>>

(* A crossbar gives a request to the one that answers for its address, or  *)
(* to its default.                                                         *)
CrossbarForwards(p) ==
  LET x == p.at[1]
      r == Responders(x, p.addr)
  IN  /\ ClassOf(x) \in XBar
      /\ \E e \in IF r # {} THEN r ELSE PeersOf(<<x, "default">>) :
           MoveTo(p, e)

(* A cache asks for what it misses, a bridge and the memory object pass    *)
(* everything on.                                                          *)
PassesOn(p) ==
  LET o == p.at[1]
  IN  /\ ClassOf(o) \in {"Cache", "SimpleCache", "SimpleMemobj", "Bridge"}
      /\ \E e \in PeersOf(<<o, IF ClassOf(o) = "Bridge" THEN "master"
                                                        ELSE "mem_side">>) :
           MoveTo(p, e)

(* The sequencer puts a request into its controller's mandatory queue.     *)
SequencerPasses(p) ==
  /\ ClassOf(p.at[1]) = "RubySequencer"
  /\ \E l \in links : l[1] = p.at[1] /\ MoveTo(p, <<l[2], "mandatoryQueue">>)

(* A cache controller sends a request for a miss to the directory.         *)
ControllerRequests(p) ==
  /\ p.at[2] = "mandatoryQueue"
  /\ \E b \in Buffers(build.caches), r \in RouterOf(p.at[1]) :
       /\ b.way = "To" /\ SendsTo(b.buffer) = {"Directory"}
       /\ packets' = {[p EXCEPT !.at = <<r, "network">>,
                                !.crossed = @ \cup {p.at[1]},
                                !.dest = <<"Directory", 0>>,
                                !.vnet = b.vnet]}

(* A switch delivers to a controller it is linked to, into the buffer of   *)
(* the message's virtual network, and else sends to the switch that is     *)
(* linked to the destination.                                              *)
SwitchForwards(p) ==
  LET r == p.at[1]
      near == {l[2] : l \in {k \in links : k[1] = r}}
      to == NodesOf(p.dest)
  IN  /\ ClassOf(r) = "Switch"
      /\ \/ \E d \in to \cap near, b \in Buffers(build.caches) :
              /\ b.machine = ClassOf(d) /\ b.way = "From"
              /\ b.vnet = p.vnet /\ Bound(<<d, b.buffer>>)
              /\ MoveTo(p, <<d, b.buffer>>)
         \/ /\ to \cap near = {}
            /\ \E s \in near : \E d \in to :
                 s \in RouterOf(d) /\ MoveTo(p, <<s, "network">>)

(* The directory reads memory for a request.                               *)
DirectoryReads(p) ==
  /\ ClassOf(p.at[1]) = "Directory" /\ ~IsMessage(p)
  /\ \E e \in PeersOf(<<p.at[1], "memory">>) : MoveTo(p, e)

(* Who answers a request takes it; its answer goes back the same way.      *)
Arrived(p) ==
  \/ ClassOf(p.at[1]) \in {"MemCtrl", "X86LocalApic", "Pc", "BadAddr",
                           "RubyPortProxy"}
  \/ ClassOf(p.at[1]) \in {"L1Cache", "Directory"} /\ IsMessage(p)

Answer(p) == Arrived(p) /\ packets' = {}

Move(p) ==
  \/ Hop(p, CrossbarForwards)
  \/ Hop(p, PassesOn)
  \/ Hop(p, SequencerPasses)
  \/ Hop(p, ControllerRequests)
  \/ Hop(p, SwitchForwards)
  \/ Hop(p, DirectoryReads)
  \/ Hop(p, Answer)

-----------------------------------------------------------------------------

Init ==
  /\ build \in Builds
  /\ next = 1
  /\ made = {} /\ wires = {} /\ links = {}
  /\ versions = [c \in {"L1Cache", "Directory"} |-> 0]
  /\ aborted = FALSE
  /\ packets = {}

Run ==
  \/ MakeObject \/ MakeController \/ BindPorts \/ MakeLink \/ GoOn
  \/ Abort

Travel == \E p \in packets : Move(p)

Next == Run \/ SendRequest \/ SendMessage \/ Travel

Spec == Init /\ [][Next]_vars

(* An object handles what it is sent.                                      *)
FairSpec == Spec /\ WF_vars(Travel)
=============================================================================
