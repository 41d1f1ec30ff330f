---------------------------- MODULE RubyConfigs ----------------------------
(***************************************************************************)
(* The Ruby systems of part 3: the caches, directory and network of        *)
(* msi_caches.py and of ruby_caches_MI_example.py, and the scripts that    *)
(* run them with CPUs (simple_ruby.py) or with the random tester           *)
(* (ruby_test.py, test_caches.py).                                         *)
(*                                                                         *)
(* `p' is what a build is asked for: the script, the protocol of its cache *)
(* system and the one gem5 was built with, the ISA, the number of CPUs or  *)
(* of the tester's ports and of memory controllers, the line size, and     *)
(* whether there is a module ruby_caches: the repository has none.         *)
(***************************************************************************)
EXTENDS SimObjects

tester == <<"tester", 0>>
network == <<"network", 0>>
sys_port_proxy == <<"sys_port_proxy", 0>>
sequencer(i) == <<"sequencer", i>>
l1(i) == <<"l1", i>>
dir == <<"dir", 0>>
router(i) == <<"router", i>>

-----------------------------------------------------------------------------
(* The message buffers of the state machines: whether they are "To" or     *)
(* "From" the network, and their virtual network.                          *)

Buffer(m, b, way, vnet) ==
  [machine |-> m, buffer |-> b, way |-> way, vnet |-> vnet]

MSICacheBuffers ==
  {Buffer("L1Cache", "requestToDir", "To", 0),
   Buffer("L1Cache", "responseToDirOrSibling", "To", 2),
   Buffer("L1Cache", "forwardFromDir", "From", 1),
   Buffer("L1Cache", "responseFromDirOrSibling", "From", 2)}

MSIDirBuffers ==
  {Buffer("Directory", "forwardToCache", "To", 1),
   Buffer("Directory", "responseToCache", "To", 2),
   Buffer("Directory", "requestFromCache", "From", 0),
   Buffer("Directory", "responseFromCache", "From", 2)}

MI_exampleBuffers ==
  {Buffer("L1Cache", "requestFromCache", "To", 2),
   Buffer("L1Cache", "responseFromCache", "To", 4),
   Buffer("L1Cache", "forwardToCache", "From", 3),
   Buffer("L1Cache", "responseToCache", "From", 4),
   Buffer("Directory", "forwardFromDir", "To", 3),
   Buffer("Directory", "responseFromDir", "To", 4),
   Buffer("Directory", "dmaResponseFromDir", "To", 1),
   Buffer("Directory", "requestToDir", "From", 2),
   Buffer("Directory", "dmaRequestToDir", "From", 0)}

Buffers(protocol) ==
  IF protocol = "MSI" THEN MSICacheBuffers \cup MSIDirBuffers
                      ELSE MI_exampleBuffers

(* A buffer "To" the network is connected as a master, one "From" it as a  *)
(* slave.                                                                  *)
BufferPorts(protocol) ==
  {Port(b.machine, b.buffer, IF b.way = "To" THEN "master" ELSE "slave",
        FALSE, TRUE) : b \in Buffers(protocol)}

(* `self.b.master = network.slave', `self.b.slave = network.master'.       *)
ToNetwork(o, b) == Bind(o, b, network, "slave")
FromNetwork(o, b) == Bind(o, b, network, "master")

-----------------------------------------------------------------------------
(* msi_caches.py.                                                          *)

number_of_virtual_networks(protocol) ==
  IF protocol = "MSI" THEN 3 ELSE 5

(* getBlockSizeBits.                                                       *)
PowerOfTwo(n) == \E bits \in 0..30 : 2^bits = n

(* versionCount: the class counts its objects.                             *)
NewController(o, c) == <<[op |-> "controller", obj |-> o, class |-> c]>>

MSI_L1Cache_connectQueues(o) ==
  ToNetwork(o, "requestToDir") \o ToNetwork(o, "responseToDirOrSibling")
    \o FromNetwork(o, "forwardFromDir")
    \o FromNetwork(o, "responseFromDirOrSibling")

MSI_L1Cache(p, i) ==
  NewController(l1(i), "L1Cache") \o Check(PowerOfTwo(p.lineSize))
    \o MSI_L1Cache_connectQueues(l1(i))

MSI_DirController_connectQueues(o) ==
  FromNetwork(o, "requestFromCache") \o FromNetwork(o, "responseFromCache")
    \o ToNetwork(o, "responseToCache") \o ToNetwork(o, "forwardToCache")

MSI_DirController(p) ==
  Check(p.memCtrls <= 1) \o NewController(dir, "Directory")
    \o Bind(dir, "memory", mem_ctrl(0), "port")
    \o MSI_DirController_connectQueues(dir)

(* A router for each controller, and a link between every two routers.     *)
controllers(n) == [i \in 0..n |-> IF i < n THEN l1(i) ELSE dir]

connectControllers_OneWay(n) ==                          \* seeded fault
  ForEach(n + 1, LAMBDA i : New(router(i), "Switch"))
    \o ForEach(n + 1, LAMBDA i : Link(controllers(n)[i], router(i))
                                   \o Link(router(i), controllers(n)[i]))
    \o ForEach(n + 1, LAMBDA i : ForEach(n + 1, LAMBDA j :
         IF i >= j THEN <<>> ELSE Link(router(i), router(j))))
connectControllers(n) ==
  ForEach(n + 1, LAMBDA i : New(router(i), "Switch"))
    \o ForEach(n + 1, LAMBDA i : Link(controllers(n)[i], router(i))
                                   \o Link(router(i), controllers(n)[i]))
    \o ForEach(n + 1, LAMBDA i : ForEach(n + 1, LAMBDA j :
         IF i = j THEN <<>> ELSE Link(router(i), router(j))))

(* RubySequencer(version = i), and the pointers between it and the i-th    *)
(* controller.                                                             *)
sequencers(n) ==
  ForEach(n, LAMBDA i : New(sequencer(i), "RubySequencer"))
    \o ForEach(n, LAMBDA i : Link(sequencer(i), controllers(n)[i])
                               \o Link(controllers(n)[i], sequencer(i)))

connectSystemPortToRuby ==
  New(sys_port_proxy, "RubyPortProxy")
    \o Bind(system, "system_port", sys_port_proxy, "slave")

connectCPU_OneSequencer(p, i) ==                         \* seeded fault
  Bind(cpu(i), "icache_port", sequencer(0), "slave")
    \o Bind(cpu(i), "dcache_port", sequencer(0), "slave")
connectCPU(p, i) ==
  Bind(cpu(i), "icache_port", sequencer(i), "slave")
    \o Bind(cpu(i), "dcache_port", sequencer(i), "slave")
    \o (IF p.isa # "x86" THEN <<>> ELSE
          Bind(interrupts(i), "pio", sequencer(i), "master")
            \o Bind(interrupts(i), "int_master", sequencer(i), "slave")
            \o Bind(interrupts(i), "int_slave", sequencer(i), "master"))
    \o (IF p.isa \notin {"x86", "arm"} THEN <<>> ELSE
          Bind(cpu(i), "itb.walker.port", sequencer(i), "slave")
            \o Bind(cpu(i), "dtb.walker.port", sequencer(i), "slave"))

MSI_setup(p) ==
  Check(p.built = "MSI") \o New(network, "Network")
    \o ForEach(p.cpus, LAMBDA i : MSI_L1Cache(p, i))
    \o MSI_DirController(p)
    \o sequencers(p.cpus) \o connectControllers(p.cpus)
    \o connectSystemPortToRuby
    \o ForEach(p.cpus, LAMBDA i : connectCPU(p, i))

-----------------------------------------------------------------------------
(* ruby_caches_MI_example.py.                                              *)

MI_L1Cache_connectQueues(o) ==
  ToNetwork(o, "requestFromCache") \o ToNetwork(o, "responseFromCache")
    \o FromNetwork(o, "forwardToCache") \o FromNetwork(o, "responseToCache")

MI_L1Cache(p, i) ==
  NewController(l1(i), "L1Cache") \o Check(PowerOfTwo(p.lineSize))
    \o MI_L1Cache_connectQueues(l1(i))

MI_DirController_connectQueues_NoDMA(o) ==               \* seeded fault
  FromNetwork(o, "requestToDir") \o ToNetwork(o, "responseFromDir")
    \o ToNetwork(o, "dmaResponseFromDir") \o ToNetwork(o, "forwardFromDir")
MI_DirController_connectQueues(o) ==
  FromNetwork(o, "requestToDir") \o FromNetwork(o, "dmaRequestToDir")
    \o ToNetwork(o, "responseFromDir") \o ToNetwork(o, "dmaResponseFromDir")
    \o ToNetwork(o, "forwardFromDir")

MI_DirController(p) ==
  Check(p.memCtrls <= 1) \o NewController(dir, "Directory")
    \o Bind(dir, "memory", mem_ctrl(0), "port")
    \o MI_DirController_connectQueues(dir)

MI_connectControllers(n) == connectControllers(n)

MI_setup(p) ==
  Check(p.built = "MI_example") \o New(network, "Network")
    \o ForEach(p.cpus, LAMBDA i : MI_L1Cache(p, i))
    \o MI_DirController(p)
    \o sequencers(p.cpus) \o MI_connectControllers(p.cpus)
    \o connectSystemPortToRuby
    \o ForEach(p.cpus, LAMBDA i : connectCPU(p, i))

-----------------------------------------------------------------------------
(* test_caches.py: the tester has a port on each sequencer.                *)

(* `from ruby_caches import L1Cache, DirController, MyNetwork': what such  *)
(* a module would give are the classes of these names in msi_caches.py.    *)
import_ruby_caches(p) == Check(p.ruby_caches)

connectTester(i) ==
  Bind(tester, "cpuInstDataPort", sequencer(i), "slave")

TestCacheSystem_setup(p) ==
  Check(p.built = "MSI") \o New(network, "Network")
    \o ForEach(p.cpus, LAMBDA i : MSI_L1Cache(p, i))
    \o MSI_DirController(p)
    \o sequencers(p.cpus) \o connectControllers(p.cpus)
    \o connectSystemPortToRuby
    \o ForEach(p.cpus, connectTester)

-----------------------------------------------------------------------------
(* The scripts.                                                            *)

createMemCtrls(p) ==
  ForEach(p.memCtrls, LAMBDA i : New(mem_ctrl(i), "MemCtrl"))

simple_ruby(p) ==
  New(system, "System")
    \o ForEach(p.cpus, LAMBDA i : New(cpu(i), "CPU"))
    \o createMemCtrls(p)
    \o (IF p.isa = "x86" THEN ForEach(p.cpus, createInterruptController)
                         ELSE <<>>)
    \o (IF p.caches = "MSI" THEN MSI_setup(p) ELSE MI_setup(p))
    \o Instantiate

(* ruby_test.py imports TestCacheSystem from ruby_caches as well, so that  *)
(* without such a module it ends in an ImportError at its first statement. *)
ruby_test(p) ==
  import_ruby_caches(p)
    \o New(system, "System") \o New(tester, "RubyTester")
    \o createMemCtrls(p) \o TestCacheSystem_setup(p) \o Instantiate
=============================================================================
