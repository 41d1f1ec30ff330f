---------------------------- MODULE HelloGoodbye ----------------------------
(***************************************************************************)
(* HelloObject and GoodbyeObject (part2/parameters).  A HelloObject fires  *)
(* its event a number of times and then says goodbye to a GoodbyeObject,   *)
(* which fills its buffer with the message and ends the simulation.  The   *)
(* HelloObject of the chapter before (part2/events) has no GoodbyeObject.  *)
(*                                                                         *)
(* Which objects there are is a constant; their parameters, any that a     *)
(* script may give them, are chosen in Init.  Ticks are small numbers, and *)
(* so is the number of bits that a float has: goodbye_object.cc adds ticks *)
(* as floats.                                                              *)
(***************************************************************************)
EXTENDS Integers, Sequences, FiniteSets

CONSTANTS
  Hellos, Goodbyes,   \* the objects
  Latencies,          \* values of time_to_wait
  Fires,              \* values of number_of_fires
  BufferSizes,        \* values of buffer_size, in bytes
  Bandwidths,         \* values of write_bandwidth, in ticks for a byte
  MessageLength,      \* the length of the message to a HelloObject
  FloatBits           \* the bits of a float's significand: 24

ASSUME HelloAssumption ==
  /\ Hellos # {} /\ Hellos \cap Goodbyes = {}
  /\ Latencies \subseteq Nat /\ Fires \subseteq Int
  /\ BufferSizes \subseteq Nat /\ Bandwidths \subseteq Nat
  /\ MessageLength \in Nat \ {0} /\ FloatBits \in Nat \ {0}

VARIABLES
  params,     \* the parameters of the objects
  curTick,
  events,     \* the events scheduled, at most one of each object
  exits,      \* the exit events: their ticks and causes
  timesLeft,
  message,    \* whose message a GoodbyeObject writes
  buffer,     \* what it has written
  status      \* "running", "ended" or "panic"

vars ==
  <<params, curTick, events, exits, timesLeft, message, buffer, status>>

Objects == Hellos \cup Goodbyes
Nobody == "nobody"
NoGoodbye == "no goodbye"

(* The message `Goodbye name!! ' as its bytes.                             *)
Text(h) == [k \in 1..MessageLength |-> <<h, k>>]

bufferUsed(g) == Len(buffer[g])

(* n as a float: a multiple of the place of its last bit, the nearest, and *)
(* of two as near the even one.                                            *)
Float(n) ==
  LET e == CHOOSE k \in 0..n :
             /\ n < 2^(FloatBits + k)
             /\ k = 0 \/ n >= 2^(FloatBits + k - 1)
      unit == 2^e
      below == n \div unit
      rest == 2 * (n % unit)
      up == rest > unit \/ (rest = unit /\ below % 2 = 1)
  IN  unit * (below + IF up THEN 1 ELSE 0)

-----------------------------------------------------------------------------
(* The event queue.                                                        *)

Scheduled(o) == \E e \in events : e.obj = o

Pending == {e.tick : e \in events} \cup {x.tick : x \in exits}
IsNext(tick) == \A t \in Pending : tick <= t

(* The event of o is taken off the queue.                                  *)
Fire(o) ==
  /\ status = "running"
  /\ \E e \in events : e.obj = o /\ IsNext(e.tick) /\ curTick' = e.tick
  /\ UNCHANGED params

Without(o) == {e \in events : e.obj # o}

-----------------------------------------------------------------------------
(* GoodbyeObject.                                                          *)

Free_WholeBuffer(g) ==                                   \* seeded fault
  params.buffer_size[g] - bufferUsed(g)
Free_TwoBytesKept(g) ==                                  \* seeded fault
  params.buffer_size[g] - 2 - bufferUsed(g)
Free(g) == params.buffer_size[g] - 1 - bufferUsed(g)

bytes_copied(g) ==
  IF Free(g) <= 0 THEN 0
  ELSE IF Free(g) < MessageLength THEN Free(g) ELSE MessageLength

(* `curTick() + bandwidth * bytes_copied', a sum of floats.                *)
CopiedAt_NoCurTick(g) ==                                 \* seeded fault
  Float(params.write_bandwidth[g] * bytes_copied(g))
CopiedAt(g) ==
  Float(Float(curTick') + Float(params.write_bandwidth[g] * bytes_copied(g)))

(* fillBuffer() with the message of h, while `queue' is scheduled.  An     *)
(* event is not scheduled for a tick that has passed, or a second time.    *)
fillBuffer(g, h, queue) ==
  LET filled == buffer[g] \o SubSeq(Text(h), 1, bytes_copied(g))
      when == CopiedAt(g)
      more == Len(filled) < params.buffer_size[g] - 1
      panics == when < curTick' \/ (more /\ \E e \in queue : e.obj = g)
  IN  /\ message' = [message EXCEPT ![g] = h]
      /\ buffer' = [buffer EXCEPT ![g] = filled]
      /\ events' = queue \cup {e \in {[obj |-> g, tick |-> when]} :
                                 more /\ ~panics}
      /\ exits' = exits \cup {x \in {[tick |-> when, cause |-> filled]} :
                                ~more /\ ~panics}
      /\ status' = IF panics THEN "panic" ELSE status

ProcessGoodbye(g) ==
  /\ Fire(g)
  /\ fillBuffer(g, message[g], Without(g))
  /\ UNCHANGED timesLeft

-----------------------------------------------------------------------------
(* HelloObject.                                                            *)

FireAgain(h) ==
  /\ Fire(h)
  /\ timesLeft' = [timesLeft EXCEPT ![h] = @ - 1]
  /\ timesLeft'[h] > 0
  /\ events' = Without(h) \cup
                 {[obj |-> h, tick |-> curTick' + params.time_to_wait[h]]}
  /\ UNCHANGED <<exits, message, buffer, status>>

(* The last event of part2/events: `Done firing!'.                         *)
DoneFiring(h) ==
  /\ params.goodbye_object[h] = NoGoodbye
  /\ Fire(h)
  /\ timesLeft' = [timesLeft EXCEPT ![h] = @ - 1]
  /\ timesLeft'[h] <= 0
  /\ events' = Without(h)
  /\ UNCHANGED <<exits, message, buffer, status>>

(* The last event says goodbye to the object that the parameter names.     *)
SayGoodbye(h) ==
  /\ params.goodbye_object[h] # NoGoodbye
  /\ Fire(h)
  /\ timesLeft' = [timesLeft EXCEPT ![h] = @ - 1]
  /\ timesLeft'[h] <= 0
  /\ fillBuffer(params.goodbye_object[h], h, Without(h))

(* An exit event is the last of its tick; simulate() returns.              *)
Exit ==
  /\ status = "running"
  /\ \E x \in exits :
       /\ IsNext(x.tick) /\ \A e \in events : e.tick > x.tick
       /\ curTick' = x.tick
       /\ exits' = {x}
  /\ status' = "ended"
  /\ UNCHANGED <<params, events, timesLeft, message, buffer>>

(* Without events simulate() returns when it reaches its limit.            *)
LimitReached ==
  /\ status = "running" /\ Pending = {}
  /\ status' = "ended"
  /\ UNCHANGED <<params, curTick, events, exits, timesLeft, message, buffer>>

-----------------------------------------------------------------------------

Parameters ==
  [time_to_wait : [Hellos -> Latencies],
   number_of_fires : [Hellos -> Fires],
   goodbye_object : [Hellos -> Goodbyes \cup {NoGoodbye}],
   buffer_size : [Goodbyes -> BufferSizes],
   write_bandwidth : [Goodbyes -> Bandwidths]]

(* startup() schedules each HelloObject's first event.                     *)
Init ==
  /\ params \in Parameters
  /\ curTick = 0
  /\ events = {[obj |-> h, tick |-> params.time_to_wait[h]] : h \in Hellos}
  /\ exits = {}
  /\ timesLeft = params.number_of_fires
  /\ message = [g \in Goodbyes |-> Nobody]
  /\ buffer = [g \in Goodbyes |-> <<>>]
  /\ status = "running"

Next ==
  \/ \E h \in Hellos : FireAgain(h) \/ SayGoodbye(h) \/ DoneFiring(h)
  \/ \E g \in Goodbyes : ProcessGoodbye(g)
  \/ Exit
  \/ LimitReached

Spec == Init /\ [][Next]_vars

(* simulate() takes events off the queue until an exit event.              *)
FairSpec == Spec /\ WF_vars(Next)

-----------------------------------------------------------------------------
(* What the two objects promise.                                           *)

Shared ==
  \E h1, h2 \in Hellos :
    /\ h1 # h2
    /\ params.goodbye_object[h1] = params.goodbye_object[h2]
    /\ params.goodbye_object[h1] # NoGoodbye

AtLeast(n, least) == IF n < least THEN least ELSE n

(* When h's goodbye is written: the event fires once at least, and the     *)
(* buffer keeps a byte.                                                    *)
ExitTick(h) ==
  LET g == params.goodbye_object[h]
  IN  params.time_to_wait[h] * AtLeast(params.number_of_fires[h], 1)
        + params.write_bandwidth[g] * AtLeast(params.buffer_size[g] - 1, 0)

Written(h) == AtLeast(params.buffer_size[params.goodbye_object[h]] - 1, 0)

(* While ticks are few enough for a float, the simulation ends when the    *)
(* first goodbye is written to the last byte (`Be sure to take into        *)
(* account the time for the last bytes', goodbye_object.cc:88), with its   *)
(* message over and over as the cause, unless two HelloObjects share a     *)
(* GoodbyeObject; and if none says goodbye, when each has fired as often   *)
(* as it has to.                                                           *)
ExitsOnTime ==
  LET polite == {h \in Hellos : params.goodbye_object[h] # NoGoodbye}
      due == {h \in polite : \A o \in polite : ExitTick(h) <= ExitTick(o)}
  IN  status = "ended" /\ ~Shared
        /\ (\A h \in due : ExitTick(h) < 2^FloatBits) =>
        IF polite = {}
        THEN \A h \in Hellos :
               curTick >= params.time_to_wait[h] * params.number_of_fires[h]
        ELSE
        \E h \in due, x \in exits :
          /\ curTick = ExitTick(h)
          /\ x.cause = [k \in 1..Written(h) |->
                          Text(h)[((k - 1) % MessageLength) + 1]]

(* Only a GoodbyeObject that two HelloObjects share is scheduled twice,    *)
(* and only where ticks are too many for a float does fillBuffer compute   *)
(* one that has passed.                                                    *)
OnlySharedOrLatePanics ==
  status = "panic" => Shared \/ curTick >= 2^FloatBits

(* The simulation ends, whatever the parameters are.                       *)
Ends == <>(status # "running")
=============================================================================
