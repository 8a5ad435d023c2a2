------------------------------- MODULE Mmio -------------------------------
(* The memory-mapped devices of src/emulator/mmio.cpp: the manager with its *)
(* 64 KB of memory and the console, file system, network, timer and system  *)
(* devices, used by one client through reads and writes of three widths.    *)
(* A register holds four bytes and a byte one of ByteBase values.           *)
EXTENDS Integers, Sequences, Functions

CONSTANTS
  ByteBase,   \* values of a byte, at least 2
  MemorySize, \* bytes of plain memory
  BufferSize, \* bytes of the console's buffer
  MaxElapsed, \* bound: milliseconds a timer runs; a 32-bit counter does not wrap
  MaxIds,     \* bound: connections of one network device
  MaxWrites   \* bound: accesses and management calls of the client

ASSUME MmioAssumption ==
  /\ ByteBase \in Nat \ {0, 1} /\ MemorySize \in Nat /\ MemorySize >= 4
  /\ BufferSize \in Nat /\ MaxElapsed \in Nat /\ MaxIds \in Nat /\ MaxWrites \in Nat

VARIABLES
  enabled,     \* MMIOManager::enabled
  devices,     \* names of the registered devices
  memory,      \* plain memory, by address
  console, fileSystem, network, timer, system, \* the devices' registers
  writes,      \* bound
  issued       \* history: the ids the present network device has given out, in order

mmioVars == <<enabled, devices, memory, console, fileSystem, network, timer, system, writes, issued>>

Devices == {"console", "filesystem", "network", "timer", "system"}
Widths == [byte |-> 1, word |-> 2, long |-> 4]

\* What the bytes of a register stand for, the lowest first, and what follows
\* the greatest value of a register.
Square == ByteBase * ByteBase
Units == <<1, ByteBase, Square, Square * ByteBase, Square * Square>>
Register == 0..(Units[5] - 1)
MinusOne == Units[5] - 1   \* -1 in an unsigned register

Bit(value, mask) == (value \div mask) % 2 = 1
Truncated(value, width) == value % Units[Widths[width] + 1]

(* ------------------------------- memory --------------------------------- *)

\* The bytes of a value, the highest first.
Bytes(value, n) == [i \in 1..n |-> (value \div Units[n - i + 1]) % ByteBase]
\* Faulty variant: the lowest first.
BytesReversed(value, n) == [i \in 1..n |-> (value \div Units[i]) % ByteBase]

InMemory(address, width) == address < MemorySize - (Widths[width] - 1)

StoredLittleEndian(mem, address, width, value) ==
  IF ~InMemory(address, width) THEN mem
  ELSE [a \in DOMAIN mem |->
          IF a \in address..(address + Widths[width] - 1)
          THEN BytesReversed(value, Widths[width])[a - address + 1] ELSE mem[a]]

Stored(mem, address, width, value) ==
  IF ~InMemory(address, width) THEN mem
  ELSE [a \in DOMAIN mem |->
          IF a \in address..(address + Widths[width] - 1)
          THEN Bytes(value, Widths[width])[a - address + 1] ELSE mem[a]]

Loaded(mem, address, width) ==
  IF ~InMemory(address, width) THEN 0
  ELSE CASE width = "byte" -> mem[address]
         [] width = "word" -> mem[address] * ByteBase + mem[address + 1]
         [] width = "long" -> mem[address] * Units[4] + mem[address + 1] * Units[3]
                                + mem[address + 2] * ByteBase + mem[address + 3]

(* ------------------------------- devices -------------------------------- *)

\* What the constructors leave; initialize sets less.
NewConsole == [status |-> 1, control |-> 1, buffer |-> <<>>]
NewFileSystem == [status |-> 0, command |-> 0, data |-> 0, address |-> 0, size |-> 0, result |-> 0]
NewNetwork == [connections |-> {}, nextConnectionId |-> 1, status |-> 0, command |-> 0,
               data |-> 0, address |-> 0, port |-> 0, result |-> 0]
NewTimer == [counter |-> 0, control |-> 0, compare |-> 0, interrupt |-> 0, elapsed |-> 0]
NewSystem == [control |-> 1, status |-> 0]

\* Faulty variant: initialize starts the ids again.
RestartedNetwork(n) == [n EXCEPT !.status = 0, !.command = 0, !.nextConnectionId = 1]

\* NetworkMMIODevice::initialize keeps the connections and the next id.
InitializedNetwork(n) == [n EXCEPT !.status = 0, !.command = 0]
InitializedFileSystem(f) == [f EXCEPT !.status = 0, !.command = 0]

\* Console: DATA 0, STATUS 4, CONTROL 8, BUFFER 12.  Echoed characters are
\* read back before standard input, the last one first.
ReadConsole(offset) ==
  console' = IF offset = 0 /\ console.buffer # <<>> /\ Bit(console.control, 1)
             THEN [console EXCEPT !.buffer = SubSeq(@, 1, Len(@) - 1)]
             ELSE console

WriteConsole(offset, value) ==
  LET room == Len(console.buffer) < BufferSize
      char == value % ByteBase
  IN  console' =
        CASE offset = 0 /\ Bit(console.control, 1) /\ Bit(console.control, 2) /\ room ->
               [console EXCEPT !.buffer = Append(@, char)]
          [] offset = 8 -> [console EXCEPT !.control = value]
          [] offset = 12 /\ room -> [console EXCEPT !.buffer = Append(@, char)]
          [] OTHER -> console

\* File system: COMMAND 0, DATA 8, ADDRESS 12, SIZE 16.  The name of the file to
\* open is never set, so that no file is ever open.
ExecuteFileCommand(command) ==
  [fileSystem EXCEPT
     !.command = command, !.status = 2,
     !.data = IF command = 3 THEN 0 ELSE @,
     !.result = IF command = 3 THEN 0 ELSE MinusOne]

WriteFileSystem(offset, value) ==
  fileSystem' =
    CASE offset = 0 -> ExecuteFileCommand(value)
      [] offset = 8 -> [fileSystem EXCEPT !.data = value]
      [] offset = 12 -> [fileSystem EXCEPT !.address = value]
      [] offset = 16 -> [fileSystem EXCEPT !.size = value]
      [] OTHER -> fileSystem

\* Network: COMMAND 0, DATA 8, ADDRESS 12, PORT 16; commands CONNECT 1,
\* DISCONNECT 2, SEND 3 ("data") and RECEIVE 4 ("received_data").
ExecuteNetworkCommand(command) ==
  LET n == [network EXCEPT !.command = command, !.status = 2]
      open == n.connections
  IN  CASE command = 1 ->
             [n EXCEPT !.connections = @ \cup {n.nextConnectionId},
                       !.nextConnectionId = @ + 1,
                       !.result = n.nextConnectionId]
        [] command = 2 ->
             [n EXCEPT !.connections = @ \ {n.data},
                       !.result = IF n.data \in open THEN 0 ELSE MinusOne]
        [] command = 3 -> [n EXCEPT !.result = IF n.address \in open THEN 4 ELSE MinusOne]
        [] command = 4 -> [n EXCEPT !.result = IF n.address \in open THEN 13 ELSE 0]
        [] OTHER -> [n EXCEPT !.result = MinusOne]

WriteNetwork(offset, value) ==
  /\ offset = 0 /\ value = 1 => network.nextConnectionId <= MaxIds
  /\ network' =
       CASE offset = 0 -> ExecuteNetworkCommand(value)
         [] offset = 8 -> [network EXCEPT !.data = value]
         [] offset = 12 -> [network EXCEPT !.address = value]
         [] offset = 16 -> [network EXCEPT !.port = value]
         [] OTHER -> network

\* Timer: COUNTER 0, CONTROL 4, COMPARE 8, INTERRUPT 12; control bits ENABLE 1,
\* RESET 2 and INTERRUPT 4.  The counter moves only when a register is read.
ResetTimer(t) == [t EXCEPT !.counter = 0, !.elapsed = 0]

\* Faulty variant: only a counter that has just reached the value counts.
UpdatedWhenEqual(t) ==
  IF ~Bit(t.control, 1) THEN t
  ELSE LET counted == [t EXCEPT !.counter = t.elapsed]
           due == t.compare > 0 /\ counted.counter = t.compare
           raised == IF due /\ Bit(t.control, 4)
                     THEN [counted EXCEPT !.interrupt = 1] ELSE counted
       IN  IF due /\ Bit(t.control, 2) THEN ResetTimer(raised) ELSE raised

Updated(t) ==
  IF ~Bit(t.control, 1) THEN t
  ELSE LET counted == [t EXCEPT !.counter = t.elapsed]
           due == t.compare > 0 /\ counted.counter >= t.compare
           raised == IF due /\ Bit(t.control, 4)
                     THEN [counted EXCEPT !.interrupt = 1] ELSE counted
       IN  IF due /\ Bit(t.control, 2) THEN ResetTimer(raised) ELSE raised

WriteTimer(offset, value) ==
  timer' =
    CASE offset = 4 -> LET t == [timer EXCEPT !.control = value]
                       IN  IF Bit(value, 2) THEN ResetTimer(t) ELSE t
      [] offset = 8 -> [timer EXCEPT !.compare = value]
      [] offset = 12 -> [timer EXCEPT !.interrupt = value]
      [] OTHER -> timer

\* System: CONTROL 0, RESET 12 (soft 1, hard 2).
WriteSystem(offset, value) ==
  system' = CASE offset = 0 -> [system EXCEPT !.control = value]
              [] offset = 12 /\ value = 1 -> [system EXCEPT !.status = 0]
              [] offset = 12 /\ value = 2 -> NewSystem
              [] OTHER -> system

(* ------------------------------- manager -------------------------------- *)

Client == writes < MaxWrites /\ writes' = writes + 1

\* What the new devices among `new' and the initialize calls leave.
Initialize ==
  /\ Client
  /\ enabled' = TRUE
  /\ devices' = Devices
  /\ console' = NewConsole
  /\ fileSystem' = IF "filesystem" \in devices THEN InitializedFileSystem(fileSystem)
                   ELSE NewFileSystem
  /\ network' = IF "network" \in devices THEN InitializedNetwork(network) ELSE NewNetwork
  /\ timer' = NewTimer
  /\ system' = NewSystem
  /\ issued' = IF "network" \in devices THEN issued ELSE <<>>
  /\ UNCHANGED memory

\* Devices that go are destroyed; a later one starts as new.
Remove(gone) ==
  /\ devices' = devices \ gone
  /\ console' = IF "console" \in gone THEN NewConsole ELSE console
  /\ fileSystem' = IF "filesystem" \in gone THEN NewFileSystem ELSE fileSystem
  /\ network' = IF "network" \in gone THEN NewNetwork ELSE network
  /\ timer' = IF "timer" \in gone THEN NewTimer ELSE timer
  /\ system' = IF "system" \in gone THEN NewSystem ELSE system
  /\ issued' = IF "network" \in gone THEN <<>> ELSE issued
  /\ UNCHANGED memory

Shutdown == Client /\ Remove(devices) /\ enabled' = FALSE
UnregisterDevice(name) == Client /\ name \in devices /\ Remove({name}) /\ UNCHANGED enabled

\* A new device; what has the address already stays.
RegisterDevice(name) ==
  /\ Client
  /\ devices' = devices \cup {name}
  /\ UNCHANGED <<enabled, memory, console, fileSystem, network, timer, system, issued>>

SetEnabled(enable) ==
  /\ Client
  /\ enabled' = enable
  /\ UNCHANGED <<devices, memory, console, fileSystem, network, timer, system, issued>>

\* writeMemory, writeWord, writeByte: a narrow write sets the whole register.
Write(width, name, offset, value) ==
  /\ Client /\ enabled
  /\ LET v == Truncated(value, width)
     IN  /\ \/ /\ name = "memory" /\ memory' = Stored(memory, offset, width, v)
               /\ UNCHANGED <<console, fileSystem, network, timer, system>>
            \/ /\ name = "console" /\ name \in devices /\ WriteConsole(offset, v)
               /\ UNCHANGED <<memory, fileSystem, network, timer, system>>
            \/ /\ name = "filesystem" /\ name \in devices /\ WriteFileSystem(offset, v)
               /\ UNCHANGED <<memory, console, network, timer, system>>
            \/ /\ name = "network" /\ name \in devices /\ WriteNetwork(offset, v)
               /\ UNCHANGED <<memory, console, fileSystem, timer, system>>
            \/ /\ name = "timer" /\ name \in devices /\ WriteTimer(offset, v)
               /\ UNCHANGED <<memory, console, fileSystem, network, system>>
            \/ /\ name = "system" /\ name \in devices /\ WriteSystem(offset, v)
               /\ UNCHANGED <<memory, console, fileSystem, network, timer>>
         /\ issued' = IF name = "network" /\ offset = 0 /\ v = 1
                       THEN Append(issued, network'.result) ELSE issued
  /\ UNCHANGED <<enabled, devices>>

\* readMemory, readWord, readByte: reading moves the timer and takes from the
\* console; the other devices and the memory only answer.
Read(name, offset) ==
  /\ enabled /\ name \in devices
  /\ \/ /\ name = "console" /\ ReadConsole(offset) /\ UNCHANGED timer
     \/ /\ name = "timer" /\ timer' = Updated(timer) /\ UNCHANGED console
  /\ UNCHANGED <<enabled, devices, memory, fileSystem, network, system, writes, issued>>

\* dumpDeviceRegisters reads the first four registers of every device.
DumpDeviceRegisters ==
  /\ ReadConsole(0)
  /\ "console" \notin devices => console' = console
  /\ timer' = IF "timer" \in devices THEN Updated(timer) ELSE timer
  /\ UNCHANGED <<enabled, devices, memory, fileSystem, network, system, writes, issued>>

\* steady_clock.
Tick ==
  /\ "timer" \in devices /\ timer.elapsed < MaxElapsed
  /\ timer' = [timer EXCEPT !.elapsed = @ + 1]
  /\ UNCHANGED <<enabled, devices, memory, console, fileSystem, network, system, writes, issued>>

(* --------------------------- specification ------------------------------ *)

MmioInit ==
  /\ enabled = FALSE /\ devices = {}
  /\ memory = [a \in 0..(MemorySize - 1) |-> 0]
  /\ console = NewConsole /\ fileSystem = NewFileSystem /\ network = NewNetwork
  /\ timer = NewTimer /\ system = NewSystem
  /\ writes = 0 /\ issued = <<>>

Manage ==
  \/ Initialize \/ Shutdown
  \/ \E name \in Devices : UnregisterDevice(name) \/ RegisterDevice(name)
  \/ \E enable \in BOOLEAN : SetEnabled(enable)

\* Any client, any bytes.
MmioNext ==
  \/ Manage
  \/ \E name \in Devices \cup {"memory"}, offset \in Nat :
       \/ Read(name, offset)
       \/ \E width \in DOMAIN Widths, value \in Register : Write(width, name, offset, value)
  \/ DumpDeviceRegisters
  \/ Tick

MmioSpec == MmioInit /\ [][MmioNext]_mmioVars

PollTimer == Read("timer", 0)

(* ----------------------------- properties ------------------------------- *)

\* Whatever the memory holds, what is written at an address in one width is read
\* back there, byte by byte and as a whole, and no other byte changes; at the
\* end of the memory nothing is written past it (mmio.cpp:579, 615, 646).
WritesReadBack ==
  \A width \in DOMAIN Widths : \A a \in 0..MemorySize :
    \A value \in {0, 1, ByteBase, Units[3] + 1, Units[4]} :
      LET v == Truncated(value, width)
          mem == Stored(memory, a, width, v)
          last == a + Widths[width] - 1
      IN  /\ \A b \in DOMAIN memory \ (a..last) : mem[b] = memory[b]
          /\ last < MemorySize =>
               /\ Loaded(mem, a, width) = v
               /\ Loaded(mem, last, "byte") = v % ByteBase
          /\ last >= MemorySize => mem = memory /\ Loaded(mem, a, width) = 0

\* A connection id is never given out a second time by the same device, though
\* the manager is initialized again in between (mmio.cpp:499): an id a client
\* kept cannot come to mean another connection.
ConnectionsNotReused == IsInjective(issued)

Armed ==
  /\ enabled /\ "timer" \in devices
  /\ Bit(timer.control, 1) /\ Bit(timer.control, 4)
  /\ timer.compare \in 1..MaxElapsed

\* An armed timer raises its interrupt, or is changed, as long as somebody keeps
\* reading its registers: a reader that comes late misses nothing (mmio.cpp:410).
DueInterruptRaised == Armed ~> (timer.interrupt # 0 \/ ~Armed)
===========================================================================
