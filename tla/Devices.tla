--------------------------------- MODULE Devices ---------------------------------
(****************************************************************************)
(* l_mmap.c: objects that map device memory into the process; l_serial.c,    *)
(* and serial.c for programs in C: the settings of a serial line.  The       *)
(* kernel (/dev/mem, the terminal attributes, the driver) is external.  A    *)
(* call that is answered by an error before it does anything is no step.     *)
(****************************************************************************)
EXTENDS Integers, Sequences, SequencesExt

CONSTANTS
    PageSize, MemorySize,   \* /dev/mem, in bytes, of whole pages
    ByteBase,               \* 256
    Maps,                   \* the objects
    Places,                 \* what they are asked to map, [addr, size]
    Starts, Lengths,        \* the arguments of the accesses, numbers
    Numbers, DataBlocks,        \* what is put, and written
    Omitted,                \* an argument that is nil
    MaxPuts,                \* bound: puts and writes
    TermiosFlags,           \* the attributes of a line that are looked at
    BaudRates,              \* the rates that are asked for
    BaudBase                \* the driver's rate at the divisor 1

ASSUME DeviceParameters ==
    /\ PageSize \in Nat \ {0} /\ MemorySize \in Nat /\ MemorySize % PageSize = 0
    /\ \A p \in Places : /\ p.addr \in Nat /\ p.size \in Nat \ {0}
                         /\ p.addr + p.size <= MemorySize
    /\ Starts \subseteq Nat /\ Lengths \subseteq Nat /\ Omitted \notin Starts \cup Lengths
    /\ ByteBase \in Nat \ {0} /\ \A b \in DataBlocks : b \in Seq(0..(ByteBase - 1))
    /\ BaudRates \subseteq Nat \ {0} /\ BaudBase \in Nat

VARIABLES
    lmm,        \* the objects: [mapbase, basesize, mem, size], mem an offset from base
    dev_mem,    \* the byte at each address of /dev/mem
    asked,      \* history: what each object was asked to map
    meant,      \* history: the bytes as the callers put them
    overrun,    \* history: a byte outside a mapping was written
    unsized,    \* history: a put was called without a length
    puts

VARIABLES
    line,           \* the attributes: [speed, csize, flags]
    driver,         \* struct serial_struct: [custom, custom_divisor]
    baudrate,       \* history: the rate that was asked for last
    answered        \* of the last setup: "true", "error", "exit"; "none" before

mapVars == <<lmm, dev_mem, asked, meant, overrun, unsized, puts>>
lineVars == <<line, driver, baudrate, answered>>
deviceVars == <<mapVars, lineVars>>

Addresses == 0..(MemorySize - 1)
Unmapped == [mapbase |-> 0, basesize |-> 0, mem |-> 0, size |-> 0]
Nowhere == [addr |-> 0, size |-> 0]

DevicesInit ==
    /\ lmm = [o \in Maps |-> Unmapped] /\ asked = [o \in Maps |-> Nowhere]
    /\ dev_mem = [a \in Addresses |-> 0] /\ meant = dev_mem
    /\ overrun = FALSE /\ unsized = FALSE /\ puts = 0
    /\ \E flags \in {{}, TermiosFlags} : line = [speed |-> 9600, csize |-> 7, flags |-> flags]
    /\ driver = [custom |-> FALSE, custom_divisor |-> 0]
    /\ baudrate = 0 /\ answered = "none"

----------------------------------------------------------------------------
(* l_mmap.c *)

PageOf(a) == a - (a % PageSize)

\* Mistake: the size is rounded up by itself, and the last page is missing when the place
\* begins in the middle of a page.
SizeRoundedUp(p) ==
    LET mapstart == PageOf(p.addr)
        mapsize == PageOf(p.size + PageSize - 1)
    IN [mapbase |-> mapstart, basesize |-> mapsize,
        mem |-> p.addr - mapstart, size |-> mapsize - (p.addr - mapstart)]

\* The whole pages that hold the place; the size is what is left of them.
PagesFor(p) ==
    LET mapstart == PageOf(p.addr)
        mapsize == PageOf(p.addr + p.size + PageSize - 1) - mapstart
    IN [mapbase |-> mapstart, basesize |-> mapsize,
        mem |-> p.addr - mapstart, size |-> mapsize - (p.addr - mapstart)]

lua_mmap_new(o, p) ==
    /\ lmm[o] = Unmapped /\ asked[o] = Nowhere
    /\ lmm' = [lmm EXCEPT ![o] = PagesFor(p)]
    /\ asked' = [asked EXCEPT ![o] = p]
    /\ UNCHANGED <<dev_mem, meant, overrun, unsized, puts>>

lua_mmap__len(o) == lmm[o].size

\* The tests of get, read, write and put.
Inside(o, start, len) == start <= lua_mmap__len(o) /\ start + len <= lua_mmap__len(o)

\* Little-endian bytes, as the processor stores a number.
BytesOfNumber(x, len) == [i \in 1..len |-> (x \div ByteBase^(i - 1)) % ByteBase]
NumberOf(bytes) == FoldRight(LAMBDA byte, n : byte + ByteBase * n, bytes, 0)

\* What the process does at lmm->mem + start: outside of the mapping it is undefined, here
\* nothing but the fact.
Store(o, start, bytes) ==
    LET m == lmm[o]
        Index(a, base) == a - base - start + 1
    IN /\ dev_mem' = [a \in Addresses |->
              LET i == Index(a, m.mapbase + m.mem)
              IN IF i \in 1..Len(bytes) /\ a < m.mapbase + m.basesize THEN bytes[i] ELSE dev_mem[a]]
       /\ overrun' = (overrun \/ m.mem + start + Len(bytes) > m.basesize)
       /\ meant' = [a \in Addresses |->
              LET i == Index(a, asked[o].addr)
              IN IF i \in 1..Len(bytes) THEN bytes[i] ELSE meant[a]]
       /\ puts < MaxPuts /\ puts' = puts + 1
       /\ UNCHANGED <<lmm, asked>>

lua_mmap_write(o, block, start) ==
    /\ asked[o] # Nowhere
    /\ Inside(o, start, Len(block))
    /\ Store(o, start, block)
    /\ UNCHANGED unsized

\* The length that is not given, sizeof(size_t), is not tested.
lua_mmap_put(o, start, given, x) ==
    LET len == IF given = Omitted THEN 8 ELSE given
    IN /\ asked[o] # Nowhere
       /\ start <= lua_mmap__len(o)
       /\ given # Omitted => Inside(o, start, len)
       /\ len \in {1, 2, 4, 8}
       /\ Store(o, start, BytesOfNumber(x, len))
       /\ unsized' = (unsized \/ given = Omitted)

\* What is read at lmm->mem + start.
Fetch(o, start, len) ==
    [i \in 1..len |-> dev_mem[lmm[o].mapbase + lmm[o].mem + start + i - 1]]

\* The answer of a read is a set: none if it raises an error.
lua_mmap_read(o, start, given) ==
    LET len == IF given = Omitted THEN lua_mmap__len(o) ELSE given
    IN IF start > lua_mmap__len(o) \/ (given # Omitted /\ ~Inside(o, start, len)) THEN {}
       ELSE {Fetch(o, start, len)}

lua_mmap_get(o, start, len) ==
    IF Inside(o, start, len) /\ len \in {1, 2, 4, 8} THEN {NumberOf(Fetch(o, start, len))} ELSE {}

\* The methods can still be called.
lua_mmap__gc(o) ==
    /\ lmm[o] # Unmapped
    /\ lmm' = [lmm EXCEPT ![o].mem = 0, ![o].size = 0, ![o].basesize = 0, ![o].mapbase = 0]
    /\ UNCHANGED <<dev_mem, asked, meant, overrun, unsized, puts>>

MapNext ==
    /\ UNCHANGED lineVars
    /\ \E o \in Maps :
          \/ \E p \in Places : lua_mmap_new(o, p)
          \/ \E start \in Starts : \E b \in DataBlocks : lua_mmap_write(o, b, start)
          \/ \E start \in Starts, len \in Lengths \cup {Omitted}, x \in Numbers :
                lua_mmap_put(o, start, len, x)
          \/ lua_mmap__gc(o)

----------------------------------------------------------------------------
(* l_serial.c, serial.c *)

\* The rates termios has a name for.
NamedRates == {50, 75, 110, 134, 150, 200, 300, 600, 1200, 1800, 2400, 4800, 9600, 19200,
               38400, 57600, 115200, 230400}

\* What cfmakeraw clears; the options are changed one after the other, CSTOPB is set.
CookedFlags == {"IGNBRK", "BRKINT", "PARMRK", "ISTRIP", "INLCR", "IGNCR", "ICRNL", "IXON",
                "OPOST", "ECHO", "ECHONL", "ICANON", "ISIG", "IEXTEN", "PARENB"}
RawFlags(flags) ==
    (((((flags \ {"ICANON", "ECHO", "ECHOE", "ISIG"}) \cup {"IGNPAR"})
        \ {"IXON", "IXOFF", "IXANY", "OPOST"}) \ CookedFlags) \ {"PARENB", "CRTSCTS"})
      \cup {"CSTOPB"}

\* Any other rate is the driver's, in the place of 38400.
Options(flags, baud) ==
    [speed |-> IF baud \in NamedRates THEN baud ELSE 38400, csize |-> 8, flags |-> RawFlags(flags)]

\* The driver's divisor; nothing takes the flag ASYNC_SPD_CUST away again.
CustomRate(baud) == [custom |-> TRUE, custom_divisor |-> BaudBase \div baud]

\* tcsetattr, and for a rate without a name the ioctls, of which each may fail.
SetUp(flags, baud, failure) ==
    /\ baudrate' = baud
    /\ \/ answered' = failure /\ UNCHANGED <<line, driver>>
       \/ /\ line' = Options(flags, baud)
          /\ \/ baud \in NamedRates /\ answered' = "true" /\ UNCHANGED driver
             \/ baud \notin NamedRates /\ answered' = "true" /\ driver' = CustomRate(baud)
             \/ baud \notin NamedRates /\ answered' = failure /\ UNCHANGED driver

\* serial.setup(fd, baud), for the only options it has, "8N1".
serial_setup(baud) == SetUp(line.flags, baud, "error")

\* The same in C: an error ends the program, except one of tcgetattr, after which the
\* attributes are not those of the line.
serial_setup_in_C(baud) ==
    \/ SetUp(line.flags, baud, "exit")
    \/ \E flags \in {{}, TermiosFlags} : SetUp(flags, baud, "exit")

SerialNext ==
    /\ UNCHANGED mapVars
    /\ answered # "exit"
    /\ \E baud \in BaudRates : serial_setup(baud) \/ serial_setup_in_C(baud)

\* The rate at which the driver runs the line.
ActualRate ==
    IF line.speed = 38400 /\ driver.custom THEN BaudBase \div driver.custom_divisor ELSE line.speed

----------------------------------------------------------------------------

\* Device memory is where the caller asked for it, also across pages and through two objects
\* that overlap: what is read is what was put last at those addresses, and no access with a
\* length leaves the mapping, even after its end (l_mmap.c:44).  Without a length, put is
\* not tested and read goes beyond the end of the mapping when it does not start at 0.
MappedAsAsked ==
    /\ overrun => unsized
    /\ \A o \in {x \in Maps : lmm[x] # Unmapped} :
          /\ lua_mmap__len(o) >= asked[o].size
          /\ ~overrun => \A start \in Starts, len \in Lengths :
                LET there == [i \in 1..len |-> meant[asked[o].addr + start + i - 1]]
                    fits == start + len <= lua_mmap__len(o)
                IN /\ lua_mmap_read(o, start, len) = IF fits THEN {there} ELSE {}
                   /\ len \in {1, 2, 4, 8} =>
                         lua_mmap_get(o, start, len) = IF fits THEN {NumberOf(there)} ELSE {}
          /\ ~overrun => lua_mmap_read(o, 0, Omitted) =
                {[i \in 1..lua_mmap__len(o) |-> meant[asked[o].addr + i - 1]]}

\* A line that was set up passes bytes of 8 bits as they are, without parity, at the rate that
\* was asked for: that rate itself if it has a name, the next one the divisor reaches if not.
\* The exceptions: 38400 asked for after a rate without a name stays that rate, as its divisor
\* is never taken back (l_serial.c:109); no rate is above the driver's base.
LineAsAsked ==
    answered = "true" =>
        /\ line.csize = 8
        /\ line.flags \cap (CookedFlags \cup {"IXOFF", "IXANY", "CRTSCTS"}) = {}
        /\ baudrate \in NamedRates /\ ~(baudrate = 38400 /\ driver.custom) => ActualRate = baudrate
        /\ baudrate \notin NamedRates /\ baudrate <= BaudBase =>
              /\ ActualRate >= baudrate
              /\ BaudBase < baudrate * (driver.custom_divisor + 1)

\* Both.
DevicesAsAsked == MappedAsAsked /\ LineAsAsked

DevicesSpec == DevicesInit /\ [][MapNext \/ SerialNext]_deviceVars
================================================================================
