-------------------------------- MODULE MCNative --------------------------------
(* The parts written in C, each by itself: a behaviour is one of a single part,  *)
(* and the variables of the others keep their first values.                      *)
EXTENDS Buffer, Codecs, Text, Transactions, Usb, Process, Registry, Compression,
        Devices, Subprocess, Hotplug, TLC

VARIABLE part

NoCall == [call |-> "none"]
NoTransaction == [bus |-> "none"]

Init ==
    /\ part \in {"buffer", "text", "usb", "process", "codecs", "transactions", "registry",
                "compression", "mmap", "serial", "subprocess", "hotplug"}
    /\ BufferInit /\ TextInit /\ UsbInit /\ ProcessInit /\ RegistryInit /\ CompressionInit
    /\ DevicesInit /\ SubprocessInit /\ HotplugInit
    /\ IF part = "codecs" THEN CodecInit ELSE sample = NoCall
    /\ IF part = "transactions" THEN TransactionInit ELSE transaction = NoTransaction
    /\ part # "compression" => ~lc.zlib
    /\ part # "serial" => line.flags = {}
    /\ high => socketed
    /\ part # "hotplug" => plugged_in = 0
    /\ part # "subprocess" => ~high /\ socketed

Next ==
    /\ UNCHANGED <<part, sample, transaction>>
    /\ \/ part = "buffer" /\ BufferNext /\ UNCHANGED <<textVars, usbVars, processVars>>
       \/ part = "text" /\ TextNext /\ UNCHANGED <<bufferVars, usbVars, processVars>>
       \/ part = "usb" /\ UsbNext /\ UNCHANGED <<bufferVars, textVars, processVars>>
       \/ part = "process" /\ ProcessNext /\ UNCHANGED <<bufferVars, textVars, usbVars>>
       \/ part \in {"registry", "compression", "mmap", "serial", "subprocess", "hotplug"}
          /\ UNCHANGED <<bufferVars, textVars, usbVars, processVars>>
    /\ IF part = "registry" THEN RegistryNext ELSE UNCHANGED registryVars
    /\ IF part = "compression" THEN CompressionNext ELSE UNCHANGED compressionVars
    /\ CASE part = "mmap" -> MapNext
         [] part = "serial" -> SerialNext
         [] OTHER -> UNCHANGED deviceVars
    /\ IF part = "subprocess" THEN SubprocessNext ELSE UNCHANGED subprocessVars
    /\ IF part = "hotplug" THEN HotplugNext ELSE UNCHANGED hotplugVars

vars == <<part, sample, transaction, bufferVars, textVars, usbVars, processVars,
          registryVars, compressionVars, deviceVars, subprocessVars, hotplugVars>>

Spec == Init /\ [][Next]_vars /\ UsbFairness /\ SubprocessFairness

Strings(S, n) == UNION {[1..k -> S] : k \in 0..n}

MCWrites == {<<>>, <<"x">>, <<"x", "y">>, <<"y", "x", "x">>}
MCTokens == {<<>>, <<"x">>, <<"x", "y">>}

\* The least and the greatest byte of each class, and the neighbours of what UTF-8 excludes.
MCTextBytes == {1, 127, 128, 143, 144, 159, 160, 191, 192, 193, 194, 223, 224, 225,
                236, 237, 238, 239, 240, 241, 243, 244, 245, 255}

Items == {Item("u"), Sized("u", 2), Item("s"), Sized("s", 2), Sized("c", 2),
          Sized("_", 1), Item("<"), Item(">"), Item(" ")}
Formats == Strings(Items, 2) \cup
    {<<Item("<"), Sized("s", 3), Item("u")>>, <<Item(">"), Sized("s", 3), Item("c")>>,
     <<Item(">"), Sized("u", 1), Sized("s", 5)>>, <<Sized("u", 5)>>}
F(n, k) == [name |-> n, size |-> k]
FieldLists == {<<F("a", 1), F("b", 3), F("c", 2)>>, <<F("a", 1), F("_", 1), F("c", 4)>>,
               <<F("a", 6)>>, <<F("_", 2), F("a", 2), F("b", 1), F("c", 1)>>}
Displacements == {-9, -8, -7, -1, 0, 1, 3, 7, 8, 9}

MCCalls ==
         [call : {"unpack"}, s : Strings(0..3, 3) \cup Strings({0, 3}, 6), format : Formats]
    \cup [call : {"counted"}, s : Strings({0, 3}, 3), size : {1, 2}, le : BOOLEAN]
    \cup [call : {"float"}, s : [1..4 -> 0..2] \cup [1..8 -> {0, 3}], le : BOOLEAN]
    \cup [call : {"unpackbits"}, num : 0..63, fields : FieldLists]
    \cup [call : {"packets"}, s : Strings({0, 9}, 5), id : {0, 15}, flags : {0, 5},
          implicit : BOOLEAN]
    \cup [call : {"strxor"}, s : Strings({0, 9, 15}, 4), key : Strings({3, 12}, 3) \ {<<>>}]
    \cup [call : {"encipher"}, data : {<<>>, <<0, 1>>, <<65535, 256, 4097, 77>>},
          key : {<<1, 2, 3, 4>>, <<0, 65535, 32768, 9999>>}]
    \cup [call : {"crc"}, s : Strings({0, 1, 49, 128, 255}, 2)]
    \cup [call : {"table"}, crc : {0, 65535, 4660}, a : 0..255]
    \cup [call : {"bit32"}, x : {0, 1, 127, 128, 129, 170, 255, -2}, y : {0, 1, 240, 255},
          i : Displacements, w : {1, 3, 8}]

I2cMeant ==
    [addr : {80}, way : {"write"}, data : {<<1>>, <<123, 114>>, <<119, 125, 9>>}]
    \cup [addr : {80, 123}, way : {"read"}, len : {1, 100}]
SpiMeant ==
    {t \in [kind : {"w", "x", "r"}, data : {<<120>>, <<114, 64>>}, len : {3},
            speed : {0, 7, 9}, bits : {0, 8}, delay : {0, 5}, change : BOOLEAN] :
        (t.kind = "r" => t.data = <<120>>) /\ (t.delay > 0 <=> t.change)}
SpiPlain == [kind : {"r"}, data : {<<>>}, len : {1}, speed : {0}, bits : {0}, delay : {0},
             change : {FALSE}]
MCMeant == [bus : {"i2c"}, messages : Strings(I2cMeant, 3)]
   \cup [bus : {"spi"}, transfers : Strings(SpiMeant, 2) \cup Strings(SpiPlain, 5)]

\* Two objects that come to be at the same address.
MCAddressOf == [o \in Objects |-> CHOOSE p \in Pointers : TRUE]

\* Limits so small that blocks end, codes are shortened, chains of candidates are given up and
\* the dictionary goes round within three writes of at most 35 bytes.
MCLimits == [dict |-> 32, match |-> 13, probes |-> 3, few |-> 2, long |-> 9, far |-> 20,
             code |-> 70, block |-> 30, fixed |-> 24, out |-> 60, bits |-> 4]
MCChunks ==
    {<<0, 97>>, [i \in 1..20 |-> 144],
     <<0,97,97,97,144,255,0,0,255,144,97,97,255,255,255,144,0,97,255,0,255,97,0,0,0,97,144,0,
       144,255,255,97,255,144,255>>}

\* Places that begin in the middle of a page, and overlap or meet in their pages.
MCPlaces == {[addr |-> 6, size |-> 4], [addr |-> 16, size |-> 8]}
MCBlocks == {<<3, 2, 1>>}
MCTermiosFlags == CookedFlags \cup {"ECHOE", "IXOFF", "IXANY", "CRTSCTS"}

MCInterfacesOf == [c \in 0..2 |-> IF c = 0 THEN {} ELSE {0, 1}]

\* More than a pipe holds on one output.
MCMaxOut == [out |-> 2, err |-> 1]
=================================================================================
