SPECIFICATION Spec
CONSTANTS
  Byte = {"x", "y"}
  Writes <- MCWrites
  Tokens <- MCTokens
  Counts = {0, 1, 2, 3}
  Sizes = {2, 4}
  Junk = "junk"
  ByteBits = 2
  NativeLittle = TRUE
  NBITS = 8
  CipherBits = 16
  Delta = 31161
  Rounds = 32
  PacketSize = 2
  Calls <- MCCalls
  TextBytes <- MCTextBytes
  Meant <- MCMeant
  I2C_RDRW_IOCTL_MAX_MSGS = 3
  SPI_MAX_TRANSFERS = 3
  Ins = {"i1", "i2"}
  Outs = {"o1"}
  Urbs = {"p", "q"}
  Message = "m"
  MaxErrors = 1
  NoRequest = "none"
  Flags = {"icanon", "echo", "onlcr"}
  ICANON = "icanon"
  ECHO = "echo"
  ONLCR = "onlcr"
  MaxSignals = 4
  Objects = {a, b}
  Pointers = {p, q}
  AddressOf <- MCAddressOf
  Nil = nil
  MainThread = main
  Weak = weak
  Strong = strong
  Links = links
  MaxStack = 2
  MaxArgs = 2
  Alphabet = {0, 97, 144, 255}
  Limits <- MCLimits
  Chunks <- MCChunks
  Pieces = {9}
  Headers = {TRUE, FALSE}
  MaxCalls = 3
  PageSize = 8
  MemorySize = 24
  ByteBase = 4
  Maps = {e, f}
  Places <- MCPlaces
  Starts = {0, 2, 9}
  Lengths = {3, 4, 8}
  Numbers = {16500}
  DataBlocks <- MCBlocks
  Omitted = omitted
  MaxPuts = 2
  TermiosFlags <- MCTermiosFlags
  BaudRates = {9600, 38400, 250000, 460800, 2000000}
  BaudBase = 1500000
  Capacity = 1
  InputLengths = {2}
  MaxOut <- MCMaxOut
  InterfacesOf <- MCInterfacesOf
  Vendor = 1
  Wanted = 2
  Default = 1
  MaxPlugs = 2
INVARIANTS UnpackReads DecodersUndo ChecksumsCheck WordsAreBitSets DecodesText TransactionsAsWritten
  AccountedFor InterruptsHeard TerminalRestored GivesBackWhatWasWritten DevicesAsAsked
  AllReturned HoldsItsInterface Tracks
PROPERTIES IsAQueue AllAnswered FindsWhatWasRegistered Communicates
\* A call that was answered, a decoder that has rejected, a device that is gone and a process
\* that has ended do nothing more.
CHECK_DEADLOCK FALSE
