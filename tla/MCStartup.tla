------------------------------ MODULE MCStartup ------------------------------
(***************************************************************************)
(* Startup for TLC: caches, three sections to copy, two constructors, and  *)
(* two descriptors beside the standard three, so that a device can be open *)
(* twice above them and the table can be full.                             *)
(***************************************************************************)
EXTENDS Startup

CONSTANTS null, uart, lcd, rom, missing

MCMaxFd == 5

MCDevices == {null, uart, lcd}
MCFileSystems == {rom}
MCRegister == <<uart, lcd, rom>>
MCSections == {"rwdata", "exceptions", "rodata"}

MCFragile == {lcd, rom}
MCOpenFlags == {{}, {"WRONLY", "NONBLOCK"}}

\* The polling JTAG UART driver has read and write.
MCProvides == [d \in {null, uart, lcd, rom} |->
  IF d = null THEN {"write"} ELSE IF d = rom THEN {"read", "lseek", "fstat"}
  ELSE {"read", "write"}]

\* Input from a device that is not there, errors to one that may not open.
MCApart == [f \in 0 .. 2 |-> IF f = 0 THEN missing ELSE IF f = 1 THEN uart ELSE lcd]
=============================================================================
