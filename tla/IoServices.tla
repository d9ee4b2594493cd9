----------------------------- MODULE IoServices -----------------------------
(***************************************************************************)
(* The services that read and write I/O and M registers of the controller  *)
(* (ServiceReadWriteIO.c): the address of a request is judged, turned into *)
(* that of a bit, of the eight bits of a group or of a register, and given *)
(* to mpReadIO or mpWriteIO.                                               *)
(***************************************************************************)
EXTENDS Integers, Sequences, FiniteSetsExt

CONSTANTS AddressWidth,   \* bits of a UINT32
          BitAddresses, GroupAddresses, RegisterAddresses,  \* in requests
          BitValues, GroupValues, RegisterValues,
          MaxRequests     \* bound on the requests of a behaviour

ASSUME AddressAssumption ==
  /\ BitAddresses \cup GroupAddresses \cup RegisterAddresses \subseteq Nat
  /\ AddressWidth \in Nat /\ 2 ^ AddressWidth > 1000999 + 7

VARIABLES io,             \* what the I/O holds, where it is not 0
          request, response, touched,
          requests

ioVars == <<io, request, response, touched, requests>>

AsUint(x) == x % 2 ^ AddressWidth

(* The address ranges of a YRC1000.                                        *)
Readable ==
  {<<10, 5127>>, <<10010, 15127>>, <<20010, 25127>>, <<27010, 29567>>,
   <<37010, 39567>>, <<30010, 35127>>, <<40010, 42567>>, <<50010, 55127>>,
   <<60010, 60647>>, <<70010, 79997>>, <<80010, 85127>>, <<87010, 87207>>,
   <<1000000, 1000999>>}
Writable ==
  {<<10010, 15127>>, <<27010, 29567>>, <<60010, 60647>>, <<1000000, 1000559>>}

InRange(ranges, a) == \E r \in ranges : r[1] <= a /\ a <= r[2]

IsValidAnyDigit(ranges, size, a) ==
  InRange(ranges, IF size = "group" THEN AsUint(a * 10) ELSE a)

(* IsValidReadAddress, IsValidWriteAddress: in bits, no 8 nor 9 at the end.*)
IsValidAddress(ranges, size, a) ==
  LET address == IF size = "group" THEN AsUint(a * 10) ELSE a
  IN  /\ size = "register" \/ address % 10 <= 7
      /\ InRange(ranges, address)

IsValidWriteValue(size, value) ==
  CASE size = "register" -> value <= 65535
    [] size = "group"    -> value <= 255
    [] OTHER             -> value <= 1

(* The register services take a number and an address alike.               *)
RegisterAddress(a) == IF a < 1000000 THEN a + 1000000 ELSE a
Address(size, a) == IF size = "register" THEN RegisterAddress(a) ELSE a

(* The addresses given to the controller, in order.                        *)
Targets(size, a) ==
  IF size = "group" THEN [i \in 1 .. 8 |-> AsUint(AsUint(a * 10) + i - 1)]
  ELSE <<Address(size, a)>>

Held(address) == IF address \in DOMAIN io THEN io[address] ELSE 0

ShiftRight(value, i) == value \div 2 ^ i
HighBitFirst(size, value) ==
  IF size = "group" THEN [i \in 1 .. 8 |-> ShiftRight(value, 8 - i) % 2]
  ELSE <<value>>
Split(size, value) ==
  IF size = "group" THEN [i \in 1 .. 8 |-> ShiftRight(value, i - 1) % 2]
  ELSE <<value>>

(* ioValue[i] << i, or-ed; registers do not fit a bit and overlap.         *)
Or(x, y) ==
  LET bits == {i \in 0 .. 24 : ShiftRight(x, i) % 2 = 1 \/ ShiftRight(y, i) % 2 = 1}
  IN  MapThenSumSet(LAMBDA i : 2 ^ i, bits)
Joined(values) ==
  LET upTo[k \in 0 .. Len(values)] ==
        IF k = 0 THEN 0 ELSE Or(upTo[k - 1], values[k] * 2 ^ (k - 1))
  IN  upTo[Len(values)]

Answer(code, value) == response' = [code |-> code, value |-> value]

(* What the three reading services have in common.  The controller may     *)
(* refuse; the bits of a group are then as they were on the stack.         *)
Read(size, a) ==
  /\ request' = [op |-> "read", size |-> size, address |-> a, value |-> 0]
  /\ IF IsValidAddress(Readable, size, Address(size, a))
       THEN /\ touched' = Targets(size, a)
            /\ \/ Answer("OK", Joined([i \in DOMAIN touched' |-> Held(touched'[i])]))
               \/ \E garbage \in IF size = "group" THEN GroupValues ELSE {0} :
                    Answer("READ_API_ERROR", garbage)
       ELSE touched' = <<>> /\ Answer("READ_ADDRESS_INVALID", 0)
  /\ UNCHANGED io

(* What the three writing services have in common.                         *)
Stored(size, value, to) ==
  [x \in DOMAIN io \cup Range(to) |->
     IF x \in Range(to)
       THEN Split(size, value)[CHOOSE i \in DOMAIN to : to[i] = x] ELSE io[x]]

Write(size, a, value) ==
  /\ request' = [op |-> "write", size |-> size, address |-> a, value |-> value]
  /\ IF ~IsValidAddress(Writable, size, Address(size, a))
       THEN UNCHANGED io /\ touched' = <<>> /\ Answer("WRITE_ADDRESS_INVALID", 0)
     ELSE IF ~IsValidWriteValue(size, value)
       THEN UNCHANGED io /\ touched' = <<>> /\ Answer("WRITE_VALUE_INVALID", 0)
     ELSE /\ touched' = Targets(size, a)
          /\ \/ io' = Stored(size, value, touched') /\ Answer("OK", 0)
             \/ UNCHANGED io /\ Answer("WRITE_API_ERROR", 0)

ReadSingleIO == \E a \in BitAddresses : Read("bit", a)
ReadGroupIO == \E a \in GroupAddresses : Read("group", a)
ReadMRegister == \E a \in RegisterAddresses : Read("register", a)
WriteSingleIO == \E a \in BitAddresses, v \in BitValues : Write("bit", a, v)
WriteGroupIO == \E a \in GroupAddresses, v \in GroupValues : Write("group", a, v)
WriteMRegister ==
  \E a \in RegisterAddresses, v \in RegisterValues : Write("register", a, v)

IoInit ==
  /\ io = <<>> /\ touched = <<>> /\ requests = 0
  /\ request = [op |-> "none", size |-> "bit", address |-> 0, value |-> 0]
  /\ response = [code |-> "OK", value |-> 0]

IoNext ==
  /\ requests < MaxRequests /\ requests' = requests + 1
  /\ \/ ReadSingleIO \/ ReadGroupIO \/ ReadMRegister
     \/ WriteSingleIO \/ WriteGroupIO \/ WriteMRegister

IoSpec == IoInit /\ [][IoNext]_ioVars
-----------------------------------------------------------------------------
(* Whether a request is one the wrap-around of its address takes elsewhere,*)
(* or a group of registers: both are accepted.                             *)
Astray ==
  \/ request.size = "group" /\ request.address * 10 >= 2 ^ AddressWidth
  \/ request.size # "register" /\ touched # <<>> /\ touched[1] >= 1000000

(* Apart from these, whatever number a client sends as an address, what is *)
(* touched lies within one range the service is for, bits are real bits,   *)
(* and a group is the eight bits 0 to 7 of one byte.                       *)
AccessConfined ==
  ~Astray =>
    LET ranges == IF request.op = "write" THEN Writable ELSE Readable IN
    \A r \in ranges : touched # <<>> /\ InRange({r}, touched[1]) =>
      \A i \in DOMAIN touched :
        /\ InRange({r}, touched[i])
        /\ request.size # "register" => touched[i] % 10 <= 7
        /\ request.size = "group" =>
             touched[i] % 10 = i - 1 /\ touched[i] \div 10 = touched[1] \div 10

(* A client that reads back what it has just written gets what it wrote,   *)
(* from bits, groups and registers, a register by its number or its        *)
(* address; and bit by bit what it wrote as a group, the lowest bit first. *)
ReadBack ==
  [][ LET sizes == <<request.size, request'.size>>
          written == Address(request.size, request.address)
          read == Address(request'.size, request'.address)
      IN
      request.op = "write" /\ response.code = "OK"
      /\ request'.op = "read" /\ response'.code = "OK" =>
        /\ sizes[1] = sizes[2] /\ read = written =>
             response'.value = request.value
        /\ sizes = <<"group", "bit">> /\ request'.address \div 10 = request.address
           /\ ~Astray =>
             response'.value = ShiftRight(request.value, request'.address % 10) % 2
    ]_ioVars
=============================================================================
