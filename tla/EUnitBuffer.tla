----------------------------- MODULE EUnitBuffer -----------------------------
(***************************************************************************)
(* The result buffer of the eUnit framework (src/eUnit/eUnit/eUnit.c), the *)
(* part that runs on the target.  Every assertion that fails, every test   *)
(* that ends well and every name or message is appended to                 *)
(* test_result_buffer; when a record does not fit, the target stops in     *)
(* MessageToDebugger and the debugger drains the buffer before it lets the *)
(* target go on.                                                           *)
(*                                                                         *)
(* The target is one thread, so an API call is one action; a call that has *)
(* to stop in MessageToDebugger ends with message # noMessage and is       *)
(* completed by the debugger's ContinueAfterMessage or ReturnFromFunction. *)
(***************************************************************************)
EXTENDS Integers, Sequences

CONSTANTS
  SIZE_OF_RESULT_BUFFER,  \* the array has SIZE_OF_RESULT_BUFFER + 1 bytes
  Top,                    \* the last address behind the array that is modelled
  Foreign,                \* what the bytes around the array hold (other variables)
  Levels,                 \* the test levels the debugger may have configured
  IntAsserts,             \* the argument tuples CompareInt is called with
  MemAsserts,             \* the argument tuples byteComp is called with
  Strings                 \* the strings with their kind

(* typeOfData *)
testNotRun  == 0
testSucceed == 1
testFailed  == 2
testName    == 3

(* amountOfInfo *)
justSuccess == 0
testNames   == 1
testResults == 2
lineNumbers == 3

(* testTypeFlags *)
typeNotDef    == 0
typeCompInt8  == 1
typeCompInt16 == 2
typeCompInt32 == 3
typeCompByte  == 5
typeCompBool  == 6
typeTimeOut   == 16
typeCompEqual == 32
typeCompArray == 128

(* typeOfString *)
ofTestName   == 0
ofTestFile   == 1
ofTestClass  == 2
ofGdbMessage == 3

Byte == 0..255
SizeofBuffer == SIZE_OF_RESULT_BUFFER + 1
Inside == 0..SIZE_OF_RESULT_BUFFER   \* the addresses of the array
Addresses == -1..Top                 \* and of the bytes around it

IntAssert == [is: Int, should: Int, size: Nat, type: Byte, eq: BOOLEAN,
              line: Int, junk: Byte]
MemAssert == [is: Seq(Byte), should: Seq(Byte), line: Int]
NamedString == [type: 0..3, text: Seq(Byte)]

ASSUME BufferAssumption ==
  /\ SIZE_OF_RESULT_BUFFER \in Nat
  /\ Top \in Nat /\ Top >= SIZE_OF_RESULT_BUFFER + 2
  /\ Foreign \in Byte
  /\ Levels \subseteq 0..3

ASSUME InputAssumption ==
  /\ IntAsserts \subseteq IntAssert
  /\ MemAsserts \subseteq MemAssert
  /\ Strings \subseteq NamedString

noMessage     == "noMessage"
bufferIsFull  == "bufferIsFull"
bufferToSmall == "bufferToSmall"
finishAllTest == "finishAllTest"
Messages == {bufferIsFull, bufferToSmall, finishAllTest}

VARIABLES
  level,     \* test_amount_of_stored_data
  memory,    \* the bytes at test_result_buffer + a, for a in Addresses
  index,     \* test_result_index
  bitShift,  \* where the next packed status goes in the byte before index
  message,   \* the argument of MessageToDebugger the target is stopped in
  rest       \* the record the stopped call still has to store or to show

bufferVars == <<level, memory, index, bitShift, message, rest>>
-----------------------------------------------------------------------------
(* Records: what one call asks the buffer to store. *)

nothing == [kind |-> "nothing"]

(* The little-endian bytes memcpy takes from an integer parameter; a size  *)
(* beyond the four bytes of the parameter reads whatever is behind it.     *)
IntBytes(v, size, junk) ==
  [k \in 1..size |-> CASE k = 1 -> v % 256
                       [] k = 2 -> (v \div 256) % 256
                       [] k = 3 -> (v \div 65536) % 256
                       [] k = 4 -> (v \div 16777216) % 256
                       [] OTHER -> junk]

(* The bits of two 2-bit fields. *)
Or2(x, y) == (IF (x % 2) + (y % 2) > 0 THEN 1 ELSE 0)
             + (IF (x \div 2) + (y \div 2) > 0 THEN 2 ELSE 0)

(* CompareInt: the type flags that describe the operands. *)
CompareFlags(a) ==
  LET type == IF a.type = typeCompBool THEN typeCompInt8 ELSE a.type
      low  == CASE a.size = 1 -> typeCompInt8
                [] a.size = 2 -> typeCompInt16
                [] a.size = 4 -> typeCompInt32
                [] OTHER -> typeNotDef
  IN  type - (type % 4) + Or2(type % 4, low)

(* CompareInt: a true boolean is compared as 1. *)
ComparedInt(a) == IF a.type = typeCompBool /\ a.is > 0 THEN 1 ELSE a.is

IntHolds(a) == a.eq <=> ComparedInt(a) = a.should

FailedInt(a) ==
  [kind |-> "result", status |-> testFailed, flags |-> CompareFlags(a),
   is |-> IntBytes(ComparedInt(a), a.size, a.junk),
   should |-> IntBytes(a.should, a.size, a.junk),
   line |-> IntBytes(a.line, 4, 0)]

(* The assertion the debugger has the target fail when a test takes too long. *)
TimeoutAssert ==
  [is |-> 0, should |-> 1, size |-> 1, type |-> typeTimeOut, eq |-> TRUE,
   line |-> -1, junk |-> 0]

MemHolds(a) == a.is = a.should

FailedMem(a) ==
  [kind |-> "result", status |-> testFailed, flags |-> typeCompArray + typeCompByte,
   is |-> a.is, should |-> a.should, line |-> IntBytes(a.line, 4, 0)]

Success ==
  [kind |-> "result", status |-> testSucceed, flags |-> typeNotDef,
   is |-> << >>, should |-> << >>, line |-> << >>]

StringRecord(s) == [kind |-> "string", type |-> s.type, text |-> s.text]

isTestSizeKnown(flags) ==
  flags % 16 \in {typeCompInt8, typeCompInt16, typeCompInt32}

(* The bytes addResult reserves for a result. *)
calcResultLength(res) ==
  IF res.status = testFailed /\ level >= testNames
  THEN 2 + Len(res.is) + 2 * Len(res.should)
         + (IF isTestSizeKnown(res.flags) THEN 0 ELSE 8)
         + (IF level = lineNumbers THEN 4 ELSE 0)
  ELSE 1

(* Mutant: no level reserves the byte of the status. *)
HeaderOfFive(s) == Len(s.text) + 5

(* The bytes addStringToBuffer reserves for a string. *)
StringLength(s) == Len(s.text) + (IF level >= lineNumbers THEN 6 ELSE 5)

(* Does this level ask for this kind of string? *)
IsRequested(s) ==
  \/ s.type \in {ofTestName, ofTestClass, ofGdbMessage} /\ level >= testNames
  \/ level >= lineNumbers
-----------------------------------------------------------------------------
(* Writing to the buffer. *)

Skip == -1   \* a byte the code steps over without writing it

(* The size field: one byte is written and the index moves by four. *)
SizeField(bytes) == <<Len(bytes) % 256, Skip, Skip, Skip>>

Field(bytes, known) == IF known THEN bytes ELSE SizeField(bytes) \o bytes

FailedBytes(res) ==
  LET known == isTestSizeKnown(res.flags)
  IN  <<testFailed>> \o (IF level = lineNumbers THEN res.line ELSE << >>)
      \o <<res.flags>> \o Field(res.is, known) \o Field(res.should, known)

(* 2^shift *)
Weight(shift) ==
  CASE shift = 0 -> 1 [] shift = 2 -> 4 [] shift = 4 -> 16 [] OTHER -> 64

(* byte |= value << shift *)
OrAt(byte, value, shift) ==
  LET old == (byte \div Weight(shift)) % 4
  IN  byte + (Or2(old, value) - old) * Weight(shift)

StringBytes(s, first) ==
  <<OrAt(first, testName, 0), s.type>> \o SizeField(s.text) \o s.text

(* Mutant: the index is set to the length of the record. *)
StoreAtStart(bytes, m, i) ==
  /\ i + Len(bytes) <= Top + 1
  /\ memory' = [a \in Addresses |->
                  IF a \in i..(i + Len(bytes) - 1) /\ bytes[a - i + 1] # Skip
                  THEN bytes[a - i + 1] ELSE m[a]]
  /\ index' = Len(bytes)
  /\ bitShift' = 0

(* Store a byte record at the index i of the memory m. *)
Store(bytes, m, i) ==
  /\ i + Len(bytes) <= Top + 1
  /\ memory' = [a \in Addresses |->
                  IF a \in i..(i + Len(bytes) - 1) /\ bytes[a - i + 1] # Skip
                  THEN bytes[a - i + 1] ELSE m[a]]
  /\ index' = i + Len(bytes)
  /\ bitShift' = 0

(* Mutant: the shift is not reset after the fourth status. *)
PackOnAndOn(status, m, i, shift) ==
  LET j == IF shift = 0 THEN i + 1 ELSE i
  IN  /\ j <= Top + 1
      /\ memory' = [m EXCEPT ![j - 1] = OrAt(@, status, shift)]
      /\ index' = j
      /\ bitShift' = shift + 2

(* coppySuccess: pack a status into two bits, opening a byte if need be. *)
Pack(status, m, i, shift) ==
  LET j == IF shift = 0 THEN i + 1 ELSE i
  IN  /\ j <= Top + 1
      /\ memory' = [m EXCEPT ![j - 1] = OrAt(@, status, shift)]
      /\ index' = j
      /\ bitShift' = (shift + 2) % 8

IsPacked(res) == level \in {justSuccess, testNames} \/ res.status = testSucceed

(* coppyResultToBuffer and the second half of addStringToBuffer. *)
Write(rec, m, i, shift) ==
  \/ /\ rec.kind = "result" /\ IsPacked(rec)
     /\ Pack(rec.status, m, i, shift)
  \/ /\ rec.kind = "result" /\ ~IsPacked(rec)
     /\ Store(FailedBytes(rec), m, i)
  \/ /\ rec.kind = "string" /\ i \in Addresses
     /\ Store(StringBytes(rec, m[i]), m, i)

(* MessageToDebugger: the target stops and waits for the debugger. *)
MessageToDebugger(msg, rec) ==
  /\ message' = msg
  /\ rest' = rec
  /\ UNCHANGED <<memory, index>>

(* sizeof(test_result_buffer) - test_result_index is unsigned: an index    *)
(* beyond the array makes it huge.                                         *)
IsFull(length) == index <= SizeofBuffer /\ length >= SizeofBuffer - index

addResult(res) ==
  LET length == calcResultLength(res)
  IN  \/ /\ length >= SIZE_OF_RESULT_BUFFER
         /\ MessageToDebugger(bufferToSmall, res)
         /\ UNCHANGED bitShift
      \/ /\ length < SIZE_OF_RESULT_BUFFER
         /\ \/ IsFull(length)
            \/ IsPacked(res) /\ bitShift = 0 /\ index >= SIZE_OF_RESULT_BUFFER
         /\ MessageToDebugger(bufferIsFull, res)
         /\ UNCHANGED bitShift
      \/ /\ length < SIZE_OF_RESULT_BUFFER
         /\ ~IsFull(length)
         /\ ~(IsPacked(res) /\ bitShift = 0 /\ index >= SIZE_OF_RESULT_BUFFER)
         /\ Write(res, memory, index, bitShift)
         /\ UNCHANGED <<message, rest>>

(* Mutant: a full buffer is drained before the size of the string is tested. *)
FullBeforeTooSmall(s) ==
  LET length == StringLength(s)
  IN  \/ /\ length + index > SizeofBuffer /\ index > 0
         /\ MessageToDebugger(bufferIsFull, StringRecord(s))
         /\ bitShift' = 0
      \/ /\ length > SizeofBuffer /\ index = 0
         /\ MessageToDebugger(bufferToSmall, StringRecord(s))
         /\ bitShift' = 0
      \/ /\ length + index <= SizeofBuffer
         /\ Write(StringRecord(s), memory, index, 0)
         /\ UNCHANGED <<message, rest>>

addStringToBuffer(s) ==
  LET length == StringLength(s)
  IN  \/ /\ length > SizeofBuffer
         /\ MessageToDebugger(bufferToSmall, StringRecord(s))
         /\ bitShift' = 0
      \/ /\ length <= SizeofBuffer /\ length + index > SizeofBuffer
         /\ MessageToDebugger(bufferIsFull, StringRecord(s))
         /\ bitShift' = 0
      \/ /\ length + index <= SizeofBuffer
         /\ Write(StringRecord(s), memory, index, 0)
         /\ UNCHANGED <<message, rest>>
-----------------------------------------------------------------------------
(* The calls of the test code.  A comparison that holds changes nothing. *)

Running == message = noMessage

CompareInt(a) ==
  /\ Running /\ ~IntHolds(a)
  /\ addResult(FailedInt(a))
  /\ UNCHANGED level

byteComp(a) ==
  /\ Running /\ ~MemHolds(a)
  /\ addResult(FailedMem(a))
  /\ UNCHANGED level

testCaseSuccess ==
  /\ Running
  /\ addResult(Success)
  /\ UNCHANGED level

(* addTestName, addTestClass, addTestFileName and printOverGdb *)
AddString(s) ==
  /\ Running /\ IsRequested(s)
  /\ addStringToBuffer(s)
  /\ UNCHANGED level

FinishAllTest ==
  /\ Running
  /\ MessageToDebugger(finishAllTest, nothing)
  /\ UNCHANGED <<level, bitShift>>
-----------------------------------------------------------------------------
(* The debugger lets the target go on. *)

(* Mutants: one byte too many is cleared; the first one is not. *)
ClearedTooFar == [a \in Addresses |-> IF a \in 0..(index + 1) THEN 0 ELSE memory[a]]
ClearedFromOne == [a \in Addresses |-> IF a \in 1..index THEN 0 ELSE memory[a]]

(* The end of MessageToDebugger clears the buffer up to and including the  *)
(* byte at the index.                                                      *)
Cleared == [a \in Addresses |-> IF a \in 0..index THEN 0 ELSE memory[a]]

(* "continue": the rest of MessageToDebugger and of its caller runs. *)
ContinueAfterMessage ==
  /\ message \in {bufferIsFull, finishAllTest}
  /\ \/ rest # nothing /\ Write(rest, Cleared, 0, 0)
     \/ rest = nothing /\ memory' = Cleared /\ index' = 0 /\ bitShift' = 0
  /\ message' = noMessage
  /\ rest' = nothing
  /\ UNCHANGED level

(* The debugger returns from MessageToDebugger, so that the end of it never *)
(* runs: for bufferToSmall, where it clears the buffer itself, and for a    *)
(* finishAllTest that finds the buffer empty.  What the functions it        *)
(* returns to still do leaves the buffer alone.                            *)
ReturnFromFunction ==
  /\ message = bufferToSmall \/ (message = finishAllTest /\ index = 0)
  /\ memory' = [a \in Addresses |-> IF a \in 0..(index - 1) THEN 0 ELSE memory[a]]
  /\ index' = 0
  /\ message' = noMessage
  /\ rest' = nothing
  /\ UNCHANGED <<level, bitShift>>
-----------------------------------------------------------------------------
BufferInit ==
  /\ level \in Levels
  /\ memory = [a \in Addresses |-> IF a \in Inside THEN 0 ELSE Foreign]
  /\ index = 0
  /\ bitShift = 0
  /\ message = noMessage
  /\ rest = nothing

BufferNext ==
  \/ \E a \in IntAsserts \union {TimeoutAssert} : CompareInt(a)
  \/ \E a \in MemAsserts : byteComp(a)
  \/ testCaseSuccess
  \/ \E s \in Strings : AddString(s)
  \/ FinishAllTest
  \/ ContinueAfterMessage
  \/ ReturnFromFunction

BufferSpec == BufferInit /\ [][BufferNext]_bufferVars
-----------------------------------------------------------------------------
FailedResult == [kind: {"result"}, status: {testFailed}, flags: Byte,
                 is: Seq(Byte), should: Seq(Byte), line: [1..4 -> Byte]]
Result == {Success} \union FailedResult
StringRec == [kind: {"string"}, type: 0..3, text: Seq(Byte)]

(* Type correctness. *)
BufferTypeOK ==
  /\ level \in 0..3
  /\ memory \in [Addresses -> Byte]
  /\ index \in 0..(Top + 1)
  /\ bitShift \in {0, 2, 4, 6}
  /\ message \in Messages \union {noMessage}
  /\ rest \in Result \union StringRec \union {nothing}
-----------------------------------------------------------------------------
(* Properties *)

(* No call and no clearing writes a byte outside test_result_buffer.       *)
OutsideUntouched == \A a \in Addresses \ Inside : memory[a] = Foreign

(* Every record ends inside the array, and so the unsigned difference in   *)
(* addResult (eUnit.c:368) never wraps.  The levels testNames and          *)
(* testResults are left out: there addStringToBuffer reserves five bytes   *)
(* for a header of six.                                                    *)
RecordsInside == level \in {justSuccess, lineNumbers} => index <= SizeofBuffer

(* A call that waits in MessageToDebugger for the buffer to be drained     *)
(* fits into the drained buffer, and a call that asks the debugger to read *)
(* its record would not: the code tests the size once, before it stops,    *)
(* and stores without a further test after it (eUnit.c:363-389, 441-454).  *)
StoppedCallFits ==
  /\ message = bufferIsFull =>
       \/ rest \in Result /\ calcResultLength(rest) < SIZE_OF_RESULT_BUFFER
       \/ rest \in StringRec /\ StringLength(rest) <= SizeofBuffer /\ level # justSuccess
  /\ message = bufferToSmall =>
       \/ rest \in Result /\ calcResultLength(rest) >= SIZE_OF_RESULT_BUFFER
       \/ rest \in StringRec /\ StringLength(rest) > SizeofBuffer /\ level # justSuccess
  /\ message \in {noMessage, finishAllTest} => rest = nothing

(* coppySuccess and addStringToBuffer store with |= and step over three    *)
(* bytes of a size field: both need every byte behind the index, and the   *)
(* free bits of the last packed byte, to be zero.                          *)
TailIsClean ==
  /\ \A a \in Inside : a >= index => memory[a] = 0
  /\ bitShift # 0 /\ index \in 1..SizeofBuffer => memory[index - 1] < Weight(bitShift)

(* The index only goes back while the target is stopped in                 *)
(* MessageToDebugger: no stored result is overwritten before the debugger  *)
(* had the chance to read it.                                              *)
OnlyDrainedWhenStopped == [][index' < index => message # noMessage]_bufferVars
=============================================================================
