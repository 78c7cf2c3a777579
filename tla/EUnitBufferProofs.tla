-------------------------- MODULE EUnitBufferProofs --------------------------
(***************************************************************************)
(* Proofs about EUnitBuffer, for every buffer size, every set of inputs    *)
(* and every order of calls.                                               *)
(***************************************************************************)
EXTENDS EUnitBuffer, SequenceTheorems, TLAPS

USE DEF testNotRun, testSucceed, testFailed, testName,
        justSuccess, testNames, testResults, lineNumbers,
        typeNotDef, typeCompInt8, typeCompInt16, typeCompInt32, typeCompByte,
        typeCompBool, typeTimeOut, typeCompEqual, typeCompArray,
        ofTestName, ofTestFile, ofTestClass, ofGdbMessage

Stored == Byte \union {Skip}   \* what a record may hold at a position

LEMMA ModIsByte == \A n \in Int : n % 256 \in Byte
BY DEF Byte

(* Sequences are as long as their domain says. *)
LEMMA LenFromDomain ==
  ASSUME NEW S, NEW n \in Nat, NEW f \in [1..n -> S]
  PROVE  f \in Seq(S) /\ Len(f) = n
<1>1. f \in Seq(S) BY SeqDef
<1>2. Len(f) \in Nat /\ DOMAIN f = 1..Len(f) BY <1>1, LenProperties
<1>3. \A i \in Nat : i \in 1..n <=> i \in 1..Len(f) BY <1>2
<1>4. n <= Len(f) BY <1>2, <1>3
<1>5. Len(f) <= n BY <1>2, <1>3
<1> QED BY <1>1, <1>2, <1>4, <1>5

(* Or-ing two bits into a byte gives a byte. *)
LEMMA OrAtIsByte ==
  ASSUME NEW b \in Byte, NEW v \in 0..3, NEW s \in {0, 2, 4, 6}
  PROVE  OrAt(b, v, s) \in Byte
<1>1. CASE s = 0 BY <1>1 DEF OrAt, Or2, Weight, Byte
<1>2. CASE s = 2 BY <1>2 DEF OrAt, Or2, Weight, Byte
<1>3. CASE s = 4 BY <1>3 DEF OrAt, Or2, Weight, Byte
<1>4. CASE s = 6 BY <1>4 DEF OrAt, Or2, Weight, Byte
<1> QED BY <1>1, <1>2, <1>3, <1>4

(* The bytes of an integer are bytes, as many as were asked for. *)
LEMMA IntBytesType ==
  ASSUME NEW v \in Int, NEW n \in Nat, NEW junk \in Byte
  PROVE  /\ IntBytes(v, n, junk) \in [1..n -> Byte]
         /\ IntBytes(v, n, junk) \in Seq(Byte)
<1>1. IntBytes(v, n, junk) \in [1..n -> Byte]
  BY DEF IntBytes, Byte
<1> QED BY <1>1, SeqDef

LEMMA CompareFlagsIsByte ==
  ASSUME NEW a \in IntAssert
  PROVE  CompareFlags(a) \in Byte
BY DEF IntAssert, CompareFlags, Or2, Byte

(* The records the calls produce. *)
LEMMA FailedIntType ==
  ASSUME NEW a \in IntAsserts \union {TimeoutAssert}
  PROVE  FailedInt(a) \in FailedResult
<1>1. a \in IntAssert
  <2>1. CASE a \in IntAsserts BY <2>1, InputAssumption
  <2>2. CASE a = TimeoutAssert
    <3>1. 0 \in Byte /\ typeTimeOut \in Byte /\ -1 \in Int BY DEF Byte
    <3> QED BY <2>2, <3>1 DEF IntAssert, TimeoutAssert
  <2> QED BY <2>1, <2>2
<1>2. ComparedInt(a) \in Int /\ a.should \in Int /\ a.line \in Int
      /\ a.size \in Nat /\ a.junk \in Byte /\ 0 \in Byte
  BY <1>1 DEF IntAssert, ComparedInt, Byte
<1>3. CompareFlags(a) \in Byte BY <1>1, CompareFlagsIsByte
<1>4. /\ IntBytes(ComparedInt(a), a.size, a.junk) \in Seq(Byte)
      /\ IntBytes(a.should, a.size, a.junk) \in Seq(Byte)
      /\ IntBytes(a.line, 4, 0) \in [1..4 -> Byte]
  BY <1>2, IntBytesType
<1> QED BY <1>3, <1>4 DEF FailedInt, FailedResult

LEMMA FailedMemType ==
  ASSUME NEW a \in MemAsserts
  PROVE  FailedMem(a) \in FailedResult
<1>1. a \in MemAssert BY InputAssumption
<1>2. IntBytes(a.line, 4, 0) \in [1..4 -> Byte]
  <2>1. a.line \in Int /\ 0 \in Byte BY <1>1 DEF MemAssert, Byte
  <2> QED BY <2>1, IntBytesType
<1>3. typeCompArray + typeCompByte \in Byte BY DEF Byte
<1> QED BY <1>1, <1>2, <1>3 DEF FailedMem, FailedResult, MemAssert

LEMMA StringRecordType ==
  ASSUME NEW s \in Strings
  PROVE  StringRecord(s) \in StringRec
BY InputAssumption DEF NamedString, StringRecord, StringRec

LEMMA StoredConcat ==
  ASSUME NEW s \in Seq(Stored), NEW t \in Seq(Stored)
  PROVE  s \o t \in Seq(Stored) /\ Len(s \o t) = Len(s) + Len(t)
BY ConcatProperties

(* A size field is four positions. *)
LEMMA SizeFieldType ==
  ASSUME NEW bytes \in Seq(Byte)
  PROVE  SizeField(bytes) \in Seq(Stored) /\ Len(SizeField(bytes)) = 4
<1>1. Len(bytes) \in Nat BY LenProperties
<1>2. Len(bytes) % 256 \in Stored
  BY <1>1, ModIsByte DEF Stored
<1>3. Skip \in Stored BY DEF Stored
<1> QED BY <1>2, <1>3 DEF SizeField

(* A field is its content and, if its size is not known from the type, a   *)
(* size field.                                                             *)
LEMMA FieldType ==
  ASSUME NEW bytes \in Seq(Byte), NEW known \in BOOLEAN
  PROVE  /\ Field(bytes, known) \in Seq(Stored)
         /\ Len(Field(bytes, known)) = Len(bytes) + (IF known THEN 0 ELSE 4)
<1>1. Len(bytes) \in Nat BY LenProperties
<1>2. SizeField(bytes) \in Seq(Stored) /\ Len(SizeField(bytes)) = 4
  BY SizeFieldType
<1>3. bytes \in Seq(Stored)
  BY SeqMonotonic DEF Stored
<1>4. /\ SizeField(bytes) \o bytes \in Seq(Stored)
      /\ Len(SizeField(bytes) \o bytes) = 4 + Len(bytes)
  BY <1>2, <1>3, StoredConcat
<1> QED BY <1>1, <1>3, <1>4 DEF Field

(* A failed result takes no more bytes than addResult has reserved; the    *)
(* size of "should" is counted twice, so that it takes fewer.              *)
LEMMA FailedBytesFit ==
  ASSUME level \in 0..3, level >= testResults, NEW res \in FailedResult
  PROVE  /\ FailedBytes(res) \in Seq(Stored)
         /\ Len(FailedBytes(res)) <= calcResultLength(res)
         /\ Len(FailedBytes(res)) \in Nat
<1> DEFINE known == isTestSizeKnown(res.flags)
           line == IF level = lineNumbers THEN res.line ELSE << >>
           extra == IF known THEN 0 ELSE 4
<1>1. /\ res.is \in Seq(Byte) /\ res.should \in Seq(Byte)
      /\ res.flags \in Byte /\ res.line \in [1..4 -> Byte] /\ res.status = testFailed
  BY DEF FailedResult
<1>2. Len(res.is) \in Nat /\ Len(res.should) \in Nat
  BY <1>1, LenProperties
<1>3. known \in BOOLEAN BY DEF isTestSizeKnown
<1>4. /\ Field(res.is, known) \in Seq(Stored)
      /\ Len(Field(res.is, known)) = Len(res.is) + extra
  BY <1>1, <1>3, FieldType
<1>5. /\ Field(res.should, known) \in Seq(Stored)
      /\ Len(Field(res.should, known)) = Len(res.should) + extra
  BY <1>1, <1>3, FieldType
<1>6. line \in Seq(Stored) /\ Len(line) = IF level = lineNumbers THEN 4 ELSE 0
  <2>1. res.line \in Seq(Byte) /\ Len(res.line) = 4
    BY <1>1, LenFromDomain
  <2>2. res.line \in Seq(Stored) BY <2>1, SeqMonotonic DEF Stored
  <2>3. << >> \in Seq(Stored) /\ Len(<< >>) = 0 BY EmptySeq
  <2>4. CASE level = lineNumbers BY <2>1, <2>2, <2>4
  <2>5. CASE level # lineNumbers BY <2>3, <2>5
  <2> QED BY <2>4, <2>5
<1>7. <<testFailed>> \in Seq(Stored) /\ <<res.flags>> \in Seq(Stored)
      /\ Len(<<testFailed>>) = 1 /\ Len(<<res.flags>>) = 1
  BY <1>1 DEF Stored, Byte
<1>8. /\ <<testFailed>> \o line \in Seq(Stored)
      /\ Len(<<testFailed>> \o line) = 1 + Len(line)
  BY <1>6, <1>7, StoredConcat
<1>9. /\ <<testFailed>> \o line \o <<res.flags>> \in Seq(Stored)
      /\ Len(<<testFailed>> \o line \o <<res.flags>>) = 2 + Len(line)
  BY <1>6, <1>7, <1>8, StoredConcat
<1>10. known => extra = 0 BY DEF isTestSizeKnown
<1>11. ~known => extra = 4 BY DEF isTestSizeKnown
<1>12. FailedBytes(res) = <<testFailed>> \o line \o <<res.flags>>
                            \o Field(res.is, known) \o Field(res.should, known)
  BY DEF FailedBytes
<1>13. calcResultLength(res) = 2 + Len(res.is) + 2 * Len(res.should)
                                 + (IF known THEN 0 ELSE 8)
                                 + (IF level = lineNumbers THEN 4 ELSE 0)
  <2>1. level >= testNames OBVIOUS
  <2> QED BY <1>1, <2>1, Zenon DEF calcResultLength
<1> DEFINE head == <<testFailed>> \o line \o <<res.flags>>
<1> HIDE DEF known, line, extra, head
<1>14. head \in Seq(Stored) /\ Len(head) = 2 + Len(line)
  BY <1>9 DEF head
<1>15. /\ head \o Field(res.is, known) \in Seq(Stored)
       /\ Len(head \o Field(res.is, known)) = Len(head) + Len(Field(res.is, known))
  BY <1>4, <1>14, StoredConcat
<1>16. /\ head \o Field(res.is, known) \o Field(res.should, known) \in Seq(Stored)
       /\ Len(head \o Field(res.is, known) \o Field(res.should, known))
            = Len(head \o Field(res.is, known)) + Len(Field(res.should, known))
  BY <1>5, <1>15, StoredConcat
<1>17. FailedBytes(res) = head \o Field(res.is, known) \o Field(res.should, known)
  BY <1>12 DEF head
<1>18. extra \in {0, 4} BY DEF extra
<1>19. Len(line) \in {0, 4} BY <1>6
<1>20. /\ FailedBytes(res) \in Seq(Stored)
       /\ Len(FailedBytes(res)) = ((2 + Len(line)) + (Len(res.is) + extra))
                                    + (Len(res.should) + extra)
  BY <1>4, <1>5, <1>14, <1>15, <1>16, <1>17
<1>21. calcResultLength(res) = 2 + Len(res.is) + 2 * Len(res.should)
                                 + 2 * extra + Len(line)
  <2>1. 2 * extra = IF known THEN 0 ELSE 8 BY DEF extra
  <2> QED BY <1>6, <1>13, <2>1
<1>22. \A i, s \in Nat, x, l \in {0, 4} :
         /\ ((2 + l) + (i + x)) + (s + x) \in Nat
         /\ ((2 + l) + (i + x)) + (s + x) <= 2 + i + 2 * s + 2 * x + l
  OBVIOUS
<1> QED BY <1>2, <1>18, <1>19, <1>20, <1>21, <1>22, Zenon
(* A string takes six positions more than its text. *)
LEMMA StringBytesType ==
  ASSUME NEW s \in StringRec, NEW first \in Byte
  PROVE  /\ StringBytes(s, first) \in Seq(Stored)
         /\ Len(StringBytes(s, first)) = 6 + Len(s.text)
         /\ Len(s.text) \in Nat
<1>1. s.text \in Seq(Byte) /\ s.type \in 0..3 BY DEF StringRec
<1>2. Len(s.text) \in Nat BY <1>1, LenProperties
<1>3. s.text \in Seq(Stored) BY <1>1, SeqMonotonic DEF Stored
<1>4. SizeField(s.text) \in Seq(Stored) /\ Len(SizeField(s.text)) = 4
  BY <1>1, SizeFieldType
<1> DEFINE head == <<OrAt(first, testName, 0), s.type>>
<1>5. head \in Seq(Stored) /\ Len(head) = 2
  <2>1. testName \in 0..3 /\ 0 \in {0, 2, 4, 6} OBVIOUS
  <2>2. OrAt(first, testName, 0) \in Stored BY <2>1, OrAtIsByte DEF Stored
  <2>3. s.type \in Stored BY <1>1 DEF Stored, Byte
  <2> QED BY <2>2, <2>3
<1> HIDE DEF head
<1>6. /\ head \o SizeField(s.text) \in Seq(Stored)
      /\ Len(head \o SizeField(s.text)) = 2 + 4
  BY <1>4, <1>5, StoredConcat
<1>7. /\ head \o SizeField(s.text) \o s.text \in Seq(Stored)
      /\ Len(head \o SizeField(s.text) \o s.text) = 2 + 4 + Len(s.text)
  BY <1>3, <1>6, StoredConcat
<1>8. StringBytes(s, first) = head \o SizeField(s.text) \o s.text
  BY DEF StringBytes, head
<1>9. 2 + 4 + Len(s.text) = 6 + Len(s.text) BY <1>2
<1> QED BY <1>2, <1>7, <1>8, <1>9, Zenon
-----------------------------------------------------------------------------
(* What the two ways of writing do to the buffer. *)

LEMMA StoreEffect ==
  ASSUME NEW bytes \in Seq(Stored), NEW m \in [Addresses -> Byte],
         NEW i \in 0..(Top + 1), Store(bytes, m, i)
  PROVE  /\ memory' \in [Addresses -> Byte]
         /\ index' \in 0..(Top + 1) /\ index' = i + Len(bytes)
         /\ bitShift' = 0
         /\ \A a \in Addresses : a < i \/ a >= index' => memory'[a] = m[a]
<1>1. Len(bytes) \in Nat /\ DOMAIN bytes = 1..Len(bytes) BY LenProperties
<1>2. index' = i + Len(bytes) /\ i + Len(bytes) <= Top + 1 /\ bitShift' = 0
  BY DEF Store
<1>3. index' \in 0..(Top + 1)
  BY <1>1, <1>2, BufferAssumption
<1>4. memory' = [a \in Addresses |->
                   IF a \in i..(i + Len(bytes) - 1) /\ bytes[a - i + 1] # Skip
                   THEN bytes[a - i + 1] ELSE m[a]]
  BY DEF Store
<1>5. \A a \in Addresses : a \in Int BY BufferAssumption DEF Addresses
<1>6. ASSUME NEW a \in Addresses, a \in i..(i + Len(bytes) - 1),
             bytes[a - i + 1] # Skip
      PROVE  bytes[a - i + 1] \in Byte
  <2>1. a - i + 1 \in 1..Len(bytes) BY <1>1, <1>5, <1>6
  <2>2. bytes[a - i + 1] \in Stored BY <2>1, ElementOfSeq
  <2> QED BY <1>6, <2>2 DEF Stored
<1>7. memory' \in [Addresses -> Byte] BY <1>4, <1>6
<1>8. ASSUME NEW a \in Addresses, a < i \/ a >= index'
      PROVE  memory'[a] = m[a]
  <2>1. a \notin i..(i + Len(bytes) - 1) BY <1>1, <1>2, <1>5, <1>8
  <2> QED BY <1>4, <2>1
<1> QED BY <1>2, <1>3, <1>7, <1>8

LEMMA PackEffect ==
  ASSUME NEW status \in 0..3, NEW m \in [Addresses -> Byte],
         NEW i \in 0..(Top + 1), NEW shift \in {0, 2, 4, 6},
         Pack(status, m, i, shift)
  PROVE  /\ memory' \in [Addresses -> Byte]
         /\ index' \in 0..(Top + 1)
         /\ index' = IF shift = 0 THEN i + 1 ELSE i
         /\ bitShift' \in {0, 2, 4, 6} /\ bitShift' = (shift + 2) % 8
         /\ index' - 1 \in Addresses
         /\ memory'[index' - 1] = OrAt(m[index' - 1], status, shift)
         /\ \A a \in Addresses : a # index' - 1 => memory'[a] = m[a]
<1> DEFINE j == IF shift = 0 THEN i + 1 ELSE i
<1>1. /\ j <= Top + 1
      /\ memory' = [m EXCEPT ![j - 1] = OrAt(m[j - 1], status, shift)]
      /\ index' = j
      /\ bitShift' = (shift + 2) % 8
  BY DEF Pack
<1>2. j \in 0..(Top + 1) /\ j - 1 \in Addresses
  BY <1>1, BufferAssumption DEF Addresses
<1>3. OrAt(m[j - 1], status, shift) \in Byte
  BY <1>2, OrAtIsByte
<1>4. (shift + 2) % 8 \in {0, 2, 4, 6} OBVIOUS
<1> HIDE DEF j
<1>5. /\ memory' \in [Addresses -> Byte]
      /\ memory'[j - 1] = OrAt(m[j - 1], status, shift)
      /\ \A a \in Addresses : a # j - 1 => memory'[a] = m[a]
  BY <1>1, <1>2, <1>3
<1> QED BY <1>1, <1>2, <1>4, <1>5 DEF j

(* Writing a record either packs a status or stores bytes: those of a       *)
(* failed result, no more than addResult has reserved, or those of a        *)
(* string, one more than addStringToBuffer reserves below lineNumbers.      *)
LEMMA WriteCases ==
  ASSUME level \in 0..3, NEW rec \in Result \union StringRec,
         NEW m \in [Addresses -> Byte], NEW i \in 0..(Top + 1),
         NEW shift \in {0, 2, 4, 6}, Write(rec, m, i, shift)
  PROVE  \/ /\ rec \in Result /\ IsPacked(rec) /\ rec.status \in 0..3
            /\ Pack(rec.status, m, i, shift)
         \/ \E bytes \in Seq(Stored) :
              /\ Len(bytes) \in Nat
              /\ Store(bytes, m, i)
              /\ \/ /\ rec \in FailedResult /\ level >= testResults
                    /\ Len(bytes) <= calcResultLength(rec)
                 \/ rec \in StringRec /\ Len(bytes) = 6 + Len(rec.text)
<1>1. \A r \in Result : r.kind = "result" /\ r.status \in {1, 2}
  BY DEF Result, FailedResult, Success
<1>2. \A r \in StringRec : r.kind = "string" BY DEF StringRec
<1>3. CASE rec.kind = "result" /\ IsPacked(rec) /\ Pack(rec.status, m, i, shift)
  BY <1>1, <1>2, <1>3
<1>4. CASE rec.kind = "result" /\ ~IsPacked(rec) /\ Store(FailedBytes(rec), m, i)
  <2>1. rec \in Result BY <1>2, <1>4
  <2>2. level >= testResults /\ rec.status # testSucceed BY <1>4 DEF IsPacked
  <2>3. rec \in FailedResult BY <2>1, <2>2 DEF Result, Success
  <2>4. /\ FailedBytes(rec) \in Seq(Stored) /\ Len(FailedBytes(rec)) \in Nat
        /\ Len(FailedBytes(rec)) <= calcResultLength(rec)
    BY <2>2, <2>3, FailedBytesFit
  <2> QED BY <1>4, <2>2, <2>3, <2>4
<1>5. CASE /\ rec.kind = "string" /\ i \in Addresses
           /\ Store(StringBytes(rec, m[i]), m, i)
  <2>1. rec \in StringRec BY <1>1, <1>5
  <2>2. m[i] \in Byte BY <1>5
  <2>3. /\ StringBytes(rec, m[i]) \in Seq(Stored)
        /\ Len(StringBytes(rec, m[i])) = 6 + Len(rec.text)
        /\ Len(rec.text) \in Nat
    BY <2>1, <2>2, StringBytesType
  <2>4. Len(StringBytes(rec, m[i])) \in Nat BY <2>3, LenProperties
  <2> QED BY <1>5, <2>1, <2>3, <2>4
<1> QED BY <1>3, <1>4, <1>5 DEF Write

(* Whatever is written, the buffer keeps its type. *)
LEMMA WriteType ==
  ASSUME level \in 0..3, NEW rec \in Result \union StringRec,
         NEW m \in [Addresses -> Byte], NEW i \in 0..(Top + 1),
         NEW shift \in {0, 2, 4, 6}, Write(rec, m, i, shift)
  PROVE  /\ memory' \in [Addresses -> Byte]
         /\ index' \in 0..(Top + 1)
         /\ bitShift' \in {0, 2, 4, 6}
<1>1. CASE rec.status \in 0..3 /\ Pack(rec.status, m, i, shift)
  BY <1>1, PackEffect
<1>2. CASE \E bytes \in Seq(Stored) : Store(bytes, m, i)
  <2>1. PICK bytes \in Seq(Stored) : Store(bytes, m, i) BY <1>2
  <2> QED BY <2>1, StoreEffect
<1> QED BY <1>1, <1>2, WriteCases

LEMMA ClearedType ==
  ASSUME BufferTypeOK
  PROVE  Cleared \in [Addresses -> Byte]
BY DEF BufferTypeOK, Cleared, Byte
-----------------------------------------------------------------------------
(* The calls, seen as what the properties need of them. *)

(* A call either stops with its record or writes it. *)
CallEffect(rec) ==
  /\ level' = level /\ message = noMessage
  /\ \/ /\ message' \in {bufferIsFull, bufferToSmall} /\ rest' = rec
        /\ UNCHANGED <<memory, index>> /\ bitShift' \in {bitShift, 0}
     \/ /\ \E shift \in {bitShift, 0} : Write(rec, memory, index, shift)
        /\ UNCHANGED <<message, rest>>

LEMMA addResultEffect ==
  ASSUME NEW res \in Result, Running, addResult(res), UNCHANGED level
  PROVE  CallEffect(res)
BY DEF Running, addResult, MessageToDebugger, CallEffect

LEMMA AddStringEffect ==
  ASSUME NEW s \in Strings, AddString(s)
  PROVE  CallEffect(StringRecord(s))
BY DEF Running, AddString, addStringToBuffer, MessageToDebugger, CallEffect

(* A step of the target or of the debugger, by what it does. *)
LEMMA StepCases ==
  ASSUME BufferNext
  PROVE  \/ \E res \in Result : Running /\ addResult(res) /\ UNCHANGED level
         \/ \E s \in Strings : AddString(s)
         \/ FinishAllTest
         \/ ContinueAfterMessage
         \/ ReturnFromFunction
<1>1. CASE \E a \in IntAsserts \union {TimeoutAssert} : CompareInt(a)
  <2>1. PICK a \in IntAsserts \union {TimeoutAssert} : CompareInt(a) BY <1>1
  <2>2. FailedInt(a) \in Result BY FailedIntType DEF Result
  <2> QED BY <2>1, <2>2 DEF CompareInt
<1>2. CASE \E a \in MemAsserts : byteComp(a)
  <2>1. PICK a \in MemAsserts : byteComp(a) BY <1>2
  <2>2. FailedMem(a) \in Result BY FailedMemType DEF Result
  <2> QED BY <2>1, <2>2 DEF byteComp
<1>3. CASE testCaseSuccess
  <2>1. Success \in Result BY DEF Result
  <2> QED BY <1>3, <2>1 DEF testCaseSuccess
<1> QED BY <1>1, <1>2, <1>3 DEF BufferNext
-----------------------------------------------------------------------------
(* The index, the bit position and every byte keep their type; in           *)
(* particular the index stays in the modelled part of the memory.           *)
THEOREM TypeCorrect == BufferSpec => []BufferTypeOK
<1>1. BufferInit => BufferTypeOK
  <2> SUFFICES ASSUME BufferInit PROVE BufferTypeOK OBVIOUS
  <2>1. memory \in [Addresses -> Byte]
    BY BufferAssumption DEF BufferInit, Byte
  <2> QED BY <2>1, BufferAssumption DEF BufferInit, BufferTypeOK
<1>2. BufferTypeOK /\ [BufferNext]_bufferVars => BufferTypeOK'
  <2> SUFFICES ASSUME BufferTypeOK, BufferNext PROVE BufferTypeOK'
    BY DEF BufferTypeOK, bufferVars
  <2> USE DEF BufferTypeOK
  <2>1. ASSUME NEW rec \in Result \union StringRec, CallEffect(rec)
        PROVE  BufferTypeOK'
    <3>1. CASE /\ \E shift \in {bitShift, 0} : Write(rec, memory, index, shift)
               /\ UNCHANGED <<message, rest>>
      <4>1. PICK shift \in {bitShift, 0} : Write(rec, memory, index, shift)
        BY <3>1
      <4>2. shift \in {0, 2, 4, 6} OBVIOUS
      <4>3. /\ memory' \in [Addresses -> Byte]
            /\ index' \in 0..(Top + 1)
            /\ bitShift' \in {0, 2, 4, 6}
        BY <4>1, <4>2, WriteType
      <4>4. level' = level /\ UNCHANGED <<message, rest>>
        BY <2>1, <3>1 DEF CallEffect
      <4> QED BY <4>3, <4>4
    <3>2. CASE UNCHANGED <<memory, index>> /\ bitShift' \in {bitShift, 0}
                 /\ rest' = rec /\ message' \in {bufferIsFull, bufferToSmall}
      BY <2>1, <3>2 DEF CallEffect, Messages
    <3> QED BY <2>1, <3>1, <3>2 DEF CallEffect
  <2>2. CASE \E res \in Result : Running /\ addResult(res) /\ UNCHANGED level
    BY <2>1, <2>2, addResultEffect
  <2>3. CASE \E s \in Strings : AddString(s)
    BY <2>1, <2>3, AddStringEffect, StringRecordType
  <2>4. CASE FinishAllTest
    BY <2>4 DEF FinishAllTest, MessageToDebugger, Messages
  <2>5. CASE ContinueAfterMessage
    <3>1. CASE rest # nothing /\ Write(rest, Cleared, 0, 0)
      <4>1. 0 \in 0..(Top + 1) BY BufferAssumption
      <4>2. rest \in Result \union StringRec BY <3>1
      <4> QED BY <2>5, <3>1, <4>1, <4>2, ClearedType, WriteType DEF ContinueAfterMessage
    <3>2. CASE memory' = Cleared /\ index' = 0 /\ bitShift' = 0
      BY <2>5, <3>2, ClearedType, BufferAssumption DEF ContinueAfterMessage
    <3> QED BY <2>5, <3>1, <3>2 DEF ContinueAfterMessage
  <2>6. CASE ReturnFromFunction
    <3>1. memory' \in [Addresses -> Byte] BY <2>6 DEF ReturnFromFunction, Byte
    <3> QED BY <2>6, <3>1, BufferAssumption DEF ReturnFromFunction
  <2> QED BY <2>2, <2>3, <2>4, <2>5, <2>6, StepCases
<1> QED BY <1>1, <1>2, PTL DEF BufferSpec
-----------------------------------------------------------------------------
LEMMA LengthsAreInt ==
  ASSUME NEW r \in Result \union StringRec
  PROVE  /\ r \in Result => calcResultLength(r) \in Nat /\ calcResultLength(r) >= 1
         /\ r \in StringRec => StringLength(r) \in Nat /\ Len(r.text) \in Nat
<1>1. CASE r = Success
  BY <1>1 DEF Success, calcResultLength, StringRec
<1>2. CASE r \in FailedResult
  <2>1. r.is \in Seq(Byte) /\ r.should \in Seq(Byte) BY <1>2 DEF FailedResult
  <2>2. Len(r.is) \in Nat /\ Len(r.should) \in Nat BY <2>1, LenProperties
  <2>3. \A i, s \in Nat, x \in {0, 8}, l \in {0, 4} :
          2 + i + 2 * s + x + l \in Nat /\ 2 + i + 2 * s + x + l >= 1
    OBVIOUS
  <2>4. \/ calcResultLength(r) = 1
        \/ \E x \in {0, 8}, l \in {0, 4} :
             calcResultLength(r) = 2 + Len(r.is) + 2 * Len(r.should) + x + l
    <3> DEFINE x == IF isTestSizeKnown(r.flags) THEN 0 ELSE 8
               l == IF level = lineNumbers THEN 4 ELSE 0
    <3>1. x \in {0, 8} /\ l \in {0, 4} OBVIOUS
    <3>2. \/ calcResultLength(r) = 1
          \/ calcResultLength(r) = 2 + Len(r.is) + 2 * Len(r.should) + x + l
      BY Zenon DEF calcResultLength
    <3> QED BY <3>1, <3>2, Zenon
  <2>5. r \notin StringRec BY <1>2 DEF FailedResult, StringRec
  <2>6. calcResultLength(r) \in Nat /\ calcResultLength(r) >= 1
    <3>1. CASE calcResultLength(r) = 1 BY <3>1
    <3>2. CASE calcResultLength(r) # 1
      <4>1. PICK x \in {0, 8}, l \in {0, 4} :
              calcResultLength(r) = 2 + Len(r.is) + 2 * Len(r.should) + x + l
        BY <2>4, <3>2
      <4> QED BY <2>2, <2>3, <4>1
    <3> QED BY <3>1, <3>2
  <2> QED BY <2>5, <2>6
<1>3. CASE r \in StringRec
  <2>1. r.text \in Seq(Byte) BY <1>3 DEF StringRec
  <2>2. Len(r.text) \in Nat BY <2>1, LenProperties
  <2>3. r \notin Result BY <1>3 DEF StringRec, Result, Success, FailedResult
  <2>4. StringLength(r) \in {Len(r.text) + 5, Len(r.text) + 6}
    BY Zenon DEF StringLength
  <2>5. Len(r.text) + 5 \in Nat /\ Len(r.text) + 6 \in Nat BY <2>2
  <2>6. StringLength(r) \in Nat BY <2>4, <2>5, Zenon
  <2> QED BY <2>2, <2>3, <2>6
<1> QED BY <1>1, <1>2, <1>3 DEF Result

(* At the levels where the reserved sizes are right, a record that was      *)
(* found to fit at index i ends inside the array.                           *)
LEMMA WriteInside ==
  ASSUME level \in {justSuccess, lineNumbers}, NEW rec \in Result \union StringRec,
         NEW m \in [Addresses -> Byte], NEW i \in 0..(Top + 1), i <= SizeofBuffer,
         NEW shift \in {0, 2, 4, 6}, Write(rec, m, i, shift),
         rec \in Result =>
           calcResultLength(rec) <= SizeofBuffer - i /\ (shift = 0 => i < SizeofBuffer),
         rec \in StringRec => StringLength(rec) + i <= SizeofBuffer /\ level # justSuccess
  PROVE  index' <= SizeofBuffer
<1>1. i \in Nat /\ SizeofBuffer \in Nat BY BufferAssumption DEF SizeofBuffer
<1>2. CASE rec \in Result /\ rec.status \in 0..3 /\ Pack(rec.status, m, i, shift)
  <2>1. index' = IF shift = 0 THEN i + 1 ELSE i BY <1>2, PackEffect
  <2> QED BY <1>1, <1>2, <2>1
<1>3. ASSUME NEW bytes \in Seq(Stored), Len(bytes) \in Nat, Store(bytes, m, i),
             rec \in FailedResult, Len(bytes) <= calcResultLength(rec)
      PROVE  index' <= SizeofBuffer
  <2>1. index' = i + Len(bytes) BY <1>3, StoreEffect
  <2>2. rec \in Result BY <1>3 DEF Result
  <2>3. calcResultLength(rec) \in Nat BY <2>2, LengthsAreInt
  <2> QED BY <1>1, <1>3, <2>1, <2>2, <2>3
<1>4. ASSUME NEW bytes \in Seq(Stored), Len(bytes) \in Nat, Store(bytes, m, i),
             rec \in StringRec, Len(bytes) = 6 + Len(rec.text)
      PROVE  index' <= SizeofBuffer
  <2>1. index' = i + Len(bytes) BY <1>4, StoreEffect
  <2>2. Len(rec.text) \in Nat BY <1>4, LengthsAreInt
  <2>3. StringLength(rec) = Len(rec.text) + 6
    <3>1. level = lineNumbers BY <1>4
    <3> QED BY <3>1 DEF StringLength
  <2> QED BY <1>1, <1>4, <2>1, <2>2, <2>3
<1> QED BY <1>2, <1>3, <1>4, WriteCases

(* A call that waits in MessageToDebugger fits into the drained buffer, and *)
(* no record ever passes the end of the array.  Neither is inductive alone: *)
(* the write after the drain tests nothing, so that it stays inside only    *)
(* because the call that stopped has been found to fit.                     *)
THEOREM RecordsStayInside == BufferSpec => [](StoppedCallFits /\ RecordsInside)
<1>1. BufferInit => StoppedCallFits /\ RecordsInside
  BY BufferAssumption DEF BufferInit, StoppedCallFits, RecordsInside, SizeofBuffer,
     noMessage, bufferIsFull, bufferToSmall, finishAllTest
<1>2. /\ BufferTypeOK /\ BufferTypeOK' /\ StoppedCallFits /\ RecordsInside
      /\ [BufferNext]_bufferVars
      => StoppedCallFits' /\ RecordsInside'
  <2> SUFFICES ASSUME BufferTypeOK, BufferTypeOK', StoppedCallFits, RecordsInside,
                      [BufferNext]_bufferVars
               PROVE  StoppedCallFits' /\ RecordsInside'
    OBVIOUS
  <2> USE DEF noMessage, bufferIsFull, bufferToSmall, finishAllTest
  <2>0. /\ SIZE_OF_RESULT_BUFFER \in Nat /\ SizeofBuffer = SIZE_OF_RESULT_BUFFER + 1
        /\ index \in Nat /\ index \in 0..(Top + 1) /\ 0 \in 0..(Top + 1)
        /\ level \in 0..3 /\ memory \in [Addresses -> Byte] /\ bitShift \in {0, 2, 4, 6}
    BY BufferAssumption DEF BufferTypeOK, SizeofBuffer
  <2>1. ASSUME NEW res \in Result, Running, addResult(res), UNCHANGED level
        PROVE  StoppedCallFits' /\ RecordsInside'
    <3>1. calcResultLength(res) \in Nat /\ calcResultLength(res)' = calcResultLength(res)
      BY <2>1, LengthsAreInt DEF calcResultLength
    <3>2. res \notin StringRec BY DEF Result, StringRec, Success, FailedResult
    <3>3. CASE /\ message' \in {bufferIsFull, bufferToSmall} /\ rest' = res
               /\ message' = bufferIsFull <=> calcResultLength(res) < SIZE_OF_RESULT_BUFFER
               /\ index' = index
      BY <2>0, <2>1, <3>1, <3>3 DEF StoppedCallFits, RecordsInside
    <3>4. CASE /\ calcResultLength(res) < SIZE_OF_RESULT_BUFFER /\ ~IsFull(calcResultLength(res))
               /\ Write(res, memory, index, bitShift) /\ UNCHANGED <<message, rest>>
      <4>1. StoppedCallFits' BY <2>1, <3>4 DEF StoppedCallFits, Running
      <4>2. ASSUME level \in {justSuccess, lineNumbers} PROVE index' <= SizeofBuffer
        <5>1. index <= SizeofBuffer BY <4>2 DEF RecordsInside
        <5>2. calcResultLength(res) <= SizeofBuffer - index /\ index < SizeofBuffer
          BY <2>0, <3>1, <3>4, <5>1, LengthsAreInt DEF IsFull
        <5> QED BY <2>0, <3>2, <3>4, <4>2, <5>1, <5>2, WriteInside
      <4> QED BY <2>1, <4>1, <4>2 DEF RecordsInside
    <3> QED BY <2>0, <2>1, <3>1, <3>3, <3>4 DEF addResult, MessageToDebugger
  <2>2. ASSUME NEW s \in Strings, AddString(s)
        PROVE  StoppedCallFits' /\ RecordsInside'
    <3> DEFINE rec == StringRecord(s)
    <3>1. /\ rec \in StringRec /\ rec.text = s.text /\ rec \notin Result
          /\ UNCHANGED level /\ Running /\ level # justSuccess
      BY <2>0, <2>2, StringRecordType
         DEF StringRecord, StringRec, Result, Success, FailedResult, AddString, IsRequested
    <3>2. /\ StringLength(rec) \in Nat /\ StringLength(s) = StringLength(rec)
          /\ StringLength(rec)' = StringLength(rec)
      BY <3>1, LengthsAreInt DEF StringLength
    <3> HIDE DEF rec
    <3>3. CASE /\ message' \in {bufferIsFull, bufferToSmall} /\ rest' = rec
               /\ message' = bufferIsFull <=> StringLength(rec) <= SizeofBuffer
               /\ index' = index
      BY <2>0, <3>1, <3>2, <3>3 DEF StoppedCallFits, RecordsInside, SizeofBuffer
    <3>4. CASE /\ StringLength(rec) + index <= SizeofBuffer
               /\ Write(rec, memory, index, 0) /\ UNCHANGED <<message, rest>>
      <4>1. StoppedCallFits' BY <3>1, <3>4 DEF StoppedCallFits, Running
      <4>2. ASSUME level \in {justSuccess, lineNumbers} PROVE index' <= SizeofBuffer
        <5>1. index <= SizeofBuffer BY <4>2 DEF RecordsInside
        <5> QED BY <2>0, <3>1, <3>4, <4>2, <5>1, WriteInside
      <4> QED BY <3>1, <4>1, <4>2 DEF RecordsInside
    <3> QED BY <2>0, <2>2, <3>1, <3>2, <3>3, <3>4
            DEF rec, AddString, addStringToBuffer, MessageToDebugger
  <2>3. CASE FinishAllTest
    BY <2>3 DEF FinishAllTest, MessageToDebugger, StoppedCallFits, RecordsInside, nothing
  <2>4. CASE ContinueAfterMessage
    <3>1. /\ message' = noMessage /\ rest' = nothing /\ UNCHANGED level
      BY <2>4 DEF ContinueAfterMessage
    <3>2. StoppedCallFits' BY <3>1 DEF StoppedCallFits
    <3>3. ASSUME level \in {justSuccess, lineNumbers} PROVE index' <= SizeofBuffer
      <4>1. CASE rest # nothing /\ Write(rest, Cleared, 0, 0)
        <5>1. message = bufferIsFull BY <2>4, <4>1 DEF ContinueAfterMessage, StoppedCallFits
        <5>2. rest \in Result \union StringRec BY <4>1 DEF BufferTypeOK
        <5>3. rest \in Result => calcResultLength(rest) <= SizeofBuffer
          <6>1. rest \in Result => rest \notin StringRec
            BY DEF Result, StringRec, Success, FailedResult
          <6> QED BY <2>0, <5>1, <5>2, <6>1, LengthsAreInt DEF StoppedCallFits
        <5>4. rest \in StringRec => StringLength(rest) <= SizeofBuffer /\ level # justSuccess
          <6>1. rest \in StringRec => rest \notin Result
            BY DEF Result, StringRec, Success, FailedResult
          <6> QED BY <5>1, <6>1 DEF StoppedCallFits
        <5>5. Cleared \in [Addresses -> Byte] BY ClearedType
        <5>6. rest \in Result => calcResultLength(rest) <= SizeofBuffer - 0 /\ 0 < SizeofBuffer
          BY <2>0, <5>3, LengthsAreInt
        <5>7. rest \in StringRec => StringLength(rest) + 0 <= SizeofBuffer /\ level # justSuccess
          BY <2>0, <5>4, LengthsAreInt
        <5>8. 0 <= SizeofBuffer /\ 0 \in {0, 2, 4, 6} BY <2>0
        <5> QED BY <2>0, <3>3, <4>1, <5>2, <5>5, <5>6, <5>7, <5>8, WriteInside
      <4>2. CASE index' = 0 BY <2>0, <4>2
      <4> QED BY <2>4, <4>1, <4>2 DEF ContinueAfterMessage
    <3> QED BY <3>1, <3>2, <3>3 DEF RecordsInside
  <2>5. CASE ReturnFromFunction
    BY <2>0, <2>5 DEF ReturnFromFunction, StoppedCallFits, RecordsInside, SizeofBuffer
  <2>6. CASE UNCHANGED bufferVars
    BY <2>6 DEF bufferVars, StoppedCallFits, RecordsInside, calcResultLength, StringLength
  <2> QED BY <2>1, <2>2, <2>3, <2>4, <2>5, <2>6, StepCases
<1> QED BY <1>1, <1>2, TypeCorrect, PTL DEF BufferSpec

(* addResult and addStringToBuffer test the size once, before the stop in   *)
(* MessageToDebugger: what they store behind it fits, and what they hand to *)
(* the debugger instead would never fit.                                    *)
THEOREM StoppedFits == BufferSpec => []StoppedCallFits
BY RecordsStayInside, PTL
-----------------------------------------------------------------------------
(* Or-ing a status into the first free bits leaves the bits above it free.  *)
LEMMA OrAtBelow ==
  ASSUME NEW b \in Byte, NEW v \in 0..3, NEW s \in {0, 2, 4}, b < Weight(s)
  PROVE  OrAt(b, v, s) < Weight(s + 2)
<1>1. CASE s = 0 BY <1>1 DEF OrAt, Or2, Weight, Byte
<1>2. CASE s = 2 BY <1>2 DEF OrAt, Or2, Weight, Byte
<1>3. CASE s = 4 BY <1>3 DEF OrAt, Or2, Weight, Byte
<1> QED BY <1>1, <1>2, <1>3

(* A write into a buffer whose tail is clean leaves it clean, and does not  *)
(* move the index back.                                                     *)
LEMMA WriteKeepsTail ==
  ASSUME level \in 0..3, NEW rec \in Result \union StringRec,
         NEW m \in [Addresses -> Byte], NEW i \in 0..(Top + 1),
         NEW shift \in {0, 2, 4, 6}, Write(rec, m, i, shift),
         \A a \in Inside : a >= i => m[a] = 0,
         shift # 0 /\ i \in 1..SizeofBuffer => m[i - 1] < Weight(shift)
  PROVE  TailIsClean' /\ index' >= i
<1>0. /\ SIZE_OF_RESULT_BUFFER \in Nat /\ SizeofBuffer = SIZE_OF_RESULT_BUFFER + 1
      /\ Inside \subseteq Addresses /\ Inside = 0..SIZE_OF_RESULT_BUFFER /\ i \in Nat
  BY BufferAssumption DEF SizeofBuffer, Inside, Addresses
<1>1. CASE rec.status \in 0..3 /\ Pack(rec.status, m, i, shift)
  <2>1. /\ index' = IF shift = 0 THEN i + 1 ELSE i
        /\ bitShift' = (shift + 2) % 8
        /\ index' - 1 \in Addresses
        /\ memory'[index' - 1] = OrAt(m[index' - 1], rec.status, shift)
        /\ \A a \in Addresses : a # index' - 1 => memory'[a] = m[a]
    BY <1>1, PackEffect
  <2>2. ASSUME NEW a \in Inside, a >= index' PROVE memory'[a] = 0
    BY <1>0, <2>1, <2>2
  <2>3. ASSUME bitShift' # 0, index' \in 1..SizeofBuffer
        PROVE  memory'[index' - 1] < Weight(bitShift')
    <3>1. shift \in {0, 2, 4} /\ bitShift' = shift + 2 BY <2>1, <2>3
    <3>2. m[index' - 1] \in Byte BY <2>1
    <3>3. m[index' - 1] < Weight(shift)
      <4>1. CASE shift = 0
        <5>1. index' - 1 \in Inside /\ index' - 1 >= i BY <1>0, <2>1, <2>3, <4>1
        <5> QED BY <4>1, <5>1 DEF Weight
      <4>2. CASE shift # 0 BY <2>1, <2>3, <4>2
      <4> QED BY <4>1, <4>2
    <3> QED BY <1>1, <2>1, <3>1, <3>2, <3>3, OrAtBelow
  <2>4. index' >= i BY <1>0, <2>1
  <2> QED BY <2>2, <2>3, <2>4 DEF TailIsClean, Inside, SizeofBuffer
<1>2. ASSUME NEW bytes \in Seq(Stored), Store(bytes, m, i), Len(bytes) \in Nat
      PROVE  TailIsClean' /\ index' >= i
  <2>1. /\ index' = i + Len(bytes) /\ bitShift' = 0
        /\ \A a \in Addresses : a < i \/ a >= index' => memory'[a] = m[a]
    BY <1>2, StoreEffect
  <2>2. index' >= i BY <1>0, <1>2, <2>1
  <2>3. ASSUME NEW a \in Inside, a >= index' PROVE memory'[a] = 0
    <3>1. index' \in Nat BY <1>0, <1>2, <2>1
    <3>2. a >= i BY <1>0, <2>2, <2>3, <3>1
    <3> QED BY <1>0, <2>1, <2>3, <3>2
  <2> QED BY <2>1, <2>2, <2>3 DEF TailIsClean, Inside
<1> QED BY <1>1, <1>2, WriteCases

(* A step of a running target leaves the tail clean and does not move the   *)
(* index back.                                                              *)
LEMMA CallKeepsTail ==
  ASSUME BufferTypeOK, TailIsClean, NEW rec \in Result \union StringRec,
         CallEffect(rec)
  PROVE  TailIsClean' /\ index' >= index
<1> USE DEF BufferTypeOK
<1>0. index \in Int BY BufferAssumption
<1>1. CASE UNCHANGED <<memory, index>> /\ bitShift' \in {bitShift, 0}
  BY <1>0, <1>1 DEF TailIsClean, Weight, Inside, SizeofBuffer
<1>2. CASE \E shift \in {bitShift, 0} : Write(rec, memory, index, shift)
  <2>1. PICK shift \in {bitShift, 0} : Write(rec, memory, index, shift) BY <1>2
  <2>2. shift \in {0, 2, 4, 6} OBVIOUS
  <2>3. /\ \A a \in Inside : a >= index => memory[a] = 0
        /\ shift # 0 /\ index \in 1..SizeofBuffer => memory[index - 1] < Weight(shift)
    BY <2>1 DEF TailIsClean
  <2> QED BY <2>1, <2>2, <2>3, WriteKeepsTail
<1> QED BY <1>1, <1>2 DEF CallEffect

(* What lies behind the stored records is zero, which |= and the three      *)
(* bytes of a size field that are never written rely on.                    *)
THEOREM TailStaysClean == BufferSpec => []TailIsClean
<1>1. BufferInit => TailIsClean
  <2>1. Inside \subseteq Addresses BY BufferAssumption DEF Inside, Addresses
  <2> QED BY <2>1 DEF BufferInit, TailIsClean
<1>2. BufferTypeOK /\ TailIsClean /\ [BufferNext]_bufferVars => TailIsClean'
  <2> SUFFICES ASSUME BufferTypeOK, TailIsClean, [BufferNext]_bufferVars
               PROVE  TailIsClean'
    OBVIOUS
  <2>0. /\ index \in Nat /\ 0 \in 0..(Top + 1) /\ Inside \subseteq Addresses
        /\ \A a \in Inside : a \in Nat
    BY BufferAssumption DEF BufferTypeOK, Inside, Addresses
  <2>1. CASE \E res \in Result : Running /\ addResult(res) /\ UNCHANGED level
    BY <2>1, addResultEffect, CallKeepsTail
  <2>2. CASE \E s \in Strings : AddString(s)
    BY <2>2, AddStringEffect, StringRecordType, CallKeepsTail
  <2>3. CASE ContinueAfterMessage
    <3>1. \A a \in Inside : Cleared[a] = 0
      BY <2>0 DEF TailIsClean, Cleared
    <3>2. CASE memory' = Cleared /\ index' = 0 /\ bitShift' = 0
      BY <3>1, <3>2 DEF TailIsClean, Inside
    <3>3. CASE rest # nothing /\ Write(rest, Cleared, 0, 0)
      <4>1. /\ level \in 0..3 /\ rest \in Result \union StringRec
            /\ Cleared \in [Addresses -> Byte] /\ 0 \in {0, 2, 4, 6}
        BY <3>3, ClearedType DEF BufferTypeOK
      <4> QED BY <2>0, <3>1, <3>3, <4>1, WriteKeepsTail
    <3> QED BY <2>3, <3>2, <3>3 DEF ContinueAfterMessage
  <2>4. CASE ReturnFromFunction
    <3>1. \A a \in Inside : memory'[a] = 0
      BY <2>0, <2>4 DEF TailIsClean, ReturnFromFunction
    <3> QED BY <2>4, <3>1 DEF TailIsClean, ReturnFromFunction, Inside
  <2>5. CASE FinishAllTest \/ UNCHANGED bufferVars
    BY <2>5 DEF FinishAllTest, MessageToDebugger, bufferVars, TailIsClean, Inside,
       SizeofBuffer, Weight
  <2> QED BY <2>1, <2>2, <2>3, <2>4, <2>5, StepCases
<1> QED BY <1>1, <1>2, TypeCorrect, PTL DEF BufferSpec

(* A running target never takes the index back over a stored record.        *)
THEOREM DrainedOnlyWhenStopped == BufferSpec => OnlyDrainedWhenStopped
<1>1. BufferTypeOK /\ BufferTypeOK' /\ TailIsClean /\ [BufferNext]_bufferVars
        => [index' < index => message # noMessage]_bufferVars
  <2> SUFFICES ASSUME BufferTypeOK, BufferTypeOK', TailIsClean, BufferNext,
                      message = noMessage, index' < index
               PROVE  FALSE
    OBVIOUS
  <2>1. index \in Int /\ index' \in Int /\ ~(index' >= index)
    BY BufferAssumption DEF BufferTypeOK
  <2>2. CASE \E res \in Result : Running /\ addResult(res) /\ UNCHANGED level
    BY <2>1, <2>2, addResultEffect, CallKeepsTail
  <2>3. CASE \E s \in Strings : AddString(s)
    BY <2>1, <2>3, AddStringEffect, StringRecordType, CallKeepsTail
  <2>4. CASE FinishAllTest
    BY <2>1, <2>4 DEF FinishAllTest, MessageToDebugger
  <2>5. CASE ContinueAfterMessage \/ ReturnFromFunction
    BY <2>5 DEF ContinueAfterMessage, ReturnFromFunction, noMessage, bufferIsFull,
       bufferToSmall, finishAllTest
  <2> QED BY <2>2, <2>3, <2>4, <2>5, StepCases
<1> QED BY <1>1, TypeCorrect, TailStaysClean, PTL DEF BufferSpec, OnlyDrainedWhenStopped
-----------------------------------------------------------------------------
(* At the level justSuccess: a buffer of fewer than two bytes is never      *)
(* used, and one of more never asks the debugger to read a record.          *)
StatusInv ==
  level = justSuccess =>
    /\ index <= SIZE_OF_RESULT_BUFFER
    /\ index > 0 \/ bitShift # 0 \/ message = bufferIsFull => SIZE_OF_RESULT_BUFFER > 1
    /\ bitShift # 0 => index > 0
    /\ message = bufferToSmall => SIZE_OF_RESULT_BUFFER <= 1
    /\ rest \in StringRec => FALSE
    /\ OutsideUntouched

(* A packed status goes into the array, whatever was there before.          *)
LEMMA PackInside ==
  ASSUME level = justSuccess, NEW rec \in Result, NEW m \in [Addresses -> Byte],
         NEW i \in 0..(Top + 1), NEW shift \in {0, 2, 4, 6}, Write(rec, m, i, shift),
         i <= SIZE_OF_RESULT_BUFFER, shift = 0 => i < SIZE_OF_RESULT_BUFFER,
         shift # 0 => i > 0,
         \A a \in Addresses \ Inside : m[a] = Foreign
  PROVE  /\ 0 < index' /\ index' <= SIZE_OF_RESULT_BUFFER
         /\ \A a \in Addresses \ Inside : memory'[a] = Foreign
<1>1. rec.status \in 0..3 /\ Pack(rec.status, m, i, shift)
  <2>1. level \in 0..3 /\ ~(level >= testResults) OBVIOUS
  <2>2. rec \notin StringRec BY DEF Result, StringRec, Success, FailedResult
  <2> QED BY <2>1, <2>2, WriteCases
<1>2. /\ index' = IF shift = 0 THEN i + 1 ELSE i
      /\ \A a \in Addresses : a # index' - 1 => memory'[a] = m[a]
  BY <1>1, PackEffect
<1>3. 0 < index' /\ index' <= SIZE_OF_RESULT_BUFFER /\ index' - 1 \in Inside
  BY <1>2, BufferAssumption DEF Inside
<1> QED BY <1>2, <1>3

(* At the level justSuccess no byte outside the array is ever written.      *)
THEOREM StatusesStayInside == BufferSpec => [](level = justSuccess => OutsideUntouched)
<1> USE DEF noMessage, bufferIsFull, bufferToSmall, finishAllTest
<1>1. BufferInit => StatusInv
  BY BufferAssumption DEF BufferInit, StatusInv, OutsideUntouched, Inside, nothing, StringRec
<1>2. BufferTypeOK /\ StoppedCallFits /\ StatusInv /\ [BufferNext]_bufferVars => StatusInv'
  <2> SUFFICES ASSUME BufferTypeOK, StoppedCallFits, StatusInv, [BufferNext]_bufferVars,
                      level' = justSuccess
               PROVE  StatusInv'
    BY DEF StatusInv
  <2>0. /\ SIZE_OF_RESULT_BUFFER \in Nat /\ SizeofBuffer = SIZE_OF_RESULT_BUFFER + 1
        /\ index \in Nat /\ index \in 0..(Top + 1) /\ 0 \in 0..(Top + 1)
        /\ memory \in [Addresses -> Byte] /\ bitShift \in {0, 2, 4, 6}
        /\ rest \in Result \union StringRec \union {nothing}
        /\ 0 \in Inside /\ Inside = 0..SIZE_OF_RESULT_BUFFER
    BY BufferAssumption DEF BufferTypeOK, SizeofBuffer, Inside
  <2>1. ASSUME NEW res \in Result, Running, addResult(res), UNCHANGED level
        PROVE  StatusInv'
    <3>1. /\ calcResultLength(res) = 1 /\ IsPacked(res) /\ level = justSuccess
          /\ res \notin StringRec /\ nothing \notin StringRec
      <4>1. level = justSuccess BY <2>1
      <4>2. calcResultLength(res) = 1
        <5>1. ~(level >= testNames) BY <4>1
        <5> QED BY <5>1, Zenon DEF calcResultLength
      <4>3. res \notin StringRec /\ nothing \notin StringRec
        BY DEF Result, StringRec, Success, FailedResult, nothing
      <4> QED BY <4>1, <4>2, <4>3 DEF IsPacked
    <3>2. CASE /\ message' \in {bufferIsFull, bufferToSmall} /\ rest' = res
               /\ message' = bufferToSmall => 1 >= SIZE_OF_RESULT_BUFFER
               /\ message' = bufferIsFull => 1 < SIZE_OF_RESULT_BUFFER
               /\ UNCHANGED <<memory, index, bitShift>>
      BY <2>0, <2>1, <3>1, <3>2 DEF StatusInv, OutsideUntouched, Running
    <3>3. CASE /\ 1 < SIZE_OF_RESULT_BUFFER
               /\ ~(bitShift = 0 /\ index >= SIZE_OF_RESULT_BUFFER)
               /\ Write(res, memory, index, bitShift) /\ UNCHANGED <<message, rest>>
      <4>1. /\ 0 < index' /\ index' <= SIZE_OF_RESULT_BUFFER
            /\ \A a \in Addresses \ Inside : memory'[a] = Foreign
        BY <2>0, <3>1, <3>3, PackInside DEF StatusInv, OutsideUntouched
      <4> QED BY <2>0, <2>1, <3>1, <3>3, <4>1 DEF StatusInv, OutsideUntouched, Running
    <3> QED BY <2>1, <3>1, <3>2, <3>3 DEF addResult, MessageToDebugger
  <2>2. CASE \E s \in Strings : AddString(s)
    BY <2>2 DEF AddString, IsRequested
  <2>3. CASE FinishAllTest
    BY <2>0, <2>3 DEF FinishAllTest, MessageToDebugger, StatusInv, OutsideUntouched,
       nothing, StringRec
  <2>4. CASE ContinueAfterMessage
    <3>1. /\ level = justSuccess /\ message' = noMessage /\ rest' = nothing
          /\ rest \notin StringRec /\ nothing \notin StringRec
      BY <2>4 DEF ContinueAfterMessage, StatusInv, nothing, StringRec
    <3>2. /\ Cleared \in [Addresses -> Byte]
          /\ \A a \in Addresses \ Inside : Cleared[a] = Foreign
      BY <2>0, <3>1, ClearedType DEF StatusInv, OutsideUntouched, Cleared
    <3>3. CASE memory' = Cleared /\ index' = 0 /\ bitShift' = 0
      BY <2>0, <3>1, <3>2, <3>3 DEF StatusInv, OutsideUntouched
    <3>4. CASE rest # nothing /\ Write(rest, Cleared, 0, 0)
      <4>1. message = bufferIsFull BY <2>4, <3>4 DEF ContinueAfterMessage, StoppedCallFits
      <4>2. SIZE_OF_RESULT_BUFFER > 1 BY <3>1, <4>1 DEF StatusInv
      <4>3. rest \in Result BY <2>0, <3>1, <3>4
      <4>4. /\ 0 < index' /\ index' <= SIZE_OF_RESULT_BUFFER
            /\ \A a \in Addresses \ Inside : memory'[a] = Foreign
        BY <2>0, <3>1, <3>2, <3>4, <4>2, <4>3, PackInside
      <4> QED BY <2>0, <3>1, <4>2, <4>4 DEF StatusInv, OutsideUntouched
    <3> QED BY <2>4, <3>3, <3>4 DEF ContinueAfterMessage
  <2>5. CASE ReturnFromFunction
    BY <2>0, <2>5 DEF ReturnFromFunction, StatusInv, OutsideUntouched, nothing, StringRec
  <2>6. CASE UNCHANGED bufferVars
    BY <2>6 DEF bufferVars, StatusInv, OutsideUntouched
  <2> QED BY <2>1, <2>2, <2>3, <2>4, <2>5, <2>6, StepCases
<1>3. StatusInv => (level = justSuccess => OutsideUntouched)
  BY DEF StatusInv
<1> QED BY <1>1, <1>2, <1>3, TypeCorrect, RecordsStayInside, PTL DEF BufferSpec
=============================================================================
