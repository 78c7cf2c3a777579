------------------------- MODULE ResultTransferProofs -------------------------
(***************************************************************************)
(* What a whole test run keeps.                                            *)
(*                                                                         *)
(* Every step of it is a step of the result buffer or leaves it alone, so  *)
(* that what EUnitBufferProofs shows of calls in any order holds of the    *)
(* calls the generated test code and the host make.                        *)
(*                                                                         *)
(* The rest shows that eUnit.c and TestAnalyser.cpp agree on the bytes of  *)
(* the buffer.  Reads(lv, m, N, s, from, to) says where the analyser's     *)
(* loop gets with the N bytes stored so far and their last shift s, for    *)
(* all dumps that go on in any way the next record may; each record that   *)
(* is stored takes the loop one round further (PackReads, FailureReads,    *)
(* StringReads).  TransferInv relates that to what was sent.               *)
(***************************************************************************)
EXTENDS ResultTransfer, EUnitBufferProofs, WellFoundedInduction

(* What the test code does is a call of the buffer or none.                 *)
LEMMA TestCodeCalls ==
  ASSUME TestCode
  PROVE  [BufferNext]_bufferVars
<1>1. ASSUME NEW s \in Strings, BeginGroup(s) \/ BeginTest(s) \/ PrintOverGdb(s)
      PROVE  [BufferNext]_bufferVars
  BY <1>1 DEF BeginGroup, BeginTest, PrintOverGdb, BufferNext
<1>2. ASSUME NEW a \in IntAsserts, ExpectFails(a) \/ AssertFails(a)
      PROVE  BufferNext
  BY <1>2 DEF ExpectFails, AssertFails, BufferNext
<1>3. ASSUME NEW a \in MemAsserts, AssertMemFails(a)
      PROVE  BufferNext
  BY <1>3 DEF AssertMemFails, BufferNext
<1>4. ASSUME EndTest PROVE [BufferNext]_bufferVars
  BY <1>4 DEF EndTest, BufferNext
<1>5. ASSUME InvokeAllTestEnds PROVE BufferNext
  BY <1>5 DEF InvokeAllTestEnds, BufferNext
<1> QED BY <1>1, <1>2, <1>3, <1>4, <1>5 DEF TestCode

(* What the host does is a way of letting the target go on, or a timeout.   *)
LEMMA HostAnswers ==
  ASSUME Host
  PROVE  BufferNext
<1>1. ASSUME HandleBufferIsFull PROVE BufferNext
  BY <1>1 DEF HandleBufferIsFull, BufferNext
<1>2. ASSUME HandleBufferToSmall PROVE BufferNext
  BY <1>2 DEF HandleBufferToSmall, BufferNext
<1>3. ASSUME HandleFinishAllTest PROVE BufferNext
  BY <1>3 DEF HandleFinishAllTest, BufferNext
<1>4. ASSUME HandleTimeout PROVE BufferNext
  BY <1>4 DEF HandleTimeout, BufferNext
<1> QED BY <1>1, <1>2, <1>3, <1>4 DEF Host

(* The composed run implements the buffer's specification: the host never   *)
(* lets a stopped target go on in a way the buffer does not expect.         *)
THEOREM TransferImplementsBuffer == Spec => BufferSpec
<1>1. Init => BufferInit BY DEF Init
<1>2. [Next]_vars => [BufferNext]_bufferVars
  <2>1. ASSUME Next PROVE [BufferNext]_bufferVars
    BY <2>1, TestCodeCalls, HostAnswers DEF Next
  <2>2. ASSUME UNCHANGED vars PROVE UNCHANGED bufferVars
    BY <2>2 DEF vars
  <2> QED BY <2>1, <2>2
<1> QED BY <1>1, <1>2, PTL DEF Spec, BufferSpec

(* In a whole run every byte stays well typed, no record passes the end of  *)
(* the array at the levels that reserve what they store, and what lies      *)
(* behind the records is clear, as the analyser and the next record need.   *)
THEOREM TransferStaysInside ==
  Spec => [](BufferTypeOK /\ StoppedCallFits /\ RecordsInside /\ TailIsClean)
BY TransferImplementsBuffer, TypeCorrect, RecordsStayInside, TailStaysClean, PTL

(* In a whole run at level justSuccess no byte around the array is written. *)
THEOREM TransferStatusesInside == Spec => [](level = justSuccess => OutsideUntouched)
BY TransferImplementsBuffer, StatusesStayInside, PTL

-----------------------------------------------------------------------------
(* The constants of the target that both sides use. *)
USE DEF testNotRun, testSucceed, testFailed, testName,
        justSuccess, testNames, testResults, lineNumbers,
        typeNotDef, typeCompInt8, typeCompInt16, typeCompInt32, typeCompByte,
        typeCompBool, typeTimeOut, typeCompEqual, typeCompArray,
        ofTestName, ofTestFile, ofTestClass, ofGdbMessage
-----------------------------------------------------------------------------
(* The rounds of the analyser's loop. *)

(* A set of numbers has a least one. *)
LEMMA LeastNumber ==
  ASSUME NEW T, T \subseteq Nat, T # {}
  PROVE  \E m \in T : \A k \in T : m <= k
<1>1. PICK m \in T : \A k \in T : ~(<<k, m>> \in OpToRel(<, Nat))
  BY WFMin, NatLessThanWellFounded
<1>2. \A k \in T : ~(k < m)
  BY <1>1 DEF OpToRel
<1>3. \A k \in T : k \in Nat /\ m \in Nat
  BY <1>1
<1> QED BY <1>2, <1>3

Shifts == {0, 2, 4, 6}
LaterShifts == {2, 4, 6}
Statuses == {testSucceed, testFailed}

Place(i, sh, st) == [i |-> i, shift |-> sh, st |-> st]
At0(st) == Place(0, 0, st)
Goes(lv, data, past, before) == {Read(lv, data, past, b) : b \in before}
AreRounds(lv, st, data, past, m, f) ==
  f = [n \in 0..m |-> IF n = 0 THEN {At0(st)} ELSE Goes(lv, data, past, f[n - 1])]

(* The loop is defined: it starts at the first status, and one more round   *)
(* reads on from where the rounds before it have come to.                   *)
LEMMA RoundsAreDefined ==
  ASSUME NEW lv, NEW st, NEW data, NEW past, Len(data) \in Nat
  PROVE  AreRounds(lv, st, data, past, 4 * Len(data), Rounds(lv, st, data, past))
<1> DEFINE n == 4 * Len(data)
           Bad == {m \in 0..n : ~\E f : AreRounds(lv, st, data, past, m, f)}
           P(f) == AreRounds(lv, st, data, past, n, f)
<1>0. n \in Nat
  OBVIOUS
<1> HIDE DEF n
<1>1. Bad = {}
  <2> SUFFICES ASSUME Bad # {} PROVE FALSE
    OBVIOUS
  <2>1. Bad \subseteq Nat
    BY <1>0
  <2>2. PICK m \in Bad : \A k \in Bad : m <= k
    BY <2>1, LeastNumber
  <2>3. m # 0
    <3>1. AreRounds(lv, st, data, past, 0, [k \in 0..0 |-> {At0(st)}])
      BY DEF AreRounds
    <3> QED BY <2>2, <3>1
  <2>4. m - 1 \in 0..n /\ m - 1 \notin Bad /\ m \in 0..n
    BY <1>0, <2>2, <2>3
  <2>5. PICK f : AreRounds(lv, st, data, past, m - 1, f)
    BY <2>4
  <2> DEFINE g == [k \in 0..m |-> IF k = m THEN Goes(lv, data, past, f[m - 1]) ELSE f[k]]
  <2>6. \A k \in 0..(m - 1) : g[k] = f[k]
    BY <2>4
  <2>7. ASSUME NEW k \in 0..m
        PROVE  g[k] = IF k = 0 THEN {At0(st)} ELSE Goes(lv, data, past, g[k - 1])
    <3>1. CASE k = m
      <4>1. m - 1 \in 0..(m - 1)
        BY <1>0, <2>3, <2>4
      <4> QED BY <3>1, <4>1, <2>3, <2>6
    <3>2. CASE k # m
      <4>1. k \in 0..(m - 1) /\ (k # 0 => k - 1 \in 0..(m - 1))
        BY <3>2, <1>0, <2>4
      <4>2. f[k] = IF k = 0 THEN {At0(st)} ELSE Goes(lv, data, past, f[k - 1])
        BY <4>1, <2>5 DEF AreRounds
      <4> QED BY <4>1, <4>2, <2>6
    <3> QED BY <3>1, <3>2
  <2>8. AreRounds(lv, st, data, past, m, g)
    <3>1. g = [k \in 0..m |-> g[k]]
      OBVIOUS
    <3> HIDE DEF g
    <3> QED BY <3>1, <2>7 DEF AreRounds
  <2> QED BY <2>2, <2>8
<1>2. \E f : P(f)
  <2>1. n \in 0..n
    BY <1>0
  <2> QED BY <1>1, <2>1
<1>3. Rounds(lv, st, data, past) = CHOOSE f : P(f)
  BY DEF Rounds, AreRounds, Goes, At0, Place, n
<1> HIDE DEF P
<1>4. P(Rounds(lv, st, data, past))
  BY <1>2, <1>3
<1> QED BY <1>4 DEF P, n

(* The function of the rounds takes one reading to the next. *)
LEMMA RoundsStep ==
  ASSUME NEW lv, NEW st, NEW data, NEW past, Len(data) \in Nat
  PROVE  LET R == Rounds(lv, st, data, past)
         IN  /\ R[0] = {At0(st)}
             /\ \A n \in Nat : \A r : n < 4 * Len(data) /\ R[n] = {r} =>
                  R[n + 1] = {Read(lv, data, past, r)}
<1> DEFINE R == Rounds(lv, st, data, past)
           m == 4 * Len(data)
<1>1. R = [n \in 0..m |-> IF n = 0 THEN {At0(st)} ELSE Goes(lv, data, past, R[n - 1])]
  BY RoundsAreDefined DEF AreRounds
<1>2. m \in Nat
  OBVIOUS
<1> HIDE DEF R, m
<1>3. R[0] = {At0(st)}
  BY <1>1, <1>2
<1>4. ASSUME NEW n \in Nat, NEW r, n < m, R[n] = {r}
      PROVE  R[n + 1] = {Read(lv, data, past, r)}
  <2>1. n + 1 \in 0..m /\ n + 1 # 0 /\ (n + 1) - 1 = n
    BY <1>2, <1>4
  <2>2. R[n + 1] = Goes(lv, data, past, R[n])
    BY <1>1, <2>1
  <2> QED BY <1>4, <2>2 DEF Goes
<1> QED BY <1>3, <1>4 DEF R, m
-----------------------------------------------------------------------------
(* After n rounds the loop has come to a byte and a shift, whichever of the *)
(* dumps it reads and whatever follows it.                                  *)
Arrives(lv, dumps, from, n, i, sh, to) ==
  /\ n \in Nat /\ i \in Nat /\ sh \in Shifts
  /\ 2 * n <= 8 * i + sh
  /\ \A data \in dumps, past \in Past :
       /\ Len(data) \in Nat /\ 8 * i + sh <= 8 * Len(data)
       /\ Rounds(lv, from, data, past)[n] = {Place(i, sh, to)}

(* Before its first round the loop is at the first byte. *)
LEMMA ArrivesAtFirst ==
  ASSUME NEW lv, NEW dumps, NEW st, \A data \in dumps : Len(data) \in Nat
  PROVE  Arrives(lv, dumps, st, 0, 0, 0, st)
<1>1. ASSUME NEW data \in dumps, NEW past \in Past
      PROVE  Rounds(lv, st, data, past)[0] = {Place(0, 0, st)}
  BY RoundsStep DEF At0
<1> QED BY <1>1 DEF Arrives, Shifts

(* What holds of more dumps holds of fewer. *)
LEMMA ArrivesInFewer ==
  ASSUME NEW lv, NEW dumps, NEW fewer \in SUBSET dumps, NEW from, NEW n, NEW i, NEW sh, NEW to,
         Arrives(lv, dumps, from, n, i, sh, to)
  PROVE  Arrives(lv, fewer, from, n, i, sh, to)
BY DEF Arrives

(* One more round: the loop goes on from where it has arrived. *)
LEMMA OneRound ==
  ASSUME NEW lv, NEW dumps, NEW from, NEW n, NEW i, NEW sh, NEW to,
         Arrives(lv, dumps, from, n, i, sh, to),
         NEW i2 \in Nat, NEW sh2 \in Shifts, NEW to2,
         8 * i + sh + 2 <= 8 * i2 + sh2,
         \A data \in dumps, past \in Past :
           /\ 8 * i2 + sh2 <= 8 * Len(data)
           /\ Read(lv, data, past, Place(i, sh, to))
                = Place(i2, sh2, to2)
  PROVE  Arrives(lv, dumps, from, n + 1, i2, sh2, to2)
<1>1. n \in Nat /\ i \in Nat /\ sh \in Shifts /\ 2 * n <= 8 * i + sh
  BY DEF Arrives
<1>2. n + 1 \in Nat /\ 2 * (n + 1) <= 8 * i2 + sh2
  BY <1>1 DEF Shifts
<1>3. ASSUME NEW data \in dumps, NEW past \in Past
      PROVE  /\ Len(data) \in Nat /\ 8 * i2 + sh2 <= 8 * Len(data)
             /\ Rounds(lv, from, data, past)[n + 1] = {Place(i2, sh2, to2)}
  <2>1. /\ Len(data) \in Nat
        /\ Rounds(lv, from, data, past)[n] = {Place(i, sh, to)}
    BY DEF Arrives
  <2>2. 8 * i2 + sh2 <= 8 * Len(data)
    OBVIOUS
  <2>3. n < 4 * Len(data)
    BY <1>1, <2>1, <2>2 DEF Shifts
  <2>4. Rounds(lv, from, data, past)[n + 1]
          = {Read(lv, data, past, Place(i, sh, to))}
    BY <1>1, <2>1, <2>3, RoundsStep
  <2> QED BY <2>1, <2>2, <2>4
<1> QED BY <1>2, <1>3 DEF Arrives

(* Behind the last byte nothing more is read. *)
LEMMA StaysAtTheEnd ==
  ASSUME NEW lv, NEW st, NEW data, NEW past, Len(data) \in Nat,
         NEW n \in 0..(4 * Len(data)), NEW r, r.i = Len(data),
         Rounds(lv, st, data, past)[n] = {r}
  PROVE  Rounds(lv, st, data, past)[4 * Len(data)] = {r}
<1> DEFINE R == Rounds(lv, st, data, past)
           m == 4 * Len(data)
           Bad == {k \in n..m : R[k] # {r}}
<1>1. m \in Nat /\ n \in Nat /\ n <= m
  OBVIOUS
<1>2. \A k \in Nat : k < m /\ R[k] = {r} => R[k + 1] = {r}
  <2>1. Read(lv, data, past, r) = r
    BY DEF Read
  <2> QED BY <2>1, RoundsStep
<1> HIDE DEF R, m
<1>3. R[n] = {r}
  BY DEF R
<1>4. Bad = {}
  <2> SUFFICES ASSUME Bad # {} PROVE FALSE
    OBVIOUS
  <2>1. PICK k \in Bad : \A j \in Bad : k <= j
    <3>1. Bad \subseteq Nat
      BY <1>1
    <3> QED BY <3>1, LeastNumber
  <2>2. k # n
    BY <1>3, <2>1
  <2>3. k - 1 \in n..m /\ k - 1 \notin Bad /\ k - 1 \in Nat /\ k - 1 < m /\ (k - 1) + 1 = k
    BY <1>1, <2>1, <2>2
  <2>4. R[k - 1] = {r}
    BY <2>3
  <2> QED BY <1>2, <2>1, <2>3, <2>4
<1>5. m \in n..m
  BY <1>1
<1>6. R[m] = {r}
  BY <1>4, <1>5
<1> QED BY <1>6 DEF R, m
-----------------------------------------------------------------------------
(* Statuses in a byte. *)

(* Above the statuses a byte holds it is empty, and or-ing a status in adds *)
(* it above them.                                                           *)
LEMMA StatusAbove ==
  ASSUME NEW m \in Byte, NEW s \in LaterShifts, m < Weight(s)
  PROVE  /\ Shifted(m, s) % 4 = 0
         /\ m % Weight(s) = m
         /\ \A v \in Statuses : /\ OrAt(m, v, s) = m + v * Weight(s)
                                /\ OrAt(m, v, s) \in Byte
                                /\ s < 6 => OrAt(m, v, s) < Weight(s + 2)
<1> DEFINE G == /\ Shifted(m, s) % 4 = 0
                /\ m % Weight(s) = m
                /\ \A v \in {1, 2} : /\ OrAt(m, v, s) = m + v * Weight(s)
                                     /\ OrAt(m, v, s) \in Byte
                                     /\ s < 6 => OrAt(m, v, s) < Weight(s + 2)
<1>1. ASSUME s = 2 PROVE G
  <2>1. m \in 0..3
    BY <1>1 DEF Weight, Byte
  <2> QED BY <1>1, <2>1 DEF Shifted, Weight, OrAt, Or2, Byte
<1>2. ASSUME s = 4 PROVE G BY <1>2 DEF Shifted, Weight, OrAt, Or2, Byte
<1>3. ASSUME s = 6 PROVE G BY <1>3 DEF Shifted, Weight, OrAt, Or2, Byte
<1>4. Statuses = {1, 2}
  BY DEF Statuses
<1>5. G
  BY <1>1, <1>2, <1>3 DEF LaterShifts
<1> QED BY <1>4, <1>5

(* It is read where it has been put, whatever is added above it later.      *)
LEMMA StatusIsRead ==
  ASSUME NEW m \in Byte, NEW s \in LaterShifts, m < Weight(s), NEW v \in Statuses,
         NEW b \in Byte,
         b = m + v * Weight(s) \/ (s < 6 /\ b % Weight(s + 2) = m + v * Weight(s))
  PROVE  Shifted(b, s) % 4 = v /\ b % Weight(s) = m
<1>0. v \in {1, 2}
  BY DEF Statuses
<1>1. CASE s = 2 BY <1>0, <1>1 DEF Shifted, Weight, Byte
<1>2. CASE s = 4 BY <1>0, <1>2 DEF Shifted, Weight, Byte
<1>3. CASE s = 6 BY <1>0, <1>3 DEF Shifted, Weight, Byte
<1> QED BY <1>1, <1>2, <1>3 DEF LaterShifts

(* The lowest two bits of a byte are its first status. *)
LEMMA FirstStatus ==
  ASSUME NEW b \in Byte
  PROVE  /\ Shifted(b, 0) % 4 = b % 4
         /\ \A v \in {1, 2, 3} : OrAt(0, v, 0) = v
         /\ Weight(2) = 4
BY DEF Shifted, OrAt, Or2, Weight, Byte
-----------------------------------------------------------------------------
(* The dumps that begin with the N bytes of m; at the shift s # 0 more may  *)
(* be or-ed into the last of them.                                          *)
Dumps(m, N, s) ==
  {data \in Seq(Byte) : /\ Len(data) >= N
                        /\ \A a \in 0..(N - 1) :
                             IF s # 0 /\ a = N - 1 THEN data[a + 1] % Weight(s) = m[a]
                             ELSE data[a + 1] = m[a]}

(* Reading N bytes of m takes the analyser from one state to another: the   *)
(* loop arrives behind what has been stored, with nothing but unused bits   *)
(* left in the byte it is at.                                               *)
Reads(lv, m, N, s, from, to) ==
  \E n \in Nat, i \in Nat, sh \in Shifts :
    /\ Arrives(lv, Dumps(m, N, s), from, n, i, sh, to)
    /\ \/ sh = 0 /\ i = N /\ (N = 0 \/ s = 0)
       \/ sh # 0 /\ N = i + 1 /\ m[i] < Weight(sh) /\ s \in {0, sh}

(* A dump is a sequence of at least as many bytes as are stored. *)
LEMMA DumpsType ==
  ASSUME NEW m, NEW N \in Nat, NEW s, NEW data \in Dumps(m, N, s)
  PROVE  /\ data \in Seq(Byte) /\ Len(data) \in Nat /\ N <= Len(data)
         /\ \A a \in 0..(Len(data) - 1) : data[a + 1] \in Byte
<1>1. data \in Seq(Byte) /\ N <= Len(data)
  BY DEF Dumps
<1>2. Len(data) \in Nat
  BY <1>1, LenProperties
<1>3. ASSUME NEW a \in 0..(Len(data) - 1) PROVE data[a + 1] \in Byte
  <2>1. a + 1 \in 1..Len(data)
    BY <1>2
  <2> QED BY <1>1, <2>1, ElementOfSeq
<1> QED BY <1>1, <1>2, <1>3

(* Nothing is read from an empty buffer. *)
LEMMA ReadsNothing ==
  ASSUME NEW lv, NEW m, NEW s, NEW st
  PROVE  Reads(lv, m, 0, s, st, st)
<1>1. \A data \in Dumps(m, 0, s) : Len(data) \in Nat
  BY DumpsType
<1>2. Arrives(lv, Dumps(m, 0, s), st, 0, 0, 0, st)
  BY <1>1, ArrivesAtFirst
<1> QED BY <1>2 DEF Reads, Shifts

(* testNotRun at a shift above 0: on to the next byte, if it is not empty,  *)
(* or to the end of the dump.                                               *)
LEMMA ReadOn ==
  ASSUME NEW lv, NEW data, NEW past, NEW i \in Nat, NEW sh \in LaterShifts, NEW st,
         Len(data) \in Nat, i < Len(data), Status(data, i, sh) = 0, At(data, i + 1, past) # 0
  PROVE  Read(lv, data, past, Place(i, sh, st)) = Place(i + 1, 0, st)
<1> DEFINE found == IF lv <= 1 THEN SuccessAt(data, lv = 0, i, sh, past)
                    ELSE ResultAt(data, lv = 3, i, sh, past)
<1>1. found = NotRunAt(data, i, sh, past)
  BY DEF SuccessAt, ResultAt
<1>2. ~(i >= Len(data)) /\ sh > 0
  BY DEF LaterShifts
<1>3. Read(lv, data, past, Place(i, sh, st))
        = Place(found.i, found.shift, Apply(lv, st, found.event))
  BY <1>2 DEF Read, Place
<1> HIDE DEF found
<1>4. Apply(lv, st, NoEvent) = st
  BY DEF Apply, NoEvent
<1>5. found = [event |-> NoEvent, i |-> i + 1, shift |-> 0]
  BY <1>1, <1>2 DEF NotRunAt, Found
<1> QED BY <1>3, <1>4, <1>5

(* An empty status followed by a zero byte ends the loop. *)
LEMMA ReadToTheEnd ==
  ASSUME NEW lv, NEW data, NEW past, NEW i \in Nat, NEW sh \in LaterShifts, NEW st,
         Len(data) \in Nat, i < Len(data), Status(data, i, sh) = 0, At(data, i + 1, past) = 0
  PROVE  Read(lv, data, past, Place(i, sh, st)) = Place(Len(data), 0, st)
<1> DEFINE found == IF lv <= 1 THEN SuccessAt(data, lv = 0, i, sh, past)
                    ELSE ResultAt(data, lv = 3, i, sh, past)
<1>1. found = NotRunAt(data, i, sh, past)
  BY DEF SuccessAt, ResultAt
<1>2. ~(i >= Len(data)) /\ sh > 0
  BY DEF LaterShifts
<1>3. Read(lv, data, past, Place(i, sh, st))
        = Place(found.i, found.shift, Apply(lv, st, found.event))
  BY <1>2 DEF Read, Place
<1> HIDE DEF found
<1>4. Apply(lv, st, NoEvent) = st
  BY DEF Apply, NoEvent
<1>5. found = [event |-> NoEvent, i |-> Len(data), shift |-> 0]
  BY <1>1, <1>2 DEF NotRunAt, Found
<1> QED BY <1>3, <1>4, <1>5

(* A status found in a packed byte. *)
EventOf(v) == IF v = 1 THEN OkEvent ELSE FailEvent(<< >>, << >>, << >>)

(* A round that meets a packed status shows it and goes to the next one. *)
LEMMA ReadStatus ==
  ASSUME NEW lv \in 0..3, NEW data, NEW past, NEW i \in Nat, NEW sh \in Shifts, NEW st,
         Len(data) \in Nat, i < Len(data), NEW v \in Statuses, Status(data, i, sh) = v,
         v = 2 => lv <= 1
  PROVE  Read(lv, data, past, Place(i, sh, st))
           = Place(IF sh < 6 THEN i ELSE i + 1, IF sh < 6 THEN sh + 2 ELSE 0,
                   Apply(lv, st, EventOf(v)))
<1> DEFINE found == IF lv <= 1 THEN SuccessAt(data, lv = 0, i, sh, past)
                    ELSE ResultAt(data, lv = 3, i, sh, past)
<1>1. found = ThenNextStatus(EventOf(v), i, sh)
  <2>1. CASE v = 1
    BY <2>1 DEF SuccessAt, ResultAt, EventOf
  <2>2. CASE v = 2
    BY <2>2 DEF SuccessAt, EventOf
  <2>3. v = 1 \/ v = 2
    BY DEF Statuses
  <2> QED BY <2>1, <2>2, <2>3
<1>2. ~(i >= Len(data))
  OBVIOUS
<1>3. Read(lv, data, past, Place(i, sh, st))
        = Place(found.i, found.shift, Apply(lv, st, found.event))
  BY <1>2 DEF Read, Place
<1> HIDE DEF found
<1>4. found = [event |-> EventOf(v), i |-> IF sh < 6 THEN i ELSE i + 1,
               shift |-> IF sh < 6 THEN sh + 2 ELSE 0]
  BY <1>1 DEF ThenNextStatus, Found
<1> QED BY <1>3, <1>4

(* The buffer itself is one of the dumps. *)
LEMMA OwnDump ==
  ASSUME NEW N \in Nat, NEW m, \A a \in 0..(N - 1) : m[a] \in Byte,
         NEW s \in Shifts, s # 0 /\ N > 0 => m[N - 1] < Weight(s)
  PROVE  /\ [k \in 1..N |-> m[k - 1]] \in Dumps(m, N, s)
         /\ Len([k \in 1..N |-> m[k - 1]]) = N
<1> DEFINE d == [k \in 1..N |-> m[k - 1]]
<1>1. d \in Seq(Byte) /\ Len(d) = N
  <2>1. \A k \in 1..N : k - 1 \in 0..(N - 1)
    OBVIOUS
  <2>2. d \in [1..N -> Byte]
    BY <2>1
  <2> QED BY <2>2, LenFromDomain
<1>2. ASSUME NEW a \in 0..(N - 1)
      PROVE  IF s # 0 /\ a = N - 1 THEN d[a + 1] % Weight(s) = m[a] ELSE d[a + 1] = m[a]
  <2>1. a + 1 \in 1..N /\ (a + 1) - 1 = a
    OBVIOUS
  <2>2. d[a + 1] = m[a]
    BY <2>1
  <2>3. CASE s # 0 /\ a = N - 1
    <3>1. m[a] \in Byte /\ m[a] < Weight(s) /\ s \in LaterShifts
      BY <2>3 DEF Shifts, LaterShifts
    <3>2. m[a] % Weight(s) = m[a]
      BY <3>1, StatusAbove
    <3> QED BY <2>2, <2>3, <3>2
  <2> QED BY <2>2, <2>3
<1> HIDE DEF d
<1>3. d \in Dumps(m, N, s)
  BY <1>1, <1>2 DEF Dumps
<1> QED BY <1>1, <1>3 DEF d

(* What the analyser has found when it has read the whole dump. *)
LEMMA AnalysesAll ==
  ASSUME NEW lv, NEW m, NEW N \in Nat, \A a \in 0..(N - 1) : m[a] \in Byte,
         NEW s \in Shifts, s # 0 /\ N > 0 => m[N - 1] < Weight(s),
         NEW from, NEW to, Reads(lv, m, N, s, from, to)
  PROVE  Analyse(lv, from, [k \in 1..N |-> m[k - 1]]) = {to}
<1> DEFINE d == [k \in 1..N |-> m[k - 1]]
<1>1. d \in Dumps(m, N, s) /\ Len(d) = N
  BY OwnDump
<1>2. \A a \in 0..(N - 1) : d[a + 1] = m[a]
  OBVIOUS
<1>3. PICK n \in Nat, i \in Nat, sh \in Shifts :
        /\ Arrives(lv, Dumps(m, N, s), from, n, i, sh, to)
        /\ \/ sh = 0 /\ i = N /\ (N = 0 \/ s = 0)
           \/ sh # 0 /\ N = i + 1 /\ m[i] < Weight(sh) /\ s \in {0, sh}
  BY DEF Reads
<1> HIDE DEF d
<1>4. ASSUME NEW past \in Past
      PROVE  \E r : r.st = to /\ Rounds(lv, from, d, past)[4 * Len(d)] = {r}
  <2> DEFINE R == Rounds(lv, from, d, past)
             r0 == Place(i, sh, to)
  <2>1. R[n] = {r0} /\ 2 * n <= 8 * i + sh
    BY <1>1, <1>3 DEF Arrives
  <2>2. CASE sh = 0 /\ i = N
    <3>1. n \in 0..(4 * Len(d)) /\ r0.i = Len(d) /\ Len(d) \in Nat
      BY <1>1, <2>1, <2>2 DEF Place
    <3> HIDE DEF r0
    <3>2. R[4 * Len(d)] = {r0}
      BY <2>1, <3>1, StaysAtTheEnd
    <3> QED BY <3>2 DEF r0, Place
  <2>3. CASE sh # 0 /\ N = i + 1 /\ m[i] < Weight(sh)
    <3> DEFINE r1 == Place(Len(d), 0, to)
    <3>1. i < Len(d) /\ Len(d) \in Nat /\ n < 4 * Len(d) /\ i \in 0..(N - 1) /\ sh \in LaterShifts
      BY <1>1, <2>1, <2>3 DEF Shifts, LaterShifts
    <3>2. Status(d, i, sh) = 0
      <4>1. m[i] \in Byte /\ d[i + 1] = m[i]
        BY <1>2, <3>1
      <4>2. Shifted(m[i], sh) % 4 = 0
        BY <2>3, <3>1, <4>1, StatusAbove
      <4> QED BY <4>1, <4>2 DEF Status
    <3>3. Read(lv, d, past, r0) = r1
      <4>1. i + 1 = Len(d)
        BY <1>1, <2>3
      <4>2. CASE At(d, i + 1, past) # 0
        BY <3>1, <3>2, <4>1, <4>2, ReadOn
      <4>3. CASE At(d, i + 1, past) = 0
        BY <3>1, <3>2, <4>3, ReadToTheEnd
      <4> QED BY <4>2, <4>3
    <3> HIDE DEF r0
    <3>4. R[n + 1] = {r1}
      BY <2>1, <3>1, <3>3, RoundsStep
    <3>5. n + 1 \in 0..(4 * Len(d)) /\ r1.i = Len(d)
      BY <3>1 DEF Place
    <3>6. r1.st = to
      BY DEF Place
    <3> HIDE DEF r1
    <3>7. R[4 * Len(d)] = {r1}
      BY <3>1, <3>4, <3>5, StaysAtTheEnd
    <3> QED BY <3>6, <3>7
  <2> QED BY <1>3, <2>2, <2>3
<1>5. \A past \in Past : {r.st : r \in Rounds(lv, from, d, past)[4 * Len(d)]} = {to}
  BY <1>4
<1>6. Past # {}
  BY DEF Past
<1>7. Analyse(lv, from, d) = {to}
  <2> DEFINE S(past) == {r.st : r \in Rounds(lv, from, d, past)[4 * Len(d)]}
  <2>1. Analyse(lv, from, d) = UNION {S(past) : data \in {d}, past \in Past}
    BY DEF Analyse
  <2>2. \A past \in Past : S(past) = {to}
    BY <1>5
  <2> HIDE DEF S
  <2>3. Analyse(lv, from, d) \subseteq {to}
    BY <2>1, <2>2
  <2>4. PICK past \in Past : TRUE
    BY <1>6
  <2>5. S(past) \in {S(p) : data \in {d}, p \in Past}
    OBVIOUS
  <2>6. to \in Analyse(lv, from, d)
    BY <2>1, <2>2, <2>5
  <2> QED BY <2>3, <2>6
<1> QED BY <1>7 DEF d

(* The loop comes to a record that is stored behind what it has read. *)
LEMMA ArrivesBehind ==
  ASSUME NEW lv, NEW m, NEW N \in Nat, \A a \in 0..(N - 1) : m[a] \in Byte,
         NEW s \in Shifts, s # 0 /\ N > 0 => m[N - 1] < Weight(s),
         NEW from, NEW to, Reads(lv, m, N, s, from, to),
         NEW m2, NEW N2 \in Nat, N2 > N, NEW s2 \in Shifts,
         \A a \in 0..(N - 1) : m2[a] = m[a],
         m2[N] \in Byte, m2[N] # 0
  PROVE  \E n : Arrives(lv, Dumps(m2, N2, s2), from, n, N, 0, to)
<1> DEFINE D == Dumps(m, N, s)
           D2 == Dumps(m2, N2, s2)
<1>1. ASSUME NEW data \in D2
      PROVE  /\ \A a \in 0..(N - 1) : data[a + 1] = m[a]
             /\ data[N + 1] # 0 /\ data[N + 1] \in Byte
             /\ Len(data) \in Nat /\ N < Len(data)
  <2>1. data \in Seq(Byte) /\ Len(data) \in Nat /\ N2 <= Len(data)
        /\ \A a \in 0..(Len(data) - 1) : data[a + 1] \in Byte
    BY DumpsType
  <2>2. \A a \in 0..(N2 - 1) :
          IF s2 # 0 /\ a = N2 - 1 THEN data[a + 1] % Weight(s2) = m2[a]
          ELSE data[a + 1] = m2[a]
    BY DEF Dumps
  <2>3. \A a \in 0..(N - 1) : a \in 0..(N2 - 1) /\ a # N2 - 1
    OBVIOUS
  <2>4. N \in 0..(N2 - 1) /\ N \in 0..(Len(data) - 1) /\ N < Len(data)
    BY <2>1
  <2>5. data[N + 1] # 0
    <3>1. CASE s2 # 0 /\ N = N2 - 1
      <4>1. data[N + 1] % Weight(s2) # 0
        BY <2>2, <2>4, <3>1
      <4>2. s2 \in LaterShifts
        BY <3>1 DEF Shifts, LaterShifts
      <4>3. \A s3 \in LaterShifts : 0 % Weight(s3) = 0
        BY DEF Weight, LaterShifts
      <4> QED BY <4>1, <4>2, <4>3
    <3>2. CASE ~(s2 # 0 /\ N = N2 - 1)
      BY <2>2, <2>4, <3>2
    <3> QED BY <3>1, <3>2
  <2> QED BY <2>1, <2>2, <2>3, <2>4, <2>5
<1>2. D2 \in SUBSET D
  <2> SUFFICES ASSUME NEW data \in D2 PROVE data \in D
    OBVIOUS
  <2>1. data \in Seq(Byte) /\ N <= Len(data)
    BY <1>1, DumpsType
  <2>2. ASSUME NEW a \in 0..(N - 1), s # 0, a = N - 1
        PROVE  data[a + 1] % Weight(s) = m[a]
    <3>1. m[a] \in Byte /\ m[a] < Weight(s) /\ s \in LaterShifts /\ data[a + 1] = m[a]
      BY <1>1, <2>2 DEF Shifts, LaterShifts
    <3> QED BY <3>1, StatusAbove
  <2> QED BY <1>1, <2>1, <2>2 DEF Dumps
<1>3. PICK n \in Nat, i \in Nat, sh \in Shifts :
        /\ Arrives(lv, D, from, n, i, sh, to)
        /\ \/ sh = 0 /\ i = N /\ (N = 0 \/ s = 0)
           \/ sh # 0 /\ N = i + 1 /\ m[i] < Weight(sh) /\ s \in {0, sh}
  BY DEF Reads
<1>4. Arrives(lv, D2, from, n, i, sh, to)
  BY <1>2, <1>3, ArrivesInFewer
<1> HIDE DEF D, D2
<1>5. ASSUME sh = 0, i = N
      PROVE  \E nn : Arrives(lv, D2, from, nn, N, 0, to)
  <2>1. Arrives(lv, D2, from, n, N, 0, to)
    BY <1>4, <1>5
  <2> QED BY <2>1
<1>6. ASSUME sh # 0, N = i + 1, m[i] < Weight(sh)
      PROVE  \E nn : Arrives(lv, D2, from, nn, N, 0, to)
  <2>1. sh \in LaterShifts /\ i \in 0..(N - 1) /\ m[i] \in Byte
    BY <1>6 DEF Shifts, LaterShifts
  <2>2. ASSUME NEW data \in D2, NEW past \in Past
        PROVE  /\ 8 * N + 0 <= 8 * Len(data)
               /\ Read(lv, data, past, Place(i, sh, to))
                    = Place(N, 0, to)
    <3>1. /\ data[i + 1] = m[i] /\ data[N + 1] # 0
          /\ Len(data) \in Nat /\ N < Len(data) /\ i < Len(data)
      BY <1>1, <1>6, <2>1
    <3>2. Status(data, i, sh) = 0
      <4>1. Shifted(m[i], sh) % 4 = 0
        BY <1>6, <2>1, StatusAbove
      <4> QED BY <3>1, <4>1 DEF Status
    <3>3. At(data, i + 1, past) # 0
      BY <1>6, <3>1 DEF At
    <3>4. Read(lv, data, past, Place(i, sh, to))
            = Place(i + 1, 0, to)
      BY <2>1, <3>1, <3>2, <3>3, ReadOn
    <3>5. 8 * N + 0 <= 8 * Len(data)
      BY <3>1
    <3> QED BY <1>6, <3>4, <3>5
  <2>3. 8 * i + sh + 2 <= 8 * N + 0
    BY <1>6, <2>1 DEF LaterShifts
  <2>4. Arrives(lv, D2, from, n + 1, N, 0, to)
    <3>1. 0 \in Shifts
      BY DEF Shifts
    <3> QED BY <1>4, <2>2, <2>3, <3>1, OneRound
  <2> QED BY <2>4
<1>7. \E nn : Arrives(lv, D2, from, nn, N, 0, to)
  BY <1>3, <1>5, <1>6
<1> QED BY <1>7 DEF D2

(* A status packed into a new byte. *)
LEMMA ReadsNewByte ==
  ASSUME NEW lv \in 0..3, NEW m, NEW N \in Nat, \A a \in 0..(N - 1) : m[a] \in Byte,
         NEW s \in Shifts, s # 0 /\ N > 0 => m[N - 1] < Weight(s),
         NEW from, NEW to, Reads(lv, m, N, s, from, to),
         NEW m2, \A a \in 0..(N - 1) : m2[a] = m[a],
         NEW v \in Statuses, v = 2 => lv <= 1, m2[N] = v
  PROVE  Reads(lv, m2, N + 1, 2, from, Apply(lv, to, EventOf(v)))
<1> DEFINE D2 == Dumps(m2, N + 1, 2)
<1>1. PICK n : Arrives(lv, D2, from, n, N, 0, to)
  <2>1. N + 1 \in Nat /\ N + 1 > N /\ 2 \in Shifts /\ m2[N] \in Byte /\ m2[N] # 0
    BY DEF Byte, Shifts, Statuses
  <2> QED BY <2>1, ArrivesBehind
<1>2. ASSUME NEW data \in D2, NEW past \in Past
      PROVE  /\ 8 * N + 2 <= 8 * Len(data)
             /\ Read(lv, data, past, Place(N, 0, to))
                  = Place(N, 2, Apply(lv, to, EventOf(v)))
  <2>1. Len(data) \in Nat /\ N + 1 <= Len(data) /\ N < Len(data)
        /\ \A a \in 0..(Len(data) - 1) : data[a + 1] \in Byte
    <3>1. N + 1 \in Nat
      OBVIOUS
    <3>2. Len(data) \in Nat /\ N + 1 <= Len(data)
          /\ \A a \in 0..(Len(data) - 1) : data[a + 1] \in Byte
      BY <3>1, DumpsType
    <3> QED BY <3>2
  <2>2. data[N + 1] \in Byte
    BY <2>1
  <2>3. data[N + 1] % 4 = v
    <3>1. N \in 0..((N + 1) - 1) /\ N = (N + 1) - 1
      OBVIOUS
    <3>2. data[N + 1] % Weight(2) = m2[N]
      BY <3>1 DEF Dumps
    <3>3. Weight(2) = 4
      BY DEF Weight
    <3> QED BY <3>2, <3>3
  <2>4. Status(data, N, 0) = v
    BY <2>2, <2>3, FirstStatus DEF Status
  <2>5. 0 < 6 /\ 0 + 2 = 2 /\ 0 \in Shifts /\ 8 * N + 2 <= 8 * Len(data)
    BY <2>1 DEF Shifts
  <2>6. Read(lv, data, past, Place(N, 0, to))
          = Place(IF 0 < 6 THEN N ELSE N + 1, IF 0 < 6 THEN 0 + 2 ELSE 0,
                  Apply(lv, to, EventOf(v)))
    BY <2>1, <2>4, <2>5, ReadStatus
  <2> QED BY <2>5, <2>6
<1>3. Arrives(lv, D2, from, n + 1, N, 2, Apply(lv, to, EventOf(v)))
  <2>1. 8 * N + 0 + 2 <= 8 * N + 2 /\ N \in Nat /\ 2 \in Shifts
    BY DEF Shifts
  <2> HIDE DEF D2
  <2> QED BY <1>1, <1>2, <2>1, OneRound
<1>4. n + 1 \in Nat
  BY <1>1 DEF Arrives
<1>5. m2[N] < Weight(2) /\ 2 \in Shifts
  BY DEF Weight, Shifts, Statuses
<1> QED BY <1>3, <1>4, <1>5 DEF Reads

(* A status packed into the byte the one before it is in. *)
LEMMA ReadsSameByte ==
  ASSUME NEW lv \in 0..3, NEW m, NEW N \in Nat, \A a \in 0..(N - 1) : m[a] \in Byte,
         N > 0, NEW s \in LaterShifts, m[N - 1] < Weight(s),
         NEW from, NEW to, Reads(lv, m, N, s, from, to),
         NEW m2, \A a \in 0..(N - 2) : m2[a] = m[a],
         NEW v \in Statuses, v = 2 => lv <= 1, m2[N - 1] = OrAt(m[N - 1], v, s)
  PROVE  Reads(lv, m2, N, (s + 2) % 8, from, Apply(lv, to, EventOf(v)))
<1> DEFINE s2 == (s + 2) % 8
           D == Dumps(m, N, s)
           D2 == Dumps(m2, N, s2)
           i == N - 1
<1>1. i \in Nat /\ N = i + 1 /\ m[i] \in Byte /\ m[i] < Weight(s) /\ i \in 0..(N - 1)
  OBVIOUS
<1>2. m2[i] = m[i] + v * Weight(s) /\ m2[i] \in Byte /\ (s < 6 => m2[i] < Weight(s + 2))
  BY <1>1, StatusAbove
<1>3. (s < 6 => s2 = s + 2) /\ (s = 6 => s2 = 0) /\ s2 \in Shifts /\ (s2 # 0 => s < 6)
  BY DEF Shifts, LaterShifts
<1> HIDE DEF s2
<1>4. ASSUME NEW data \in D2
      PROVE  /\ Shifted(data[i + 1], s) % 4 = v /\ data[i + 1] % Weight(s) = m[i]
             /\ Len(data) \in Nat /\ N <= Len(data)
  <2>1. data \in Seq(Byte) /\ Len(data) \in Nat /\ N <= Len(data)
        /\ \A a \in 0..(Len(data) - 1) : data[a + 1] \in Byte
    BY DumpsType
  <2>2. data[i + 1] \in Byte
    <3>1. i \in 0..(Len(data) - 1)
      BY <1>1, <2>1
    <3> HIDE DEF i
    <3> QED BY <2>1, <3>1
  <2>3. IF s2 # 0 THEN data[i + 1] % Weight(s2) = m2[i] ELSE data[i + 1] = m2[i]
    BY <1>1 DEF Dumps
  <2>4. data[i + 1] = m[i] + v * Weight(s)
        \/ (s < 6 /\ data[i + 1] % Weight(s + 2) = m[i] + v * Weight(s))
    BY <1>2, <1>3, <2>3
  <2> HIDE DEF i
  <2> QED BY <1>1, <2>1, <2>2, <2>4, StatusIsRead
<1>5. D2 \in SUBSET D
  <2> SUFFICES ASSUME NEW data \in D2 PROVE data \in D
    OBVIOUS
  <2>1. data \in Seq(Byte) /\ N <= Len(data)
    BY DEF Dumps
  <2>2. data[i + 1] % Weight(s) = m[i]
    BY <1>4
  <2>3. ASSUME NEW a \in 0..(N - 1), a # i PROVE data[a + 1] = m[a]
    <3>1. a \in 0..(N - 2)
      BY <2>3
    <3>2. data[a + 1] = m2[a]
      BY <2>3 DEF Dumps
    <3> QED BY <3>1, <3>2
  <2>4. s # 0
    BY DEF LaterShifts
  <2>5. ASSUME NEW a \in 0..(N - 1)
        PROVE  IF s # 0 /\ a = N - 1 THEN data[a + 1] % Weight(s) = m[a]
               ELSE data[a + 1] = m[a]
    <3>1. CASE a = i BY <2>2, <2>4, <3>1
    <3>2. CASE a # i BY <2>3, <3>2
    <3> QED BY <3>1, <3>2
  <2> QED BY <2>1, <2>5 DEF Dumps
<1>6. PICK n \in Nat : Arrives(lv, D, from, n, i, s, to)
  <2>1. PICK n \in Nat, j \in Nat, sh \in Shifts :
          /\ Arrives(lv, D, from, n, j, sh, to)
          /\ \/ sh = 0 /\ j = N /\ (N = 0 \/ s = 0)
             \/ sh # 0 /\ N = j + 1 /\ m[j] < Weight(sh) /\ s \in {0, sh}
    BY DEF Reads
  <2>2. sh = s /\ j = i
    BY <2>1 DEF LaterShifts
  <2> QED BY <2>1, <2>2
<1>7. Arrives(lv, D2, from, n, i, s, to)
  BY <1>5, <1>6, ArrivesInFewer
<1> DEFINE i2 == IF s < 6 THEN i ELSE i + 1
           sh2 == IF s < 6 THEN s + 2 ELSE 0
<1>8. ASSUME NEW data \in D2, NEW past \in Past
      PROVE  /\ 8 * i2 + sh2 <= 8 * Len(data)
             /\ Read(lv, data, past, Place(i, s, to))
                  = Place(i2, sh2, Apply(lv, to, EventOf(v)))
  <2>1. Len(data) \in Nat /\ N <= Len(data) /\ Status(data, i, s) = v
    BY <1>4 DEF Status
  <2>2. 8 * i2 + sh2 <= 8 * Len(data)
    BY <1>1, <2>1 DEF LaterShifts
  <2>3. i < Len(data) /\ s \in Shifts
    BY <1>1, <2>1 DEF Shifts, LaterShifts
  <2> HIDE DEF i
  <2>4. Read(lv, data, past, Place(i, s, to))
          = Place(i2, sh2, Apply(lv, to, EventOf(v)))
    BY <1>1, <2>1, <2>3, ReadStatus
  <2> QED BY <2>2, <2>4
<1>9. Arrives(lv, D2, from, n + 1, i2, sh2, Apply(lv, to, EventOf(v)))
  <2>1. 8 * i + s + 2 <= 8 * i2 + sh2 /\ i2 \in Nat /\ sh2 \in Shifts
    BY <1>1 DEF Shifts, LaterShifts
  <2>2. i \in Nat /\ s \in Shifts
    BY DEF Shifts, LaterShifts
  <2> HIDE DEF D2, i, i2, sh2
  <2> QED BY <1>7, <1>8, <2>1, OneRound
<1>10. \/ sh2 = 0 /\ i2 = N /\ (N = 0 \/ s2 = 0)
       \/ sh2 # 0 /\ N = i2 + 1 /\ m2[i2] < Weight(sh2) /\ s2 \in {0, sh2}
  <2>1. CASE s < 6
    <3>1. i2 = i /\ sh2 = s + 2 /\ s2 = sh2 /\ sh2 # 0
      BY <1>3, <2>1 DEF LaterShifts
    <3> HIDE DEF i2, sh2
    <3> QED BY <1>1, <1>2, <2>1, <3>1
  <2>2. CASE s = 6
    BY <1>1, <1>3, <2>2
  <2> QED BY <2>1, <2>2 DEF LaterShifts
<1>11. n + 1 \in Nat /\ i2 \in Nat /\ sh2 \in Shifts
  BY <1>1, <1>6 DEF Shifts, LaterShifts
<1> HIDE DEF D, D2, i, i2, sh2
<1>12. Reads(lv, m2, N, s2, from, Apply(lv, to, EventOf(v)))
  BY <1>9, <1>10, <1>11 DEF Reads, D2
<1> QED BY <1>12 DEF s2
-----------------------------------------------------------------------------
(* Records. *)

(* A dump of whole bytes holds what the memory held. *)
LEMMA DumpByte ==
  ASSUME NEW m, NEW N \in Nat, NEW data \in Dumps(m, N, 0), NEW past, NEW a \in 0..(N - 1)
  PROVE  At(data, a, past) = m[a] /\ a < Len(data) /\ Len(data) \in Nat
<1>1. Len(data) \in Nat /\ N <= Len(data)
  BY DumpsType
<1>2. data[a + 1] = m[a]
  BY DEF Dumps
<1>3. a < Len(data)
  BY <1>1
<1> QED BY <1>1, <1>2, <1>3 DEF At

(* N bytes have been stored, with a shift in the last of them. *)
Filled(m, N, s) ==
  /\ N \in Nat /\ s \in Shifts
  /\ \A a \in 0..(N - 1) : m[a] \in Byte
  /\ s # 0 /\ N > 0 => m[N - 1] < Weight(s)

(* The memory m2 still begins with the N bytes of m. *)
Keeps(m2, m, N) == \A a \in 0..(N - 1) : m2[a] = m[a]

(* The loop is behind N bytes of m, or in an empty part of the last of them. *)
IsBehind(m, N, i, sh) ==
  /\ N \in Nat /\ i \in Nat /\ sh \in Shifts
  /\ \/ sh = 0 /\ i = N
     \/ sh # 0 /\ N = i + 1 /\ m[i] < Weight(sh)

(* A record that one round reads is read behind what has been read before. *)
LEMMA ReadsRecord ==
  ASSUME NEW lv, NEW m, NEW N, NEW s, Filled(m, N, s),
         NEW from, NEW to, Reads(lv, m, N, s, from, to),
         NEW m2, Keeps(m2, m, N), m2[N] \in Byte, m2[N] # 0,
         NEW N2, N2 > N, NEW i2, NEW sh2, IsBehind(m2, N2, i2, sh2), 8 * N + 2 <= 8 * i2 + sh2,
         NEW to2,
         \A data \in Dumps(m2, N2, 0), past \in Past :
           Read(lv, data, past, Place(N, 0, to)) = Place(i2, sh2, to2)
  PROVE  Reads(lv, m2, N2, 0, from, to2)
<1> DEFINE D2 == Dumps(m2, N2, 0)
<1>0. /\ N \in Nat /\ s \in Shifts /\ N2 \in Nat /\ i2 \in Nat /\ sh2 \in Shifts
      /\ \A a \in 0..(N - 1) : m[a] \in Byte
      /\ s # 0 /\ N > 0 => m[N - 1] < Weight(s)
      /\ \A a \in 0..(N - 1) : m2[a] = m[a]
      /\ \/ sh2 = 0 /\ i2 = N2
         \/ sh2 # 0 /\ N2 = i2 + 1 /\ m2[i2] < Weight(sh2)
  BY DEF Filled, Keeps, IsBehind
<1>1. PICK n : Arrives(lv, D2, from, n, N, 0, to)
  <2>1. 0 \in Shifts
    BY DEF Shifts
  <2> QED BY <1>0, <2>1, ArrivesBehind
<1>2. ASSUME NEW data \in D2, NEW past \in Past
      PROVE  /\ 8 * i2 + sh2 <= 8 * Len(data)
             /\ Read(lv, data, past, Place(N, 0, to)) = Place(i2, sh2, to2)
  <2>1. Len(data) \in Nat /\ N2 <= Len(data)
    BY <1>0, DumpsType
  <2>2. 8 * i2 + sh2 <= 8 * Len(data)
    BY <1>0, <2>1 DEF Shifts
  <2> QED BY <2>2
<1>3. Arrives(lv, D2, from, n + 1, i2, sh2, to2)
  <2>1. 8 * N + 0 + 2 <= 8 * i2 + sh2 /\ 0 \in Shifts
    BY <1>0 DEF Shifts
  <2> HIDE DEF D2
  <2> QED BY <1>0, <1>1, <1>2, <2>1, OneRound
<1>4. n + 1 \in Nat
  BY <1>1 DEF Arrives
<1>5. 0 \in {0, sh2}
  OBVIOUS
<1> QED BY <1>0, <1>3, <1>4, <1>5 DEF Reads

(* m holds the bytes of a sequence from an address on. *)
Holds(m, at, bytes) == \A k \in 1..Len(bytes) : m[at + k - 1] = bytes[k]

OrdinaryText(text) ==
  /\ text \in Seq(Byte)
  /\ Len(text) \in 1..255
  /\ text[Len(text)] = 0
  /\ \A k \in 1..(Len(text) - 1) : text[k] # 0

(* The C string of a name is the name. *)
LEMMA TextIsRead ==
  ASSUME NEW text, OrdinaryText(text), NEW m, NEW at \in Nat, Holds(m, at, text),
         NEW N, N = at + Len(text), NEW data \in Dumps(m, N, 0), NEW past
  PROVE  CString(data, at, past) = NulEnd(text)
<1> DEFINE len == Len(text)
           ends == {k \in at..Len(data) : At(data, k, past) = 0}
           e == at + len - 1
           IsLast(k) == k \in ends \union {Len(data)} /\ \A j \in ends : k <= j
<1>0. text \in Seq(Byte) /\ len \in 1..255 /\ text[len] = 0 /\ N = at + len
  BY Zenon DEF OrdinaryText
<1> HIDE DEF len
<1>1. /\ len \in 1..255 /\ text[len] = 0 /\ N \in Nat /\ e \in Nat /\ N = at + len
      /\ len \in 1..len /\ e = at + len - 1 /\ e < N
  <2>1. len \in 1..255
    BY <1>0
  <2> QED BY <1>0, <2>1
<1>2. ASSUME NEW k \in 1..len
      PROVE  At(data, at + k - 1, past) = text[k] /\ at + k - 1 <= Len(data)
             /\ Len(data) \in Nat
  <2>1. at + k - 1 \in 0..(N - 1)
    BY <1>1
  <2>2. m[at + k - 1] = text[k]
    BY DEF Holds, len
  <2>3. At(data, at + k - 1, past) = m[at + k - 1] /\ at + k - 1 < Len(data)
        /\ Len(data) \in Nat
    BY <1>1, <2>1, DumpByte
  <2> QED BY <1>1, <2>1, <2>2, <2>3
<1>3. e \in ends
  <2>1. /\ At(data, at + len - 1, past) = 0 /\ at + len - 1 <= Len(data) /\ Len(data) \in Nat
    BY <1>1, <1>2
  <2>2. e \in at..Len(data)
    BY <1>1, <2>1
  <2> QED BY <2>1, <2>2
<1>4. ASSUME NEW j \in ends PROVE e <= j
  <2>1. j \in Nat /\ at <= j /\ At(data, j, past) = 0
    <3>1. Len(data) \in Nat
      BY <1>1, <1>2
    <3> QED BY <1>4, <3>1
  <2> SUFFICES ASSUME j < e PROVE FALSE
    BY <1>1, <2>1
  <2>2. (j - at + 1) \in 1..(len - 1) /\ (j - at + 1) \in 1..len /\ at + (j - at + 1) - 1 = j
    BY <1>1, <2>1
  <2>3. At(data, j, past) = text[j - at + 1]
    BY <1>2, <2>2
  <2>4. text[j - at + 1] # 0
    BY <2>2 DEF OrdinaryText, len
  <2> QED BY <2>1, <2>3, <2>4
<1>5. ASSUME NEW k, IsLast(k) PROVE k = e
  <2>1. k <= e
    BY <1>3, <1>5
  <2>2. Len(data) \in Nat /\ e <= Len(data)
    <3>1. Len(data) \in Nat /\ at + len - 1 <= Len(data)
      BY <1>1, <1>2
    <3> QED BY <1>1, <3>1
  <2>3. k \in ends => e <= k
    BY <1>4
  <2>4. k \in Int
    BY <1>5, <2>2
  <2> QED BY <1>1, <1>5, <2>1, <2>2, <2>3, <2>4
<1>6. IsLast(e)
  BY <1>3, <1>4
<1>7. (CHOOSE k \in ends \union {Len(data)} : \A j \in ends : k <= j) = e
  <2> HIDE DEF ends, e
  <2>1. (CHOOSE k : IsLast(k)) = e
    <3> HIDE DEF IsLast
    <3> QED BY <1>5, <1>6
  <2> QED BY <2>1
<1>8. CString(data, at, past) = Bytes(data, at, len - 1, past)
  <2>1. e - at = len - 1
    BY <1>1
  <2> HIDE DEF e
  <2> QED BY <1>7, <2>1 DEF CString
<1>9. Bytes(data, at, len - 1, past) = [k \in 1..(len - 1) |-> text[k]]
  <2>1. \A k \in 1..(len - 1) : At(data, at + k - 1, past) = text[k]
    <3>1. \A k \in 1..(len - 1) : k \in 1..len
      BY <1>1
    <3> QED BY <1>2, <3>1
  <2> QED BY <2>1 DEF Bytes
<1>10. NulEnd(text) = [k \in 1..(len - 1) |-> text[k]]
  <2>1. NulEnd(text) = SubSeq(text, 1, len - 1)
    BY DEF NulEnd, len
  <2>2. SubSeq(text, 1, len - 1) \in Seq(Byte)
        /\ Len(SubSeq(text, 1, len - 1)) = len - 1
        /\ \A k \in 1..(len - 1) : SubSeq(text, 1, len - 1)[k] = text[k]
    <3>1. 1 \in 1..(Len(text) + 1) /\ len - 1 \in 0..Len(text)
      BY <1>1 DEF len
    <3>2. /\ SubSeq(text, 1, len - 1) \in Seq(Byte)
          /\ Len(SubSeq(text, 1, len - 1)) = IF 1 <= len - 1 THEN (len - 1) - 1 + 1 ELSE 0
          /\ \A k \in 1..((len - 1) - 1 + 1) : SubSeq(text, 1, len - 1)[k] = text[1 + k - 1]
      BY <1>0, <3>1, SubSeqProperties
    <3> QED BY <1>1, <3>2
  <2> DEFINE t == SubSeq(text, 1, len - 1)
  <2> HIDE DEF t
  <2>3. t \in Seq(Byte) /\ Len(t) = len - 1 /\ \A k \in 1..(len - 1) : t[k] = text[k]
    BY <2>2 DEF t
  <2>4. t = [k \in 1..Len(t) |-> t[k]]
    BY <2>3
  <2> QED BY <2>1, <2>3, <2>4 DEF t
<1> QED BY <1>8, <1>9, <1>10

(* A stored name. *)
LEMMA ReadsText ==
  ASSUME NEW lv \in 1..3, NEW m, NEW N \in Nat, NEW s, Filled(m, N, s),
         NEW from, NEW to, Reads(lv, m, N, s, from, to), NEW m2, Keeps(m2, m, N),
         NEW text, OrdinaryText(text), NEW type \in 0..3, type = 1 => lv >= 2,
         m2[N] = testName, m2[N + 1] = type, m2[N + 2] = Len(text), Holds(m2, N + 6, text)
  PROVE  Reads(lv, m2, N + 6 + Len(text), 0, from,
               Apply(lv, to, TextEvent(type, NulEnd(text))))
<1> DEFINE len == Len(text)
           N2 == N + 6 + len
           to2 == Apply(lv, to, TextEvent(type, NulEnd(text)))
           i2 == IF lv <= 1 THEN N + 5 + len ELSE N2
           sh2 == IF lv <= 1 THEN 2 ELSE 0
<1>0. len \in 1..255 /\ text[len] = 0
  BY Zenon DEF OrdinaryText
<1>1. ASSUME NEW data \in Dumps(m2, N2, 0), NEW past \in Past
      PROVE  Read(lv, data, past, Place(N, 0, to)) = Place(i2, sh2, to2)
  <2>1. At(data, N, past) = 3 /\ At(data, N + 1, past) = type /\ At(data, N + 2, past) = len
        /\ N < Len(data) /\ Len(data) \in Nat
    <3>1. N2 \in Nat /\ N \in 0..(N2 - 1) /\ N + 1 \in 0..(N2 - 1) /\ N + 2 \in 0..(N2 - 1)
      BY <1>0
    <3> HIDE DEF N2
    <3> QED BY <3>1, DumpByte
  <2>2. CString(data, N + 6, past) = NulEnd(text)
    <3>1. N + 6 \in Nat /\ N2 = (N + 6) + Len(text)
      BY <1>0
    <3> HIDE DEF N2
    <3> QED BY <3>1, TextIsRead
  <2>3. Status(data, N, 0) = 3
    <3>1. data[N + 1] = 3 /\ 3 \in Byte
      BY <2>1 DEF At, Byte
    <3> QED BY <3>1, FirstStatus DEF Status
  <2> DEFINE found == IF lv <= 1 THEN SuccessAt(data, lv = 0, N, 0, past)
                      ELSE ResultAt(data, lv = 3, N, 0, past)
             types == IF lv <= 1 THEN {0, 2, 3} ELSE 0..3
  <2>4. TextAt(data, N, types, past) = TextEvent(type, NulEnd(text))
    <3>1. type \in types
      OBVIOUS
    <3> HIDE DEF types
    <3> QED BY <2>1, <2>2, <3>1 DEF TextAt
  <2>5. Read(lv, data, past, Place(N, 0, to))
          = Place(found.i, found.shift, Apply(lv, to, found.event))
    <3>1. ~(N >= Len(data))
      BY <2>1
    <3> QED BY <3>1 DEF Read, Place
  <2>6. found = [event |-> TextEvent(type, NulEnd(text)), i |-> i2, shift |-> sh2]
    <3> DEFINE event == TextAt(data, N, types, past)
    <3>1. CASE lv <= 1
      <4>1. found = ThenNextStatus(event, N + len + 5, 0)
        BY <2>1, <2>3, <3>1 DEF SuccessAt
      <4> HIDE DEF found, event
      <4>2. ThenNextStatus(event, N + len + 5, 0) = [event |-> event, i |-> N + len + 5, shift |-> 2]
        BY DEF ThenNextStatus, Found
      <4>3. N + len + 5 = i2 /\ 2 = sh2
        BY <1>0, <3>1
      <4> HIDE DEF i2, sh2
      <4> QED BY <2>4, <4>1, <4>2, <4>3 DEF event
    <3>2. CASE ~(lv <= 1)
      <4>1. found = Found(event, N + len + 6, 0)
        BY <2>1, <2>3, <3>2 DEF ResultAt
      <4> HIDE DEF found, event
      <4>2. Found(event, N + len + 6, 0) = [event |-> event, i |-> N + len + 6, shift |-> 0]
        BY DEF Found
      <4>3. N + len + 6 = i2 /\ 0 = sh2
        BY <1>0, <3>2
      <4> HIDE DEF i2, sh2
      <4> QED BY <2>4, <4>1, <4>2, <4>3 DEF event
    <3> QED BY <3>1, <3>2
  <2> HIDE DEF found, i2, sh2
  <2> QED BY <2>5, <2>6
<1>2. /\ N2 \in Nat /\ N2 > N /\ i2 \in Nat /\ sh2 \in Shifts /\ 8 * N + 2 <= 8 * i2 + sh2
      /\ m2[N] \in Byte /\ m2[N] # 0
  BY <1>0 DEF Shifts, Byte
<1>3. \/ sh2 = 0 /\ i2 = N2
      \/ sh2 # 0 /\ N2 = i2 + 1 /\ m2[i2] < Weight(sh2)
  <2>1. m2[N + 5 + len] = 0
    <3>1. \A l \in 1..255 : (N + 6) + l - 1 = N + 5 + l /\ l \in 1..l
      OBVIOUS
    <3> HIDE DEF len
    <3>2. (N + 6) + len - 1 = N + 5 + len /\ len \in 1..len
      BY <1>0, <3>1
    <3>3. m2[(N + 6) + len - 1] = text[len]
      BY <3>2 DEF Holds, len
    <3> QED BY <1>0, <3>2, <3>3
  <2>2. Weight(2) = 4
    BY DEF Weight
  <2> QED BY <1>0, <2>1, <2>2
<1> HIDE DEF N2, i2, sh2, to2
<1>4. Reads(lv, m2, N2, 0, from, to2)
  <2>1. \A data \in Dumps(m2, N2, 0), past \in Past :
          Read(lv, data, past, Place(N, 0, to)) = Place(i2, sh2, to2)
    BY <1>1
  <2>2. IsBehind(m2, N2, i2, sh2)
    BY <1>2, <1>3 DEF IsBehind
  <2> QED BY <1>2, <1>3, <2>1, <2>2, ReadsRecord
<1> QED BY <1>4 DEF N2, to2
-----------------------------------------------------------------------------
(* Failed results. *)

(* Bytes that the memory holds are the bytes that are read. *)
LEMMA BytesRead ==
  ASSUME NEW bytes \in Seq(Byte), NEW m, NEW at \in Nat, Holds(m, at, bytes),
         NEW N \in Nat, at + Len(bytes) <= N, NEW data \in Dumps(m, N, 0), NEW past
  PROVE  Bytes(data, at, Len(bytes), past) = bytes
<1>1. Len(bytes) \in Nat
  BY LenProperties
<1>2. ASSUME NEW k \in 1..Len(bytes) PROVE At(data, at + k - 1, past) = bytes[k]
  <2>1. at + k - 1 \in 0..(N - 1)
    BY <1>1
  <2>2. m[at + k - 1] = bytes[k]
    BY DEF Holds
  <2> QED BY <2>1, <2>2, DumpByte
<1>3. Bytes(data, at, Len(bytes), past) = [k \in 1..Len(bytes) |-> bytes[k]]
  BY <1>2 DEF Bytes
<1>4. bytes = [k \in 1..Len(bytes) |-> bytes[k]]
  OBVIOUS
<1> QED BY <1>3, <1>4

(* An int of one, two or four bytes. *)
ScalarFlags == {1, 33, 34, 35}
WidthOf(flags) ==
  CASE flags % 8 = 1 -> 1 [] flags % 8 = 2 -> 2 [] OTHER -> 4

HasWidth(bytes, flags) == Len(bytes) = WidthOf(flags)

(* A failure of two integers is read as it was stored. *)
LEMMA ScalarIsRead ==
  ASSUME NEW m, NEW t \in Nat, t > 0, m[t] \in ScalarFlags,
         NEW is \in Seq(Byte), NEW should \in Seq(Byte),
         HasWidth(is, m[t]), HasWidth(should, m[t]),
         Holds(m, t + 1, is), Holds(m, t + 1 + Len(is), should),
         NEW N \in Nat, N = t + 1 + Len(is) + Len(should),
         NEW data \in Dumps(m, N, 0), NEW past, NEW line
  PROVE  FailedResultAt(data, t - 1, line, past) =
           [event |-> FailEvent(is, should, line), last |-> N - 1]
<1> DEFINE flags == m[t]
           w == WidthOf(flags)
<1>0. Len(is) = w /\ Len(should) = w
  BY DEF HasWidth
<1>1. w \in {1, 2, 4}
  BY DEF WidthOf
<1>2. At(data, t, past) = flags
  <2>1. t \in 0..(N - 1)
    BY <1>0, <1>1
  <2> QED BY <2>1, DumpByte
<1>3. Bytes(data, t + 1, w, past) = is
  <2>1. t + 1 \in Nat /\ (t + 1) + Len(is) <= N
    BY <1>0, <1>1
  <2>2. Bytes(data, t + 1, Len(is), past) = is
    BY <2>1, BytesRead
  <2> QED BY <1>0, <2>2
<1>4. Bytes(data, t + 1 + w, w, past) = should
  <2>1. t + 1 + w \in Nat /\ (t + 1 + w) + Len(should) <= N
    BY <1>0, <1>1
  <2>2. Holds(m, t + 1 + w, should)
    BY <1>0
  <2> HIDE DEF w
  <2>3. Bytes(data, t + 1 + w, Len(should), past) = should
    BY <2>1, <2>2, BytesRead
  <2> QED BY <1>0, <2>3 DEF w
<1>5. (t - 1) + 1 = t
  OBVIOUS
<1>6. (flags \div 16) % 2 = 0 /\ flags % 8 \in {1, 2, 3}
  BY SMT DEF ScalarFlags
<1> DEFINE R(n) == [event |-> FailEvent(Bytes(data, t + 1, n, past),
                                        Bytes(data, t + 1 + n, n, past), line),
                    last |-> t + 2 * n]
<1>7. FailedResultAt(data, t - 1, line, past) = R(w)
  <2>1. CASE flags % 8 = 1
    BY <1>2, <1>5, <1>6, <2>1 DEF FailedResultAt, WidthOf
  <2>2. CASE flags % 8 = 2
    BY <1>2, <1>5, <1>6, <2>2 DEF FailedResultAt, WidthOf
  <2>3. CASE flags % 8 = 3
    BY <1>2, <1>5, <1>6, <2>3 DEF FailedResultAt, WidthOf
  <2> QED BY <1>6, <2>1, <2>2, <2>3
<1>8. t + 2 * w = N - 1
  BY <1>0, <1>1
<1> QED BY <1>3, <1>4, <1>7, <1>8

(* The bytes of an array behind their size field. *)
HoldsSized(m, at, bytes) ==
  /\ m[at] = Len(bytes) /\ m[at + 1] = 0 /\ m[at + 2] = 0 /\ m[at + 3] = 0
  /\ Holds(m, at + 4, bytes)

(* A field with its size is read as it was stored. *)
LEMMA SizeIsRead ==
  ASSUME NEW bytes \in Seq(Byte), Len(bytes) < 256, NEW m, NEW at \in Nat,
         HoldsSized(m, at, bytes),
         NEW N \in Nat, at + 4 + Len(bytes) <= N, NEW data \in Dumps(m, N, 0), NEW past
  PROVE  /\ SizeAt(data, at, past) = Len(bytes)
         /\ Bytes(data, at + 4, Len(bytes), past) = bytes
<1>1. Len(bytes) \in Nat
  BY LenProperties
<1>2. /\ m[at] = Len(bytes) /\ m[at + 1] = 0 /\ m[at + 2] = 0 /\ m[at + 3] = 0
      /\ Holds(m, at + 4, bytes)
  BY DEF HoldsSized
<1>3. at + 4 \in Nat /\ (at + 4) + Len(bytes) <= N
  BY <1>1
<1>4. Bytes(data, at + 4, Len(bytes), past) = bytes
  BY <1>2, <1>3, BytesRead
<1>5. at \in 0..(N - 1) /\ at + 1 \in 0..(N - 1) /\ at + 2 \in 0..(N - 1) /\ at + 3 \in 0..(N - 1)
  BY <1>1
<1>6. /\ At(data, at, past) = Len(bytes) /\ At(data, at + 1, past) = 0
      /\ At(data, at + 2, past) = 0 /\ At(data, at + 3, past) = 0
  BY <1>2, <1>5, DumpByte
<1>7. SizeAt(data, at, past) = Len(bytes)
  BY <1>1, <1>6 DEF SizeAt
<1> QED BY <1>4, <1>7

(* A failure of two arrays is read as it was stored. *)
LEMMA ArrayIsRead ==
  ASSUME NEW m, NEW t \in Nat, t > 0, m[t] = 133,
         NEW is \in Seq(Byte), Len(is) < 256, HoldsSized(m, t + 1, is),
         NEW should \in Seq(Byte), Len(should) < 256, HoldsSized(m, t + 5 + Len(is), should),
         NEW N \in Nat, N = t + 9 + Len(is) + Len(should),
         NEW data \in Dumps(m, N, 0), NEW past, NEW line
  PROVE  FailedResultAt(data, t - 1, line, past) =
           [event |-> FailEvent(is, should, line), last |-> N - 1]
<1> DEFINE a == Len(is)
           b == Len(should)
<1>1. a \in Nat /\ b \in Nat /\ a < 256 /\ b < 256
  BY LenProperties
<1>2. SizeAt(data, t + 1, past) = a /\ Bytes(data, t + 5, a, past) = is
  <2>1. t + 1 \in Nat /\ (t + 1) + 4 + Len(is) <= N /\ (t + 1) + 4 = t + 5
    BY <1>1
  <2>2. SizeAt(data, t + 1, past) = Len(is) /\ Bytes(data, (t + 1) + 4, Len(is), past) = is
    BY <2>1, SizeIsRead
  <2> QED BY <2>1, <2>2
<1>3. SizeAt(data, t + 5 + a, past) = b /\ Bytes(data, t + 5 + a + 4, b, past) = should
  <2>1. t + 5 + Len(is) \in Nat /\ (t + 5 + Len(is)) + 4 + Len(should) <= N
    BY <1>1
  <2>2. /\ SizeAt(data, t + 5 + Len(is), past) = Len(should)
        /\ Bytes(data, (t + 5 + Len(is)) + 4, Len(should), past) = should
    BY <2>1, SizeIsRead
  <2> QED BY <2>2
<1>4. At(data, t, past) = 133
  <2>1. t \in 0..(N - 1)
    BY <1>1
  <2> QED BY <2>1, DumpByte
<1>5. (t - 1) + 1 = t /\ (133 \div 16) % 2 = 0 /\ 133 % 8 = 5
  BY SMT
<1>6. a # Huge /\ b # Huge
  <2>1. \A x \in Nat : x < 256 => x # Huge
    BY SMT DEF Huge
  <2> QED BY <1>1, <2>1
<1>7. t + a + b + 8 = N - 1
  BY <1>1
<1> HIDE DEF a, b
<1>8. FailedResultAt(data, t - 1, line, past) =
        [event |-> FailEvent(Bytes(data, t + 5, a, past), Bytes(data, t + 5 + a + 4, b, past), line),
         last |-> t + a + b + 8]
  BY <1>2, <1>3, <1>4, <1>5, <1>6 DEF FailedResultAt
<1> QED BY <1>2, <1>3, <1>7, <1>8

(* A timeout is read as such, whatever its operands. *)
LEMMA TimeoutIsRead ==
  ASSUME NEW m, NEW t \in Nat, t > 0, m[t] = 17,
         NEW N \in Nat, N = t + 3, NEW data \in Dumps(m, N, 0), NEW past, NEW line
  PROVE  FailedResultAt(data, t - 1, line, past) =
           [event |-> TimeoutEvent(line), last |-> N - 1]
<1>1. At(data, t, past) = 17
  <2>1. t \in 0..(N - 1)
    OBVIOUS
  <2> QED BY <2>1, DumpByte
<1>2. (t - 1) + 1 = t /\ (17 \div 16) % 2 = 1 /\ t + 2 = N - 1
  BY SMT
<1> QED BY <1>1, <1>2 DEF FailedResultAt

(* The failures of the assertion macros and of a timeout. *)
IsTimeout(res) == res.flags = typeTimeOut + typeCompInt8
IsScalar(res)  == res.flags \in ScalarFlags
IsArray(res)   == res.flags = typeCompArray + typeCompByte

OrdinaryFailure(res) ==
  /\ res \in FailedResult
  /\ \/ IsTimeout(res) /\ Len(res.is) = 1 /\ Len(res.should) = 1
     \/ IsScalar(res) /\ HasWidth(res.is, res.flags) /\ HasWidth(res.should, res.flags)
     \/ IsArray(res) /\ Len(res.is) < 256 /\ Len(res.should) < 256

(* m holds the flags and the operands of a failure from t on... *)
HoldsFailure(m, t, res) ==
  /\ m[t] = res.flags
  /\ IF IsArray(res)
     THEN /\ HoldsSized(m, t + 1, res.is)
          /\ HoldsSized(m, t + 5 + Len(res.is), res.should)
     ELSE /\ Holds(m, t + 1, res.is)
          /\ Holds(m, t + 1 + Len(res.is), res.should)

(* ...and ends with them. *)
FailureEnd(t, res) ==
  t + (IF IsArray(res) THEN 9 ELSE 1) + Len(res.is) + Len(res.should)

FailureOf(res, line) ==
  IF (res.flags \div typeTimeOut) % 2 = 1 THEN TimeoutEvent(line)
  ELSE FailEvent(res.is, res.should, line)

(* Any ordinary failure is read as it was stored, to its last byte. *)
LEMMA FailureIsRead ==
  ASSUME NEW res, OrdinaryFailure(res), NEW m, NEW t \in Nat, t > 0, HoldsFailure(m, t, res),
         NEW N, N = FailureEnd(t, res), NEW data \in Dumps(m, N, 0), NEW past, NEW line
  PROVE  /\ N \in Nat /\ N > t
         /\ FailedResultAt(data, t - 1, line, past) =
              [event |-> FailureOf(res, line), last |-> N - 1]
<1> DEFINE is == res.is
           should == res.should
           flags == res.flags
<1>1. is \in Seq(Byte) /\ should \in Seq(Byte) /\ m[t] = flags
  BY DEF OrdinaryFailure, FailedResult, HoldsFailure
<1>2. Len(is) \in Nat /\ Len(should) \in Nat
  BY <1>1, LenProperties
<1>3. N = t + (IF flags = 133 THEN 9 ELSE 1) + Len(is) + Len(should)
  BY DEF FailureEnd, IsArray
<1>4. FailureOf(res, line) = IF (flags \div 16) % 2 = 1 THEN TimeoutEvent(line)
                             ELSE FailEvent(is, should, line)
  BY DEF FailureOf
<1>5. IF flags = 133
      THEN HoldsSized(m, t + 1, is) /\ HoldsSized(m, t + 5 + Len(is), should)
      ELSE Holds(m, t + 1, is) /\ Holds(m, t + 1 + Len(is), should)
  <2>1. IsArray(res) <=> flags = 133
    BY DEF IsArray
  <2> HIDE DEF flags
  <2> QED BY <2>1, Zenon DEF HoldsFailure
<1>6. \/ flags = 17 /\ Len(is) = 1 /\ Len(should) = 1
      \/ flags \in ScalarFlags /\ HasWidth(is, flags) /\ HasWidth(should, flags)
      \/ flags = 133 /\ Len(is) < 256 /\ Len(should) < 256
  BY DEF OrdinaryFailure, IsTimeout, IsScalar, IsArray
<1> HIDE DEF is, should, flags
<1>7. N \in Nat /\ N > t
  BY <1>2, <1>3
<1>8. CASE flags = 17 /\ Len(is) = 1 /\ Len(should) = 1
  <2>1. N = t + 3 /\ m[t] = 17 /\ (17 \div 16) % 2 = 1
    BY <1>1, <1>3, <1>8
  <2>2. FailedResultAt(data, t - 1, line, past) = [event |-> TimeoutEvent(line), last |-> N - 1]
    BY <1>7, <2>1, TimeoutIsRead
  <2>3. FailureOf(res, line) = TimeoutEvent(line)
    BY <1>4, <1>8, <2>1
  <2> QED BY <1>7, <2>2, <2>3
<1>9. CASE flags \in ScalarFlags /\ HasWidth(is, flags) /\ HasWidth(should, flags)
  <2>1. flags # 133 /\ ~((flags \div 16) % 2 = 1)
    BY <1>9 DEF ScalarFlags
  <2>2. Holds(m, t + 1, is) /\ Holds(m, t + 1 + Len(is), should)
    BY <1>5, <2>1
  <2>3. N = t + 1 + Len(is) + Len(should)
    BY <1>3, <2>1
  <2>4. FailedResultAt(data, t - 1, line, past) =
          [event |-> FailEvent(is, should, line), last |-> N - 1]
    <3>1. m[t] \in ScalarFlags /\ HasWidth(is, m[t]) /\ HasWidth(should, m[t])
      BY <1>1, <1>9
    <3>2. is \in Seq(Byte) /\ should \in Seq(Byte) /\ N \in Nat
      BY <1>1, <1>7
    <3> QED BY <2>2, <2>3, <3>1, <3>2, ScalarIsRead
  <2>5. FailureOf(res, line) = FailEvent(is, should, line)
    BY <1>4, <2>1
  <2> QED BY <1>7, <2>4, <2>5
<1>10. CASE flags = 133 /\ Len(is) < 256 /\ Len(should) < 256
  <2>1. N = t + 9 + Len(is) + Len(should) /\ ~((133 \div 16) % 2 = 1)
    BY <1>2, <1>3, <1>10
  <2>2. HoldsSized(m, t + 1, is) /\ HoldsSized(m, t + 5 + Len(is), should) /\ m[t] = 133
    BY <1>1, <1>5, <1>10
  <2>3. FailedResultAt(data, t - 1, line, past) =
          [event |-> FailEvent(is, should, line), last |-> N - 1]
    BY <1>1, <1>7, <1>10, <2>1, <2>2, ArrayIsRead
  <2>4. FailureOf(res, line) = FailEvent(is, should, line)
    BY <1>4, <1>10, <2>1
  <2> QED BY <1>7, <2>3, <2>4
<1> QED BY <1>6, <1>8, <1>9, <1>10

LineOf(lv, res) == IF lv = lineNumbers THEN res.line ELSE << >>

(* A stored failure. *)
LEMMA ReadsFailure ==
  ASSUME NEW lv \in 2..3, NEW m, NEW N \in Nat, NEW s, Filled(m, N, s),
         NEW from, NEW to, Reads(lv, m, N, s, from, to), NEW m2, Keeps(m2, m, N),
         NEW res, OrdinaryFailure(res), m2[N] = testFailed,
         lv = lineNumbers => Holds(m2, N + 1, res.line),
         NEW t, t = N + 1 + (IF lv = lineNumbers THEN 4 ELSE 0), HoldsFailure(m2, t, res)
  PROVE  Reads(lv, m2, FailureEnd(t, res), 0, from, Apply(lv, to, FailureOf(res, LineOf(lv, res))))
<1> DEFINE N2 == FailureEnd(t, res)
           event == FailureOf(res, LineOf(lv, res))
           to2 == Apply(lv, to, event)
<1>1. t \in Nat /\ t > 0 /\ t > N
  OBVIOUS
<1>2. N2 \in Nat /\ N2 > t
  <2>1. Len(res.is) \in Nat /\ Len(res.should) \in Nat
    <3>1. res \in FailedResult
      BY Zenon DEF OrdinaryFailure
    <3>2. res.is \in Seq(Byte) /\ res.should \in Seq(Byte)
      BY <3>1 DEF FailedResult
    <3> QED BY <3>2, LenProperties
  <2>2. \A a, b \in Nat, c \in {1, 9} : t + c + a + b \in Nat /\ t + c + a + b > t
    BY <1>1
  <2> QED BY <2>1, <2>2 DEF FailureEnd
<1>3. res.line \in Seq(Byte) /\ Len(res.line) = 4
  <2>1. res.line \in [1..4 -> Byte]
    <3>1. res \in FailedResult
      BY Zenon DEF OrdinaryFailure
    <3> QED BY <3>1 DEF FailedResult
  <2> DEFINE line == res.line
  <2> HIDE DEF line
  <2>2. line \in [1..4 -> Byte]
    BY <2>1 DEF line
  <2> DEFINE four == 4
  <2>3. line \in Seq(Byte) /\ Len(line) = four
    <3>1. four \in Nat /\ line \in [1..four -> Byte]
      BY <2>2
    <3> HIDE DEF four
    <3> QED BY <3>1, LenFromDomain
  <2> QED BY <2>3 DEF line
<1> HIDE DEF N2
<1>4. ASSUME NEW data \in Dumps(m2, N2, 0), NEW past \in Past
      PROVE  Read(lv, data, past, Place(N, 0, to)) = Place(N2, 0, to2)
  <2>1. At(data, N, past) = 2 /\ N < Len(data) /\ Len(data) \in Nat
    <3>1. N \in 0..(N2 - 1)
      BY <1>1, <1>2
    <3> QED BY <1>2, <3>1, DumpByte
  <2>2. Status(data, N, 0) = 2
    <3>1. data[N + 1] = 2 /\ 2 \in Byte
      BY <2>1 DEF At, Byte
    <3> QED BY <3>1, FirstStatus DEF Status
  <2> DEFINE found == IF lv <= 1 THEN SuccessAt(data, lv = 0, N, 0, past)
                      ELSE ResultAt(data, lv = 3, N, 0, past)
             failed == FailedResultAt(data, t - 1, LineOf(lv, res), past)
  <2>3. failed = [event |-> event, last |-> N2 - 1]
    BY <1>1, FailureIsRead DEF N2
  <2>4. found = Found(failed.event, failed.last + 1, 0)
    <3>1. CASE lv = 3
      <4>1. Bytes(data, N + 1, 4, past) = res.line
        <5>1. N + 1 \in Nat /\ (N + 1) + Len(res.line) <= N2 /\ Holds(m2, N + 1, res.line)
          BY <1>1, <1>2, <1>3, <3>1
        <5> DEFINE line == res.line
        <5>2. line \in Seq(Byte) /\ Len(line) = 4
          BY <1>3
        <5> HIDE DEF line
        <5>3. N + 1 \in Nat /\ (N + 1) + Len(line) <= N2 /\ Holds(m2, N + 1, line)
          BY <5>1 DEF line
        <5>4. line \in Seq(Byte)
          BY <5>2
        <5>5. Bytes(data, N + 1, Len(line), past) = line
          BY <1>2, <5>3, <5>4, BytesRead
        <5> QED BY <5>2, <5>5 DEF line
      <4>2. t - 1 = N + 4 /\ LineOf(lv, res) = res.line
        BY <3>1 DEF LineOf
      <4> DEFINE r == FailedResultAt(data, N + 4, Bytes(data, N + 1, 4, past), past)
      <4>3. found = Found(r.event, r.last + 1, 0)
        BY <2>2, <3>1 DEF ResultAt
      <4>4. failed = r
        BY <4>1, <4>2
      <4> HIDE DEF found, failed, r
      <4> QED BY <4>3, <4>4
    <3>2. CASE lv = 2
      <4>1. t - 1 = N /\ LineOf(lv, res) = << >>
        BY <3>2 DEF LineOf
      <4> DEFINE r == FailedResultAt(data, N, << >>, past)
      <4>2. found = Found(r.event, r.last + 1, 0)
        BY <2>2, <3>2 DEF ResultAt
      <4>3. failed = r
        BY <4>1
      <4> HIDE DEF found, failed, r
      <4> QED BY <4>2, <4>3
    <3> QED BY <3>1, <3>2
  <2>5. Read(lv, data, past, Place(N, 0, to))
          = Place(found.i, found.shift, Apply(lv, to, found.event))
    <3>1. ~(N >= Len(data))
      BY <2>1
    <3> QED BY <3>1 DEF Read, Place
  <2>6. found = [event |-> event, i |-> (N2 - 1) + 1, shift |-> 0]
    <3> HIDE DEF found, failed, event
    <3> QED BY <2>3, <2>4 DEF Found
  <2>7. (N2 - 1) + 1 = N2
    BY <1>2
  <2> HIDE DEF found, event
  <2> QED BY <2>5, <2>6, <2>7
<1>5. IsBehind(m2, N2, N2, 0) /\ N2 > N /\ 8 * N + 2 <= 8 * N2 + 0
  BY <1>1, <1>2 DEF IsBehind, Shifts
<1>6. m2[N] \in Byte /\ m2[N] # 0
  BY DEF Byte
<1>7. \A data \in Dumps(m2, N2, 0), past \in Past :
        Read(lv, data, past, Place(N, 0, to)) = Place(N2, 0, to2)
  BY <1>4
<1> HIDE DEF to2
<1>8. Reads(lv, m2, N2, 0, from, to2)
  BY <1>5, <1>6, <1>7, ReadsRecord
<1> QED BY <1>8 DEF N2, to2
-----------------------------------------------------------------------------
(* What is stored is what is read. *)

(* The bytes are in m2 from an address on; where one is skipped m2 has what *)
(* m has.                                                                   *)
Writes(m2, m, at, bytes) ==
  \A k \in 1..Len(bytes) :
    m2[at + k - 1] = IF bytes[k] # Skip THEN bytes[k] ELSE m[at + k - 1]

(* Store writes the bytes of its record, but for those it steps over. *)
LEMMA StoreWrites ==
  ASSUME NEW bytes \in Seq(Stored), NEW m \in [Addresses -> Byte], NEW i \in 0..(Top + 1),
         Store(bytes, m, i)
  PROVE  Writes(memory', m, i, bytes)
<1>1. Len(bytes) \in Nat
  BY LenProperties
<1>2. i + Len(bytes) <= Top + 1
      /\ memory' = [a \in Addresses |->
                   IF a \in i..(i + Len(bytes) - 1) /\ bytes[a - i + 1] # Skip
                   THEN bytes[a - i + 1] ELSE m[a]]
  BY DEF Store
<1>3. ASSUME NEW k \in 1..Len(bytes)
      PROVE  memory'[i + k - 1] = IF bytes[k] # Skip THEN bytes[k] ELSE m[i + k - 1]
  <2> DEFINE a == i + k - 1
  <2>1. a \in Addresses /\ a \in i..(i + Len(bytes) - 1) /\ a - i + 1 = k
    BY <1>1, <1>2, BufferAssumption DEF Addresses
  <2> HIDE DEF a
  <2>2. memory'[a] = IF bytes[k] # Skip THEN bytes[k] ELSE m[a]
    BY <1>2, <2>1
  <2> QED BY <2>2 DEF a
<1> QED BY <1>3 DEF Writes

(* A record of two parts writes each of them at its place. *)
LEMMA WritesBoth ==
  ASSUME NEW s \in Seq(Stored), NEW t \in Seq(Stored), NEW m2, NEW m, NEW at \in Nat,
         Writes(m2, m, at, s \o t)
  PROVE  Writes(m2, m, at, s) /\ Writes(m2, m, at + Len(s), t)
<1> DEFINE u == s \o t
           a == Len(s)
           b == Len(t)
<1>1. a \in Nat /\ b \in Nat
  BY LenProperties
<1>2. Len(u) = a + b /\ \A k \in 1..(a + b) : u[k] = IF k <= a THEN s[k] ELSE t[k - a]
  BY ConcatProperties
<1>3. \A k \in 1..Len(u) : m2[at + k - 1] = IF u[k] # Skip THEN u[k] ELSE m[at + k - 1]
  BY DEF Writes
<1> HIDE DEF u
<1>4. ASSUME NEW k \in 1..a
      PROVE  m2[at + k - 1] = IF s[k] # Skip THEN s[k] ELSE m[at + k - 1]
  <2>1. k \in 1..(a + b) /\ k <= a
    BY <1>1
  <2> HIDE DEF a, b
  <2>2. u[k] = s[k]
    BY <1>2, <2>1
  <2> QED BY <1>2, <1>3, <2>1, <2>2
<1>5. ASSUME NEW k \in 1..b
      PROVE  m2[at + a + k - 1] = IF t[k] # Skip THEN t[k] ELSE m[at + a + k - 1]
  <2>1. a + k \in 1..(a + b) /\ ~(a + k <= a) /\ (a + k) - a = k
        /\ at + (a + k) - 1 = at + a + k - 1
    BY <1>1
  <2> HIDE DEF a, b
  <2>2. u[a + k] = t[k]
    BY <1>2, <2>1
  <2>3. m2[at + (a + k) - 1] = IF u[a + k] # Skip THEN u[a + k] ELSE m[at + (a + k) - 1]
    BY <1>2, <1>3, <2>1
  <2> QED BY <2>1, <2>2, <2>3
<1> QED BY <1>4, <1>5 DEF Writes

(* A single byte is written at its place. *)
LEMMA WritesOne ==
  ASSUME NEW x, x # Skip, NEW m2, NEW m, NEW at \in Nat, Writes(m2, m, at, <<x>>)
  PROVE  m2[at] = x
<1>1. 1 \in 1..Len(<<x>>) /\ at + 1 - 1 = at /\ <<x>>[1] = x
  OBVIOUS
<1>2. m2[at + 1 - 1] = IF <<x>>[1] # Skip THEN <<x>>[1] ELSE m[at + 1 - 1]
  BY <1>1 DEF Writes
<1> QED BY <1>1, <1>2

(* Bytes none of which is stepped over are held afterwards. *)
LEMMA WritesBytes ==
  ASSUME NEW bytes \in Seq(Byte), NEW m2, NEW m, NEW at \in Nat, Writes(m2, m, at, bytes)
  PROVE  Holds(m2, at, bytes)
<1>1. \A k \in 1..Len(bytes) : bytes[k] \in Byte
  BY ElementOfSeq
<1>2. Skip \notin Byte
  BY DEF Skip, Byte
<1> QED BY <1>1, <1>2 DEF Writes, Holds

(* A size field over three clear bytes is the size in four bytes. *)
LEMMA WritesSize ==
  ASSUME NEW bytes \in Seq(Byte), Len(bytes) < 256, NEW m2, NEW m, NEW at \in Nat,
         Writes(m2, m, at, SizeField(bytes)),
         m[at + 1] = 0, m[at + 2] = 0, m[at + 3] = 0
  PROVE  m2[at] = Len(bytes) /\ m2[at + 1] = 0 /\ m2[at + 2] = 0 /\ m2[at + 3] = 0
<1> DEFINE size == Len(bytes) % 256
           f == <<size, Skip, Skip, Skip>>
<1>1. Len(bytes) \in Nat
  BY LenProperties
<1>2. size = Len(bytes) /\ size # Skip
  BY <1>1 DEF Skip
<1>3. SizeField(bytes) = f
  BY DEF SizeField
<1> HIDE DEF size
<1>4. Len(f) = 4 /\ f[1] = size /\ f[2] = Skip /\ f[3] = Skip /\ f[4] = Skip
  OBVIOUS
<1> HIDE DEF f
<1>5. \A k \in 1..4 : m2[at + k - 1] = IF f[k] # Skip THEN f[k] ELSE m[at + k - 1]
  BY <1>3, <1>4 DEF Writes
<1>6. /\ m2[at + 1 - 1] = size /\ m2[at + 2 - 1] = m[at + 2 - 1]
      /\ m2[at + 3 - 1] = m[at + 3 - 1] /\ m2[at + 4 - 1] = m[at + 4 - 1]
  BY <1>2, <1>4, <1>5
<1>7. at + 1 - 1 = at /\ at + 2 - 1 = at + 1 /\ at + 3 - 1 = at + 2 /\ at + 4 - 1 = at + 3
  OBVIOUS
<1> QED BY <1>2, <1>6, <1>7

(* An operand is held with its size, or without if its type says it. *)
LEMMA WritesField ==
  ASSUME NEW bytes \in Seq(Byte), NEW known \in BOOLEAN, ~known => Len(bytes) < 256,
         NEW m2, NEW m, NEW at \in Nat, Writes(m2, m, at, Field(bytes, known)),
         ~known => m[at + 1] = 0 /\ m[at + 2] = 0 /\ m[at + 3] = 0
  PROVE  IF known THEN Holds(m2, at, bytes) ELSE HoldsSized(m2, at, bytes)
<1>1. CASE known
  <2>1. Writes(m2, m, at, bytes)
    BY <1>1 DEF Field
  <2> QED BY <1>1, <2>1, WritesBytes
<1>2. CASE ~known
  <2>1. SizeField(bytes) \in Seq(Stored) /\ Len(SizeField(bytes)) = 4
    BY SizeFieldType
  <2>2. bytes \in Seq(Stored)
    BY SeqMonotonic DEF Stored
  <2>3. Writes(m2, m, at, SizeField(bytes) \o bytes)
    BY <1>2 DEF Field
  <2>4. Writes(m2, m, at, SizeField(bytes)) /\ Writes(m2, m, at + Len(SizeField(bytes)), bytes)
    BY <2>1, <2>2, <2>3, WritesBoth
  <2>5. Writes(m2, m, at + 4, bytes)
    BY <2>1, <2>4
  <2>6. Holds(m2, at + 4, bytes)
    <3>1. at + 4 \in Nat
      OBVIOUS
    <3> QED BY <2>5, <3>1, WritesBytes
  <2>7. m2[at] = Len(bytes) /\ m2[at + 1] = 0 /\ m2[at + 2] = 0 /\ m2[at + 3] = 0
    BY <1>2, <2>4, WritesSize
  <2> QED BY <1>2, <2>6, <2>7 DEF HoldsSized
<1> QED BY <1>1, <1>2

(* Of the ordinary failures only those of arrays store their sizes. *)
LEMMA KnownUnlessArray ==
  ASSUME NEW res, OrdinaryFailure(res)
  PROVE  /\ isTestSizeKnown(res.flags) <=> ~IsArray(res)
         /\ res \in FailedResult
         /\ res.is \in Seq(Byte) /\ res.should \in Seq(Byte) /\ res.flags \in Byte
         /\ res.line \in [1..4 -> Byte] /\ res.status = testFailed /\ res.kind = "result"
         /\ IsArray(res) => Len(res.is) < 256 /\ Len(res.should) < 256
<1> DEFINE flags == res.flags
<1>1. res \in FailedResult
  BY Zenon DEF OrdinaryFailure
<1>2. \/ flags = 17
      \/ flags \in ScalarFlags
      \/ flags = 133 /\ Len(res.is) < 256 /\ Len(res.should) < 256
  BY DEF OrdinaryFailure, IsTimeout, IsScalar, IsArray
<1>3. IsArray(res) <=> flags = 133
  BY DEF IsArray
<1>4. isTestSizeKnown(flags) <=> flags % 16 \in {1, 2, 3}
  BY DEF isTestSizeKnown
<1>5. \A f : f = 17 \/ f \in ScalarFlags => f % 16 \in {1, 2, 3} /\ f # 133
  BY SMT DEF ScalarFlags
<1>6. 133 % 16 = 5 /\ 5 \notin {1, 2, 3}
  BY SMT
<1> HIDE DEF flags
<1>7. (isTestSizeKnown(flags) <=> ~IsArray(res))
      /\ (IsArray(res) => Len(res.is) < 256 /\ Len(res.should) < 256)
  BY <1>2, <1>3, <1>4, <1>5, <1>6
<1> QED BY <1>1, <1>7 DEF FailedResult, flags

(* What a stored failure leaves in the memory. *)
LEMMA FailureIsHeld ==
  ASSUME level \in 2..3, NEW res, OrdinaryFailure(res), NEW m2, NEW m, NEW at \in Nat,
         Writes(m2, m, at, FailedBytes(res)),
         \A a \in at..(at + Len(FailedBytes(res)) - 1) : m[a] = 0,
         NEW t, t = at + 1 + (IF level = lineNumbers THEN 4 ELSE 0)
  PROVE  /\ m2[at] = testFailed
         /\ level = lineNumbers => Holds(m2, at + 1, res.line)
         /\ HoldsFailure(m2, t, res)
         /\ at + Len(FailedBytes(res)) = FailureEnd(t, res)
<1> DEFINE known == isTestSizeKnown(res.flags)
           line == IF level = lineNumbers THEN res.line ELSE << >>
           one == <<testFailed>>
           flag == <<res.flags>>
           is == Field(res.is, known)
           should == Field(res.should, known)
           h1 == one \o line
           h2 == h1 \o flag
           h3 == h2 \o is
           h4 == h3 \o should
           extra == IF known THEN 0 ELSE 4
           ll == IF level = lineNumbers THEN 4 ELSE 0
           a == Len(res.is)
           b == Len(res.should)
<1>1. /\ known <=> ~IsArray(res)
      /\ res.is \in Seq(Byte) /\ res.should \in Seq(Byte) /\ res.flags \in Byte
      /\ res.line \in [1..4 -> Byte]
      /\ IsArray(res) => a < 256 /\ b < 256
  BY KnownUnlessArray
<1>2. a \in Nat /\ b \in Nat /\ known \in BOOLEAN
  BY <1>1, LenProperties DEF isTestSizeKnown
<1>3. is \in Seq(Stored) /\ Len(is) = a + extra /\ should \in Seq(Stored) /\ Len(should) = b + extra
  BY <1>1, <1>2, FieldType
<1>4. line \in Seq(Stored) /\ line \in Seq(Byte) /\ Len(line) = ll
  <2>1. res.line \in Seq(Byte) /\ Len(res.line) = 4
    <3> DEFINE four == 4
    <3>1. four \in Nat /\ res.line \in [1..four -> Byte]
      BY <1>1
    <3> HIDE DEF four
    <3>2. res.line \in Seq(Byte) /\ Len(res.line) = four
      BY <3>1, LenFromDomain
    <3> QED BY <3>2 DEF four
  <2>2. line \in Seq(Byte) /\ Len(line) = ll
    <3>1. CASE level = lineNumbers
      <4>1. line = res.line /\ ll = 4
        BY <3>1
      <4> HIDE DEF line, ll
      <4> QED BY <2>1, <4>1
    <3>2. CASE level # lineNumbers
      <4>1. line = << >> /\ ll = 0
        BY <3>2
      <4> HIDE DEF line, ll
      <4> QED BY <4>1, EmptySeq
    <3> QED BY <3>1, <3>2
  <2> HIDE DEF line, ll
  <2>3. line \in Seq(Stored)
    BY <2>2, SeqMonotonic DEF Stored
  <2> QED BY <2>2, <2>3
<1>5. one \in Seq(Stored) /\ flag \in Seq(Stored) /\ Len(one) = 1 /\ Len(flag) = 1
      /\ testFailed # Skip /\ res.flags # Skip
  <2> DEFINE f == res.flags
  <2>1. f \in Byte
    BY <1>1
  <2> HIDE DEF f
  <2>2. <<f>> \in Seq(Stored) /\ Len(<<f>>) = 1 /\ f # Skip
    BY <2>1 DEF Stored, Byte, Skip
  <2>3. one \in Seq(Stored) /\ Len(one) = 1 /\ testFailed # Skip
    BY DEF Stored, Byte, Skip
  <2> QED BY <2>2, <2>3 DEF f
<1>6. FailedBytes(res) = h4
  BY DEF FailedBytes
<1>7. extra \in {0, 4} /\ (known => extra = 0) /\ (~known => extra = 4) /\ ll \in {0, 4}
      /\ t = at + 1 + ll
  OBVIOUS
<1> HIDE DEF known, line, one, flag, is, should, extra, ll, a, b
<1>8. h1 \in Seq(Stored) /\ Len(h1) = 1 + ll
  BY <1>4, <1>5, StoredConcat
<1> HIDE DEF h1
<1>9. h2 \in Seq(Stored) /\ Len(h2) = 1 + ll + 1
  BY <1>5, <1>8, StoredConcat
<1> HIDE DEF h2
<1>10. h3 \in Seq(Stored) /\ Len(h3) = (1 + ll + 1) + (a + extra)
  BY <1>3, <1>9, StoredConcat
<1> HIDE DEF h3
<1>11. Len(h4) = (1 + ll + 1) + (a + extra) + (b + extra)
  BY <1>3, <1>10, StoredConcat
<1>12. Writes(m2, m, at, h3) /\ Writes(m2, m, at + Len(h3), should)
  BY <1>3, <1>6, <1>10, WritesBoth
<1>13. Writes(m2, m, at, h2) /\ Writes(m2, m, at + Len(h2), is)
  BY <1>3, <1>9, <1>12, WritesBoth DEF h3
<1>14. Writes(m2, m, at, h1) /\ Writes(m2, m, at + Len(h1), flag)
  BY <1>5, <1>8, <1>13, WritesBoth DEF h2
<1>15. Writes(m2, m, at, one) /\ Writes(m2, m, at + Len(one), line)
  BY <1>4, <1>5, <1>14, WritesBoth DEF h1
<1>16. m2[at] = testFailed
  BY <1>5, <1>15, WritesOne DEF one
<1>17. level = lineNumbers => Holds(m2, at + 1, res.line)
  <2>1. Holds(m2, at + 1, line)
    <3>1. Writes(m2, m, at + 1, line) /\ at + 1 \in Nat
      BY <1>5, <1>15
    <3> QED BY <1>4, <3>1, WritesBytes
  <2> QED BY <2>1 DEF line
<1>18. t \in Nat /\ at + Len(h1) = t /\ at + Len(h2) = t + 1 /\ at + Len(h3) = t + 1 + a + extra
       /\ at + Len(h4) = t + 1 + a + extra + b + extra
  BY <1>2, <1>7, <1>8, <1>9, <1>10, <1>11
<1>19. m2[t] = res.flags
  BY <1>5, <1>14, <1>18, WritesOne DEF flag
<1>20. \A c \in t..(t + a + extra + b + extra) : m[c] = 0
  <2>1. at + Len(FailedBytes(res)) - 1 = t + a + extra + b + extra /\ t >= at
    BY <1>2, <1>6, <1>7, <1>18
  <2>2. \A c \in t..(t + a + extra + b + extra) : c \in at..(t + a + extra + b + extra)
    BY <1>2, <1>7, <1>18, <2>1
  <2> QED BY <2>1, <2>2
<1>21. IF known THEN Holds(m2, t + 1, res.is) ELSE HoldsSized(m2, t + 1, res.is)
  <2>1. ~known => m[t + 1 + 1] = 0 /\ m[t + 1 + 2] = 0 /\ m[t + 1 + 3] = 0
    <3> SUFFICES ASSUME ~known PROVE m[t + 1 + 1] = 0 /\ m[t + 1 + 2] = 0 /\ m[t + 1 + 3] = 0
      OBVIOUS
    <3>1. /\ t + 1 + 1 \in t..(t + a + extra + b + extra)
          /\ t + 1 + 2 \in t..(t + a + extra + b + extra)
          /\ t + 1 + 3 \in t..(t + a + extra + b + extra)
      BY <1>2, <1>7, <1>18
    <3> QED BY <1>20, <3>1
  <2>2. Writes(m2, m, t + 1, Field(res.is, known)) /\ t + 1 \in Nat
    BY <1>13, <1>18 DEF is
  <2>3. ~known => Len(res.is) < 256
    BY <1>1 DEF a
  <2> QED BY <1>1, <1>2, <2>1, <2>2, <2>3, WritesField
<1>22. IF known THEN Holds(m2, t + 1 + a, res.should) ELSE HoldsSized(m2, t + 5 + a, res.should)
  <2> DEFINE u == t + 1 + a + extra
  <2>0. u \in Nat /\ (known => u = t + 1 + a) /\ (~known => u = t + 5 + a)
    BY <1>2, <1>7, <1>18
  <2>1. ~known => m[u + 1] = 0 /\ m[u + 2] = 0 /\ m[u + 3] = 0
    <3> SUFFICES ASSUME ~known PROVE m[u + 1] = 0 /\ m[u + 2] = 0 /\ m[u + 3] = 0
      OBVIOUS
    <3>1. /\ u + 1 \in t..(t + a + extra + b + extra)
          /\ u + 2 \in t..(t + a + extra + b + extra)
          /\ u + 3 \in t..(t + a + extra + b + extra)
      BY <1>2, <1>7, <1>18
    <3> QED BY <1>20, <3>1
  <2>2. Writes(m2, m, u, Field(res.should, known))
    BY <1>12, <1>18 DEF should
  <2>3. ~known => Len(res.should) < 256
    BY <1>1 DEF b
  <2> HIDE DEF u
  <2>4. IF known THEN Holds(m2, u, res.should) ELSE HoldsSized(m2, u, res.should)
    BY <1>1, <1>2, <2>0, <2>1, <2>2, <2>3, WritesField
  <2> QED BY <2>0, <2>4
<1>23. HoldsFailure(m2, t, res)
  BY <1>1, <1>19, <1>21, <1>22 DEF HoldsFailure, a
<1>24. at + Len(FailedBytes(res)) = FailureEnd(t, res)
  <2>1. FailureEnd(t, res) = t + (IF IsArray(res) THEN 9 ELSE 1) + a + b
    BY DEF FailureEnd, a, b
  <2>2. t + (IF IsArray(res) THEN 9 ELSE 1) + a + b = t + 1 + a + extra + b + extra
    BY <1>1, <1>2, <1>7, <1>18
  <2> QED BY <1>6, <1>18, <2>1, <2>2
<1> QED BY <1>16, <1>17, <1>23, <1>24

(* What a stored name leaves in the memory. *)
LEMMA TextIsHeld ==
  ASSUME NEW s \in StringRec, OrdinaryText(s.text), NEW m2, NEW m, NEW at \in Nat,
         \A a \in at..(at + 5) : m[a] = 0, Writes(m2, m, at, StringBytes(s, m[at]))
  PROVE  /\ m2[at] = testName /\ m2[at + 1] = s.type /\ m2[at + 2] = Len(s.text)
         /\ Holds(m2, at + 6, s.text)
<1> DEFINE head == <<testName, s.type>>
           size == SizeField(s.text)
<1>1. s.text \in Seq(Byte) /\ s.type \in 0..3
  BY DEF StringRec
<1>2. Len(s.text) < 256 /\ s.text \in Seq(Stored)
  <2>1. Len(s.text) \in 1..255
    BY Zenon DEF OrdinaryText
  <2>2. \A n \in 1..255 : n < 256
    OBVIOUS
  <2>3. s.text \in Seq(Stored)
    BY <1>1, SeqMonotonic DEF Stored
  <2> QED BY <2>1, <2>2, <2>3
<1>3. OrAt(m[at], testName, 0) = testName
  <2>1. m[at] = 0
    OBVIOUS
  <2> QED BY <2>1 DEF OrAt, Or2, Weight
<1>4. StringBytes(s, m[at]) = head \o size \o s.text
  BY <1>3 DEF StringBytes
<1>5. head \in Seq(Stored) /\ Len(head) = 2 /\ head[1] = testName /\ head[2] = s.type
      /\ head[1] # Skip /\ head[2] # Skip
  BY <1>1 DEF Stored, Byte, Skip
<1>6. size \in Seq(Stored) /\ Len(size) = 4
  BY <1>1, SizeFieldType
<1> HIDE DEF head, size
<1>7. head \o size \in Seq(Stored) /\ Len(head \o size) = 2 + 4
  BY <1>5, <1>6, StoredConcat
<1>8. Writes(m2, m, at, head \o size) /\ Writes(m2, m, at + Len(head \o size), s.text)
  BY <1>2, <1>4, <1>7, WritesBoth
<1>9. Writes(m2, m, at, head) /\ Writes(m2, m, at + Len(head), size)
  BY <1>5, <1>6, <1>8, WritesBoth
<1>10. Holds(m2, at + 6, s.text)
  <2>1. at + Len(head \o size) = at + 6 /\ at + 6 \in Nat
    BY <1>7
  <2> QED BY <1>1, <1>8, <2>1, WritesBytes
<1>11. m2[at + 2] = Len(s.text)
  <2>1. at + Len(head) = at + 2 /\ at + 2 \in Nat
    BY <1>5
  <2>2. m[at + 2 + 1] = 0 /\ m[at + 2 + 2] = 0 /\ m[at + 2 + 3] = 0
    OBVIOUS
  <2>3. Writes(m2, m, at + 2, SizeField(s.text))
    BY <1>9, <2>1 DEF size
  <2> QED BY <1>1, <1>2, <2>1, <2>2, <2>3, WritesSize
<1>12. m2[at] = testName /\ m2[at + 1] = s.type
  <2>1. 1 \in 1..Len(head) /\ 2 \in 1..Len(head) /\ at + 1 - 1 = at /\ at + 2 - 1 = at + 1
    BY <1>5
  <2>2. /\ m2[at + 1 - 1] = IF head[1] # Skip THEN head[1] ELSE m[at + 1 - 1]
        /\ m2[at + 2 - 1] = IF head[2] # Skip THEN head[2] ELSE m[at + 2 - 1]
    BY <1>9, <2>1 DEF Writes
  <2> QED BY <1>5, <2>1, <2>2
<1> QED BY <1>10, <1>11, <1>12

(* A packed status. *)
LEMMA PackReads ==
  ASSUME level \in 0..3, NEW m \in [Addresses -> Byte], NEW i \in 0..(Top + 1), NEW s,
         Filled(m, i, s), NEW from, NEW to, Reads(level, m, i, s, from, to),
         NEW v \in Statuses, v = 2 => level <= 1, Pack(v, m, i, s),
         s # 0 => i > 0, s = 0 => m[i] = 0
  PROVE  Reads(level, memory', index', bitShift', from, Apply(level, to, EventOf(v)))
<1>1. i \in Nat /\ s \in Shifts /\ \A a \in 0..(i - 1) : m[a] \in Byte
  BY DEF Filled
<1>2. s # 0 /\ i > 0 => m[i - 1] < Weight(s)
  BY DEF Filled
<1>3. /\ index' = IF s = 0 THEN i + 1 ELSE i
      /\ bitShift' = (s + 2) % 8
      /\ index' - 1 \in Addresses
      /\ memory'[index' - 1] = OrAt(m[index' - 1], v, s)
      /\ \A a \in Addresses : a # index' - 1 => memory'[a] = m[a]
      /\ memory' \in [Addresses -> Byte]
  <2>1. v \in 0..3 /\ s \in {0, 2, 4, 6}
    BY <1>1 DEF Statuses, Shifts
  <2> QED BY <2>1, PackEffect
<1>4. \A a \in 0..Top : a \in Addresses
  BY BufferAssumption DEF Addresses
<1>5. CASE s = 0
  <2>1. index' = i + 1 /\ bitShift' = 2 /\ i \in Addresses
    BY <1>1, <1>3, <1>5
  <2>2. memory'[i] = v
    <3>1. memory'[i] = OrAt(0, v, 0)
      BY <1>1, <1>3, <1>5, <2>1
    <3>2. v \in {1, 2, 3} /\ 0 \in Byte
      BY DEF Statuses, Byte
    <3> QED BY <3>1, <3>2, FirstStatus
  <2>3. \A a \in 0..(i - 1) : memory'[a] = m[a]
    BY <1>1, <1>3, <1>4, <2>1, BufferAssumption
  <2>4. \A a \in 0..(i - 1) : m[a] \in Byte
    BY <1>1
  <2> QED BY <1>1, <1>2, <2>1, <2>2, <2>3, <2>4, ReadsNewByte
<1>6. CASE s # 0
  <2>1. index' = i /\ i > 0 /\ s \in LaterShifts
    BY <1>1, <1>3, <1>6 DEF Shifts, LaterShifts
  <2>2. memory'[i - 1] = OrAt(m[i - 1], v, s)
    BY <1>3, <2>1
  <2>3. \A a \in 0..(i - 2) : memory'[a] = m[a]
    BY <1>1, <1>3, <1>4, <2>1, BufferAssumption
  <2>4. m[i - 1] < Weight(s)
    BY <1>2, <1>6, <2>1
  <2> QED BY <1>1, <1>3, <2>1, <2>2, <2>3, <2>4, ReadsSameByte
<1> QED BY <1>5, <1>6

(* What a byte record leaves of the bytes before it. *)
LEMMA StoreKeeps ==
  ASSUME NEW bytes \in Seq(Stored), NEW m \in [Addresses -> Byte], NEW i \in 0..(Top + 1),
         Store(bytes, m, i)
  PROVE  /\ Keeps(memory', m, i)
         /\ index' = i + Len(bytes) /\ bitShift' = 0
         /\ Writes(memory', m, i, bytes)
<1>1. /\ index' = i + Len(bytes) /\ bitShift' = 0
      /\ \A a \in Addresses : a < i \/ a >= index' => memory'[a] = m[a]
  BY StoreEffect
<1>2. \A a \in 0..(i - 1) : a \in Addresses /\ a < i
  BY BufferAssumption DEF Addresses
<1> QED BY <1>1, <1>2, StoreWrites DEF Keeps

(* A failed result. *)
LEMMA FailureReads ==
  ASSUME level \in 2..3, NEW m \in [Addresses -> Byte], NEW i \in 0..(Top + 1), NEW s,
         Filled(m, i, s), NEW from, NEW to, Reads(level, m, i, s, from, to),
         NEW res, OrdinaryFailure(res), Store(FailedBytes(res), m, i),
         \A a \in i..(i + Len(FailedBytes(res)) - 1) : m[a] = 0
  PROVE  Reads(level, memory', index', bitShift', from,
               Apply(level, to, FailureOf(res, LineOf(level, res))))
<1> DEFINE t == i + 1 + (IF level = lineNumbers THEN 4 ELSE 0)
<1>1. FailedBytes(res) \in Seq(Stored)
  <2>1. res \in FailedResult
    BY Zenon DEF OrdinaryFailure
  <2>2. level \in 0..3 /\ level >= testResults
    OBVIOUS
  <2> QED BY <2>1, <2>2, FailedBytesFit
<1>2. /\ Keeps(memory', m, i)
      /\ index' = i + Len(FailedBytes(res)) /\ bitShift' = 0
      /\ Writes(memory', m, i, FailedBytes(res))
  BY <1>1, StoreKeeps
<1>3. i \in Nat
  OBVIOUS
<1>4. /\ memory'[i] = testFailed
      /\ level = lineNumbers => Holds(memory', i + 1, res.line)
      /\ HoldsFailure(memory', t, res)
      /\ i + Len(FailedBytes(res)) = FailureEnd(t, res)
  BY <1>2, <1>3, FailureIsHeld
<1>5. index' = FailureEnd(t, res) /\ bitShift' = 0
  BY <1>2, <1>4
<1>6. Reads(level, memory', FailureEnd(t, res), 0, from,
            Apply(level, to, FailureOf(res, LineOf(level, res))))
  BY <1>2, <1>3, <1>4, ReadsFailure
<1> QED BY <1>5, <1>6

(* A string. *)
LEMMA StringReads ==
  ASSUME level \in 1..3, NEW m \in [Addresses -> Byte], NEW i \in 0..Top, NEW s,
         Filled(m, i, s), NEW from, NEW to, Reads(level, m, i, s, from, to),
         NEW rec \in StringRec, OrdinaryText(rec.text), rec.type = 1 => level >= 2,
         Store(StringBytes(rec, m[i]), m, i),
         \A a \in i..(i + 5) : m[a] = 0
  PROVE  Reads(level, memory', index', bitShift', from,
               Apply(level, to, TextEvent(rec.type, NulEnd(rec.text))))
<1>1. i \in Addresses /\ i \in Nat /\ i \in 0..(Top + 1)
  BY BufferAssumption DEF Addresses
<1>2. m[i] \in Byte
  BY <1>1
<1>3. /\ StringBytes(rec, m[i]) \in Seq(Stored)
      /\ Len(StringBytes(rec, m[i])) = 6 + Len(rec.text)
      /\ Len(rec.text) \in Nat
  BY <1>2, StringBytesType
<1>4. /\ Keeps(memory', m, i)
      /\ index' = i + Len(StringBytes(rec, m[i])) /\ bitShift' = 0
      /\ Writes(memory', m, i, StringBytes(rec, m[i]))
  BY <1>1, <1>3, StoreKeeps
<1>5. /\ memory'[i] = testName /\ memory'[i + 1] = rec.type
      /\ memory'[i + 2] = Len(rec.text) /\ Holds(memory', i + 6, rec.text)
  BY <1>1, <1>4, TextIsHeld
<1>6. index' = i + 6 + Len(rec.text) /\ bitShift' = 0
  <2> DEFINE b == Len(StringBytes(rec, m[i]))
             n == Len(rec.text)
  <2>1. b = 6 + n /\ n \in Nat /\ index' = i + b /\ bitShift' = 0
    BY <1>3, <1>4
  <2> HIDE DEF b, n
  <2>2. index' = i + 6 + n
    BY <1>1, <2>1
  <2> QED BY <2>1, <2>2 DEF n
<1>7. rec.type \in 0..3
  BY DEF StringRec
<1> DEFINE text == rec.text
           type == rec.type
<1>8. /\ OrdinaryText(text) /\ type \in 0..3 /\ (type = 1 => level >= 2)
      /\ memory'[i] = testName /\ memory'[i + 1] = type
      /\ memory'[i + 2] = Len(text) /\ Holds(memory', i + 6, text)
  BY <1>5, <1>7
<1> HIDE DEF text, type
<1>9. Reads(level, memory', i + 6 + Len(text), 0, from,
            Apply(level, to, TextEvent(type, NulEnd(text))))
  BY <1>1, <1>4, <1>8, ReadsText
<1> QED BY <1>6, <1>9 DEF text, type

(* The bits above the last status need not be or-ed any more. *)
LEMMA ReadsWhole ==
  ASSUME NEW lv, NEW m, NEW N, NEW s, Filled(m, N, s),
         NEW from, NEW to, Reads(lv, m, N, s, from, to)
  PROVE  Reads(lv, m, N, 0, from, to) /\ Filled(m, N, 0)
<1>1. Dumps(m, N, 0) \in SUBSET Dumps(m, N, s)
  <2>1. CASE s = 0
    BY <2>1
  <2>2. CASE s # 0
    <3> SUFFICES ASSUME NEW data \in Dumps(m, N, 0) PROVE data \in Dumps(m, N, s)
      OBVIOUS
    <3>1. data \in Seq(Byte) /\ Len(data) >= N /\ \A a \in 0..(N - 1) : data[a + 1] = m[a]
      BY DEF Dumps
    <3>2. s \in LaterShifts /\ N \in Nat
      BY <2>2 DEF Filled, Shifts, LaterShifts
    <3>3. ASSUME NEW a \in 0..(N - 1)
          PROVE  IF s # 0 /\ a = N - 1 THEN data[a + 1] % Weight(s) = m[a]
                 ELSE data[a + 1] = m[a]
      <4>1. CASE a = N - 1
        <5>1. m[a] \in Byte /\ m[a] < Weight(s)
          BY <2>2, <3>2, <3>3, <4>1 DEF Filled
        <5>2. m[a] % Weight(s) = m[a]
          BY <3>2, <5>1, StatusAbove
        <5> QED BY <3>1, <4>1, <5>2
      <4>2. CASE a # N - 1
        BY <3>1, <4>2
      <4> QED BY <4>1, <4>2
    <3> QED BY <3>1, <3>3 DEF Dumps
  <2> QED BY <2>1, <2>2
<1>2. PICK n \in Nat, i \in Nat, sh \in Shifts :
        /\ Arrives(lv, Dumps(m, N, s), from, n, i, sh, to)
        /\ \/ sh = 0 /\ i = N /\ (N = 0 \/ s = 0)
           \/ sh # 0 /\ N = i + 1 /\ m[i] < Weight(sh) /\ s \in {0, sh}
  BY DEF Reads
<1>3. Arrives(lv, Dumps(m, N, 0), from, n, i, sh, to)
  BY <1>1, <1>2, ArrivesInFewer
<1>4. Reads(lv, m, N, 0, from, to)
  BY <1>2, <1>3 DEF Reads
<1>5. Filled(m, N, 0)
  BY DEF Filled, Shifts
<1> QED BY <1>4, <1>5
-----------------------------------------------------------------------------
(* The records of a run. *)

(* What the macros of eUnit.h call the framework with: ASSERT_EQ and        *)
(* ASSERT_NE compare objects of one, two or four bytes, the boolean macros  *)
(* a byte; an array and a string are at most 255 bytes long, because only   *)
(* one byte of their length is stored; and a string has one NUL, its last.  *)
OrdinaryInputs ==
  /\ \A a \in IntAsserts : /\ a.size \in {1, 2, 4}
                           /\ a.type \in {typeCompBool, typeCompEqual}
                           /\ a.type = typeCompBool => a.size = 1
  /\ \A a \in MemAsserts : Len(a.is) < 256 /\ Len(a.should) < 256
  /\ \A s \in Strings : OrdinaryText(s.text)

OrdinaryResult(res) == res = Success \/ OrdinaryFailure(res)

(* A comparison or a timeout makes an ordinary failure. *)
LEMMA FailedIntOrdinary ==
  ASSUME OrdinaryInputs, NEW a \in IntAsserts \union {TimeoutAssert}
  PROVE  OrdinaryFailure(FailedInt(a))
<1> DEFINE f == CompareFlags(a)
           n == a.size
           res == FailedInt(a)
<1>1. /\ res \in FailedResult
      /\ res.flags = f
      /\ res.is = IntBytes(ComparedInt(a), n, a.junk)
      /\ res.should = IntBytes(a.should, n, a.junk)
  BY FailedIntType DEF FailedInt
<1>2. \/ n = 1 /\ f = 17
      \/ n = 1 /\ f = 1
      \/ n = 1 /\ f = 33
      \/ n = 2 /\ f = 34
      \/ n = 4 /\ f = 35
  <2>1. CASE a = TimeoutAssert
    <3>1. a.type = typeTimeOut /\ a.size = 1
      BY <2>1 DEF TimeoutAssert
    <3> QED BY <3>1, SMT DEF CompareFlags, Or2
  <2>2. CASE a \in IntAsserts
    <3>1. /\ a.size \in {1, 2, 4}
          /\ a.type \in {typeCompBool, typeCompEqual}
          /\ a.type = typeCompBool => a.size = 1
      BY <2>2 DEF OrdinaryInputs
    <3> QED BY <3>1, SMT DEF CompareFlags, Or2
  <2> QED BY <2>1, <2>2
<1>3. Len(res.is) = n /\ Len(res.should) = n
  <2>1. /\ a.is \in Int /\ a.should \in Int /\ a.junk \in Byte /\ n \in Nat
    <3>1. CASE a = TimeoutAssert
      BY <3>1 DEF TimeoutAssert, Byte
    <3>2. CASE a \in IntAsserts
      BY <3>2, InputAssumption DEF IntAssert
    <3> QED BY <3>1, <3>2
  <2>2. ComparedInt(a) \in Int
    BY <2>1 DEF ComparedInt
  <2>3. /\ IntBytes(ComparedInt(a), n, a.junk) \in [1..n -> Byte]
        /\ IntBytes(a.should, n, a.junk) \in [1..n -> Byte]
    BY <2>1, <2>2, IntBytesType
  <2> HIDE DEF n, res
  <2> QED BY <1>1, <2>1, <2>3, LenFromDomain
<1> HIDE DEF f, n, res
<1>4. \/ f = 17 /\ n = 1
      \/ f \in ScalarFlags /\ n = WidthOf(f)
  BY <1>2, SMT DEF ScalarFlags, WidthOf
<1>5. OrdinaryFailure(res)
  <2>1. CASE f = 17 /\ n = 1
    BY <1>1, <1>3, <2>1, SMT DEF OrdinaryFailure, IsTimeout
  <2>2. CASE f \in ScalarFlags /\ n = WidthOf(f)
    <3>1. IsScalar(res) /\ HasWidth(res.is, res.flags) /\ HasWidth(res.should, res.flags)
      BY <1>1, <1>3, <2>2 DEF IsScalar, HasWidth
    <3> QED BY <1>1, <3>1 DEF OrdinaryFailure
  <2> QED BY <1>4, <2>1, <2>2
<1> QED BY <1>5 DEF res

(* A comparison of arrays makes an ordinary failure. *)
LEMMA FailedMemOrdinary ==
  ASSUME OrdinaryInputs, NEW a \in MemAsserts
  PROVE  OrdinaryFailure(FailedMem(a))
<1> DEFINE res == FailedMem(a)
<1>1. res \in FailedResult
  BY FailedMemType
<1>2. Len(a.is) < 256 /\ Len(a.should) < 256
  BY DEF OrdinaryInputs
<1>3. res.flags = typeCompArray + typeCompByte /\ res.is = a.is /\ res.should = a.should
  BY DEF FailedMem
<1> HIDE DEF res
<1>4. IsArray(res) /\ Len(res.is) < 256 /\ Len(res.should) < 256
  BY <1>2, <1>3 DEF IsArray
<1> QED BY <1>1, <1>4 DEF OrdinaryFailure, res

(* What an ordinary result is for the buffer. *)
LEMMA OrdinaryIsResult ==
  ASSUME NEW res, OrdinaryResult(res)
  PROVE  /\ res \in Result /\ res.kind = "result" /\ res.status \in Statuses
         /\ res # Success => res \in FailedResult /\ res.status = testFailed
         /\ res.status = testSucceed <=> res = Success
<1>1. CASE res = Success
  BY <1>1 DEF Success, Result, Statuses
<1>2. CASE OrdinaryFailure(res)
  <2>1. res \in FailedResult
    BY <1>2, Zenon DEF OrdinaryFailure
  <2>2. res.kind = "result" /\ res.status = testFailed
    BY <2>1 DEF FailedResult
  <2>3. res # Success
    BY <2>2 DEF Success
  <2> QED BY <2>1, <2>2, <2>3 DEF Result, Statuses
<1> QED BY <1>1, <1>2 DEF OrdinaryResult
-----------------------------------------------------------------------------
(* What the host is to learn of them. *)

(* Of a packed or too large result the host only learns the status. *)
LEMMA ViewOfStatus ==
  ASSUME level \in 0..3, NEW res, OrdinaryResult(res), IsPacked(res) \/ IsTooLarge(res)
  PROVE  View(res) = EventOf(res.status)
<1>1. res.status \in {testSucceed, testFailed}
  BY OrdinaryIsResult DEF Statuses
<1>2. CASE res.status = testSucceed
  BY <1>2 DEF View, EventOf
<1>3. CASE res.status = testFailed
  <2>1. level <= testNames \/ IsTooLarge(res)
    BY <1>3 DEF IsPacked
  <2> QED BY <1>3, <2>1 DEF View, EventOf
<1> QED BY <1>1, <1>2, <1>3

(* Of a stored failure the host learns the operands and the line. *)
LEMMA ViewOfFailure ==
  ASSUME level \in 2..3, NEW res, OrdinaryFailure(res), ~IsTooLarge(res)
  PROVE  View(res) = FailureOf(res, LineOf(level, res))
<1>1. res.status = testFailed
  <2>1. res \in FailedResult
    BY Zenon DEF OrdinaryFailure
  <2> QED BY <2>1 DEF FailedResult
<1>2. res.status # testSucceed /\ ~(level <= testNames)
  BY <1>1
<1> QED BY <1>2 DEF View, FailureOf, LineOf

(* The events of results. *)
ResultEvent ==
  [event: {"ok"}]
  \union [event: {"fail"}, is: Seq(Byte), should: Seq(Byte), line: Seq(Byte)]
  \union [event: {"timeout"}, line: Seq(Byte)]

(* What the host learns of an ordinary result is one of these events. *)
LEMMA ViewIsEvent ==
  ASSUME NEW res, OrdinaryResult(res)
  PROVE  View(res) \in ResultEvent
<1>1. CASE res = Success
  <2>1. View(res) = OkEvent
    BY <1>1 DEF View, Success
  <2> QED BY <2>1 DEF ResultEvent, OkEvent
<1>2. CASE OrdinaryFailure(res)
  <2> DEFINE line == IF level = lineNumbers THEN res.line ELSE << >>
             is == res.is
             should == res.should
  <2>1. res \in FailedResult
    BY <1>2, Zenon DEF OrdinaryFailure
  <2>2. is \in Seq(Byte) /\ should \in Seq(Byte) /\ res.line \in [1..4 -> Byte]
    BY <2>1 DEF FailedResult
  <2>3. res.line \in Seq(Byte)
    <3> DEFINE four == 4
    <3>1. four \in Nat /\ res.line \in [1..four -> Byte]
      BY <2>2
    <3> HIDE DEF four
    <3> QED BY <3>1, LenFromDomain
  <2>4. line \in Seq(Byte) /\ << >> \in Seq(Byte)
    BY <2>3, EmptySeq
  <2>5. View(res) \in {OkEvent, FailEvent(<< >>, << >>, << >>), TimeoutEvent(line),
                       FailEvent(is, should, line)}
    BY DEF View
  <2> HIDE DEF line, is, should
  <2>6. OkEvent \in ResultEvent /\ TimeoutEvent(line) \in ResultEvent
    BY <2>4 DEF ResultEvent, OkEvent, TimeoutEvent
  <2>7. FailEvent(is, should, line) \in ResultEvent
    BY <2>2, <2>4 DEF ResultEvent, FailEvent
  <2>8. FailEvent(<< >>, << >>, << >>) \in ResultEvent
    BY <2>4 DEF ResultEvent, FailEvent
  <2> QED BY <2>5, <2>6, <2>7, <2>8
<1> QED BY <1>1, <1>2 DEF OrdinaryResult
-----------------------------------------------------------------------------
(* What the events do to the analyser. *)

ShownResult == [class: Seq(Byte), test: Seq(Byte), file: Seq(Byte), of: ResultEvent]
GroupCount == [class: Seq(Byte), tests: Nat]

AnalyserState ==
  [succeed: Nat, failed: Nat, errors: Nat, testPerGroup: Nat,
   class: Seq(Byte), test: Seq(Byte), file: Seq(Byte),
   shown: Seq(ShownResult), groups: Seq(GroupCount)]

NamesState ==
  [class: Seq(Byte), test: Seq(Byte), file: Seq(Byte), tests: Nat, groups: Seq(GroupCount)]

(* A result is shown under the names the analyser has. *)
Under(st, event) ==
  [class |-> st.class, test |-> st.test, file |-> st.file, of |-> event]

SameNames(st, to) ==
  /\ to.class = st.class /\ to.test = st.test /\ to.file = st.file
  /\ to.testPerGroup = st.testPerGroup /\ to.groups = st.groups

Adds(st, to, event) ==
  /\ to \in AnalyserState
  /\ to.shown = Append(st.shown, Under(st, event))
  /\ to.errors = st.errors
  /\ SameNames(st, to)

(* A result under the names of the analyser is one that can be shown. *)
LEMMA UnderType ==
  ASSUME NEW st, st.class \in Seq(Byte), st.test \in Seq(Byte), st.file \in Seq(Byte),
         NEW event \in ResultEvent
  PROVE  Under(st, event) \in ShownResult
BY DEF Under, ShownResult

(* Counting and showing a result adds it and changes no name. *)
LEMMA AddsOneMore ==
  ASSUME NEW st \in AnalyserState, NEW event \in ResultEvent,
         NEW to, \/ to = [st EXCEPT !.succeed = @ + 1, !.shown = Show(st, event)]
                 \/ to = [st EXCEPT !.failed = @ + 1, !.shown = Show(st, event)]
  PROVE  Adds(st, to, event)
<1> DEFINE shown == Append(st.shown, Under(st, event))
<1>1. /\ st.succeed \in Nat /\ st.failed \in Nat /\ st.shown \in Seq(ShownResult)
      /\ st.class \in Seq(Byte) /\ st.test \in Seq(Byte) /\ st.file \in Seq(Byte)
  BY DEF AnalyserState
<1>2. shown \in Seq(ShownResult)
  BY <1>1, UnderType, AppendProperties
<1>3. Show(st, event) = shown
  BY DEF Show, Under
<1>4. st.succeed + 1 \in Nat /\ st.failed + 1 \in Nat
  BY <1>1
<1> HIDE DEF shown
<1>5. to \in AnalyserState
  BY <1>2, <1>3, <1>4 DEF AnalyserState
<1>6. to.shown = shown /\ to.errors = st.errors
  BY <1>3 DEF AnalyserState
<1>7. SameNames(st, to)
  BY DEF SameNames, AnalyserState
<1> QED BY <1>5, <1>6, <1>7 DEF Adds, shown

(* The kinds of the events of results. *)
LEMMA EventKinds ==
  ASSUME NEW event \in ResultEvent
  PROVE  event.event \in {"ok", "fail", "timeout"}
BY DEF ResultEvent

(* The event of a result adds it to what is shown. *)
LEMMA ApplyAdds ==
  ASSUME NEW lv, NEW st \in AnalyserState, NEW event \in ResultEvent
  PROVE  Adds(st, Apply(lv, st, event), event)
<1>1. CASE event.event = "ok"
  <2>1. Apply(lv, st, event) = [st EXCEPT !.succeed = @ + 1, !.shown = Show(st, event)]
    BY <1>1 DEF Apply
  <2> QED BY <2>1, AddsOneMore
<1>2. CASE event.event \in {"fail", "timeout"}
  <2>1. Apply(lv, st, event) = [st EXCEPT !.failed = @ + 1, !.shown = Show(st, event)]
    BY <1>2 DEF Apply
  <2> QED BY <2>1, AddsOneMore
<1> QED BY <1>1, <1>2, EventKinds

(* A result that is read straight from the memory of the target. *)
LEMMA DirectAdds ==
  ASSUME NEW st \in AnalyserState, NEW v \in Statuses, EventOf(v) \in ResultEvent
  PROVE  Adds(st, AnalyseDirect(st, EventOf(v)), EventOf(v))
<1> DEFINE event == EventOf(v)
           to == AnalyseDirect(st, event)
<1>1. event.event \in {"ok", "fail"}
  BY DEF EventOf, OkEvent, FailEvent
<1>2. event \in ResultEvent
  OBVIOUS
<1> HIDE DEF event
<1>3. \/ to = [st EXCEPT !.succeed = @ + 1, !.shown = Show(st, event)]
      \/ to = [st EXCEPT !.failed = @ + 1, !.shown = Show(st, event)]
  BY <1>1 DEF AnalyseDirect
<1>4. Adds(st, to, event)
  BY <1>2, <1>3, AddsOneMore
<1> QED BY <1>4 DEF event
-----------------------------------------------------------------------------
(* Sequences that begin with another one. *)

Extends(b, a) == Len(a) <= Len(b) /\ \A k \in 1..Len(a) : b[k] = a[k]

(* A sequence extends itself. *)
LEMMA ExtendsItself ==
  ASSUME NEW S, NEW a \in Seq(S)
  PROVE  Extends(a, a)
BY LenProperties DEF Extends

(* To extend is transitive. *)
LEMMA ExtendsFurther ==
  ASSUME NEW S, NEW a \in Seq(S), NEW b \in Seq(S), NEW c \in Seq(S),
         Extends(b, a), Extends(c, b)
  PROVE  Extends(c, a)
<1>1. Len(a) \in Nat /\ Len(b) \in Nat /\ Len(c) \in Nat
  BY LenProperties
<1> QED BY <1>1 DEF Extends

(* One more element extends a sequence. *)
LEMMA ExtendsAppend ==
  ASSUME NEW S, NEW a \in Seq(S), NEW x \in S
  PROVE  Append(a, x) \in Seq(S) /\ Extends(Append(a, x), a)
         /\ Len(Append(a, x)) = Len(a) + 1
<1>1. Len(a) \in Nat
  BY LenProperties
<1>2. /\ Append(a, x) \in Seq(S) /\ Len(Append(a, x)) = Len(a) + 1
      /\ \A k \in 1..Len(a) : Append(a, x)[k] = a[k]
  BY AppendProperties
<1> QED BY <1>1, <1>2 DEF Extends

(* What is extended is the beginning of the longer sequence. *)
LEMMA ExtendsIsSubSeq ==
  ASSUME NEW S, NEW a \in Seq(S), NEW b \in Seq(S), Extends(b, a)
  PROVE  a = SubSeq(b, 1, Len(a)) /\ Len(a) <= Len(b)
<1>1. Len(a) \in Nat /\ Len(b) \in Nat /\ Len(a) <= Len(b)
  BY LenProperties DEF Extends
<1>2. /\ SubSeq(b, 1, Len(a)) \in Seq(S)
      /\ Len(SubSeq(b, 1, Len(a))) = Len(a)
      /\ \A k \in 1..Len(a) : SubSeq(b, 1, Len(a))[k] = b[k]
  <2> DEFINE n == Len(a)
  <2>1. n \in Nat /\ \A i \in 1..n : b[i] \in S
    <3>1. \A i \in 1..Len(b) : b[i] \in S
      BY ElementOfSeq
    <3> QED BY <1>1, <3>1
  <2> HIDE DEF n
  <2>2. /\ SubSeq(b, 1, n) \in Seq(S)
        /\ Len(SubSeq(b, 1, n)) = IF 1 <= n THEN n - 1 + 1 ELSE 0
        /\ \A k \in 1..(n - 1 + 1) : SubSeq(b, 1, n)[k] = b[1 + k - 1]
    BY <2>1, SubSeqProperties
  <2> QED BY <2>1, <2>2 DEF n
<1>3. \A k \in 1..Len(a) : SubSeq(b, 1, Len(a))[k] = a[k]
  BY <1>2 DEF Extends
<1>4. SubSeq(b, 1, Len(a)) = a
  BY <1>2, <1>3, SeqEqual
<1> QED BY <1>1, <1>4

(* A sequence that extends one as long is that one. *)
LEMMA SameLength ==
  ASSUME NEW S, NEW a \in Seq(S), NEW b \in Seq(S), Extends(b, a), Len(b) <= Len(a)
  PROVE  a = b
<1>1. Len(a) \in Nat /\ Len(b) \in Nat /\ Len(a) = Len(b)
  BY LenProperties DEF Extends
<1> QED BY <1>1, SeqEqual DEF Extends
-----------------------------------------------------------------------------
(* A name. *)

Renames(st, to) ==
  /\ to \in AnalyserState
  /\ to.shown = st.shown /\ to.errors = st.errors
  /\ Extends(to.groups, st.groups)

(* A string changes the names, perhaps a group is counted, nothing is shown. *)
LEMMA ApplyText ==
  ASSUME NEW lv \in 1..3, NEW st \in AnalyserState, NEW type \in 0..3, NEW text \in Seq(Byte),
         NEW to, to = Apply(lv, st, TextEvent(type, text))
  PROVE  Renames(st, to)
<1> USE DEF Renames
<1> DEFINE event == TextEvent(type, text)
           count == IF lv <= 1 \/ type = 0 THEN st.testPerGroup + 1 ELSE st.testPerGroup
           counted == [st EXCEPT !.testPerGroup = count]
           group == [class |-> st.class, tests |-> count]
<1>1. /\ st.testPerGroup \in Nat /\ st.class \in Seq(Byte) /\ st.groups \in Seq(GroupCount)
  BY DEF AnalyserState
<1>2. count \in Nat
  BY <1>1
<1> HIDE DEF count
<1>3. group \in GroupCount
  BY <1>1, <1>2 DEF GroupCount
<1> HIDE DEF group
<1>4. /\ Append(st.groups, group) \in Seq(GroupCount)
      /\ Extends(Append(st.groups, group), st.groups) /\ Extends(st.groups, st.groups)
  BY <1>1, <1>3, ExtendsAppend, ExtendsItself
<1>5. to = NewText(lv, st, event) /\ event.type = type /\ event.text = text
  BY DEF Apply, TextEvent
<1>6. counted \in AnalyserState /\ counted.shown = st.shown /\ counted.errors = st.errors
      /\ counted.groups = st.groups
  BY <1>2 DEF AnalyserState
<1>7. to = CASE type = 0 -> [counted EXCEPT !.test = text]
             [] type = 1 -> [counted EXCEPT !.file = text]
             [] type = 2 -> NewClass(st, count, text)
             [] type = 3 -> counted
  BY <1>5 DEF NewText, count
<1> HIDE DEF counted, event
<1>8. CASE type = 0
  <2>1. to = [counted EXCEPT !.test = text]
    BY <1>7, <1>8
  <2> QED BY <1>4, <1>6, <2>1 DEF AnalyserState
<1>9. CASE type = 1
  <2>1. to = [counted EXCEPT !.file = text]
    BY <1>7, <1>9
  <2> QED BY <1>4, <1>6, <2>1 DEF AnalyserState
<1>10. CASE type = 2
  <2>1. to = NewClass(st, count, text)
    BY <1>7, <1>10
  <2>2. CASE st.class # << >> /\ count > 0
    <3>1. to = [st EXCEPT !.class = text, !.testPerGroup = 0,
                          !.groups = Append(st.groups, group)]
      BY <2>1, <2>2 DEF NewClass, group
    <3> DEFINE groups == Append(st.groups, group)
    <3>2. to = [st EXCEPT !.class = text, !.testPerGroup = 0, !.groups = groups]
          /\ groups \in Seq(GroupCount) /\ Extends(groups, st.groups)
      BY <1>4, <3>1
    <3> HIDE DEF groups
    <3>3. 0 \in Nat
      OBVIOUS
    <3>4. to \in AnalyserState
      BY <3>2, <3>3 DEF AnalyserState
    <3>5. to.shown = st.shown /\ to.errors = st.errors /\ to.groups = groups
      BY <3>2 DEF AnalyserState
    <3> QED BY <3>2, <3>4, <3>5
  <2>3. CASE ~(st.class # << >> /\ count > 0)
    <3>1. to = [st EXCEPT !.class = text, !.testPerGroup = count, !.groups = st.groups]
      BY <2>1, <2>3 DEF NewClass
    <3> QED BY <1>1, <1>2, <1>4, <3>1 DEF AnalyserState
  <2> QED BY <2>2, <2>3
<1>11. CASE type = 3
  <2>1. to = counted
    BY <1>7, <1>11
  <2> QED BY <1>4, <1>6, <2>1
<1> QED BY <1>8, <1>9, <1>10, <1>11

(* The analyser has the names the test code has announced, and counts the   *)
(* tests of a group as it does; at level testNames it counts strings.       *)
Agrees(lv, st, nm) ==
  /\ st.class = nm.class /\ st.test = nm.test /\ st.file = nm.file
  /\ lv >= testResults => st.testPerGroup = nm.tests /\ st.groups = nm.groups

(* A name without its NUL is a sequence of bytes. *)
LEMMA NulEndType ==
  ASSUME NEW text, OrdinaryText(text)
  PROVE  NulEnd(text) \in Seq(Byte)
<1> DEFINE n == Len(text) - 1
<1>1. text \in Seq(Byte) /\ Len(text) \in 1..255
  BY Zenon DEF OrdinaryText
<1>2. n \in Nat /\ n <= Len(text)
  <2>1. \A l \in 1..255 : l - 1 \in Nat /\ l - 1 <= l
    OBVIOUS
  <2> QED BY <1>1, <2>1, Zenon DEF n
<1>3. \A i \in 1..Len(text) : text[i] \in Byte
  BY <1>1, ElementOfSeq
<1> HIDE DEF n
<1>4. \A i \in 1..n : text[i] \in Byte
  <2>1. Len(text) \in Nat
    BY <1>1, LenProperties
  <2> QED BY <1>2, <1>3, <2>1
<1>5. SubSeq(text, 1, n) \in Seq(Byte)
  BY <1>1, <1>2, <1>4, SubSeqProperties
<1> QED BY <1>5 DEF NulEnd, n

(* A string that is announced and read leaves the names agreeing. *)
LEMMA TextAgrees ==
  ASSUME level \in 1..3, names \in NamesState, NEW st \in AnalyserState,
         Agrees(level, st, names), NEW s, s.type \in 0..3, OrdinaryText(s.text),
         IsRequested(s), StringLength(s) <= SizeofBuffer, Announces(s)
  PROVE  /\ names' \in NamesState
         /\ Agrees(level, Apply(level, st, TextEvent(s.type, NulEnd(s.text))), names')
<1> DEFINE type == s.type
           text == NulEnd(s.text)
           event == TextEvent(type, text)
           count == IF level <= 1 \/ type = 0 THEN st.testPerGroup + 1 ELSE st.testPerGroup
           counted == [st EXCEPT !.testPerGroup = count]
           to == Apply(level, st, event)
<1>1. text \in Seq(Byte)
  BY NulEndType
<1>2. type \in 0..3
  OBVIOUS
<1>3. /\ st.testPerGroup \in Nat /\ st.class \in Seq(Byte)
      /\ names.class \in Seq(Byte) /\ names.tests \in Nat /\ names.groups \in Seq(GroupCount)
  BY DEF AnalyserState, NamesState
<1>4. names' = CASE type = ofTestName  -> [names EXCEPT !.test = text, !.tests = @ + 1]
                 [] type = ofTestClass -> NextGroup(text)
                 [] type = ofTestFile  -> [names EXCEPT !.file = text]
                 [] OTHER -> names
  <2>1. ~(~IsRequested(s) \/ StringLength(s) > SizeofBuffer)
    <3> DEFINE l == StringLength(s)
    <3>1. l \in Nat
      <4>0. s.text \in Seq(Byte)
        BY Zenon DEF OrdinaryText
      <4>1. Len(s.text) \in Nat
        BY <4>0, LenProperties
      <4> DEFINE n == Len(s.text)
      <4>2. l = n + (IF level >= lineNumbers THEN 6 ELSE 5)
        BY DEF StringLength
      <4>3. n \in Nat
        BY <4>1
      <4> HIDE DEF n, l
      <4> QED BY <4>2, <4>3
    <3>2. l <= SizeofBuffer /\ IsRequested(s) /\ SizeofBuffer \in Nat
      BY BufferAssumption DEF SizeofBuffer
    <3> HIDE DEF l
    <3>3. ~(l > SizeofBuffer)
      BY <3>1, <3>2
    <3> QED BY <3>2, <3>3 DEF l
  <2> QED BY <2>1 DEF Announces
<1>5. to = NewText(level, st, event) /\ event.type = type /\ event.text = text
  BY DEF Apply, TextEvent
<1>6. to = CASE type = 0 -> [counted EXCEPT !.test = text]
             [] type = 1 -> [counted EXCEPT !.file = text]
             [] type = 2 -> NewClass(st, count, text)
             [] type = 3 -> counted
  BY <1>5 DEF NewText
<1>7. count \in Nat /\ (level >= 2 => count = IF type = 0 THEN names.tests + 1 ELSE names.tests)
      /\ (level >= 2 => st.groups = names.groups)
  BY <1>3 DEF Agrees
<1>8. st.class = names.class /\ st.test = names.test /\ st.file = names.file
  BY DEF Agrees
<1> HIDE DEF type, text, event, count, counted, to
<1>9. CASE type = 0
  <2>1. names' = [names EXCEPT !.test = text, !.tests = @ + 1]
    BY <1>4, <1>9
  <2>2. to = [counted EXCEPT !.test = text]
    BY <1>6, <1>9
  <2>3. names' \in NamesState
    <3>1. names.tests + 1 \in Nat
      BY <1>3
    <3> DEFINE tests == names.tests + 1
    <3>2. names' = [names EXCEPT !.test = text, !.tests = tests] /\ tests \in Nat
      BY <2>1, <3>1
    <3> HIDE DEF tests
    <3> QED BY <1>1, <3>2 DEF NamesState
  <2>4. /\ names'.class = names.class /\ names'.test = text /\ names'.file = names.file
        /\ names'.tests = names.tests + 1 /\ names'.groups = names.groups
    BY <2>1 DEF NamesState
  <2>5. counted \in AnalyserState
    BY <1>7 DEF AnalyserState, counted
  <2>6. /\ to.class = st.class /\ to.test = text /\ to.file = st.file
        /\ to.testPerGroup = count /\ to.groups = st.groups
    BY <1>7, <2>2 DEF AnalyserState, counted
  <2>7. Agrees(level, to, names')
    BY <1>7, <1>8, <1>9, <2>4, <2>6 DEF Agrees
  <2> QED BY <2>3, <2>7 DEF to, event, type, text
<1>10. CASE type = 1
  <2>1. names' = [names EXCEPT !.file = text]
    BY <1>4, <1>10
  <2>2. to = [counted EXCEPT !.file = text]
    BY <1>6, <1>10
  <2>3. names' \in NamesState
    BY <1>1, <1>3, <2>1 DEF NamesState
  <2>4. /\ names'.class = names.class /\ names'.test = names.test /\ names'.file = text
        /\ names'.tests = names.tests /\ names'.groups = names.groups
    BY <2>1 DEF NamesState
  <2>5. counted \in AnalyserState
    BY <1>7 DEF AnalyserState, counted
  <2>6. /\ to.class = st.class /\ to.test = st.test /\ to.file = text
        /\ to.testPerGroup = count /\ to.groups = st.groups
    BY <1>7, <2>2 DEF AnalyserState, counted
  <2>7. Agrees(level, to, names')
    BY <1>7, <1>8, <1>10, <2>4, <2>6 DEF Agrees
  <2> QED BY <2>3, <2>7 DEF to, event, type, text
<1>11. CASE type = 2
  <2>1. names' = NextGroup(text)
    BY <1>4, <1>11
  <2>2. to = NewClass(st, count, text)
    BY <1>6, <1>11
  <2> DEFINE ends == names.class # << >> /\ names.tests > 0
  <2>3. names' = [names EXCEPT !.class = text,
                    !.tests = IF ends THEN 0 ELSE @,
                    !.groups = IF ends
                               THEN Append(@, [class |-> names.class, tests |-> names.tests])
                               ELSE @]
    BY <2>1 DEF NextGroup
  <2>4. Append(names.groups, [class |-> names.class, tests |-> names.tests]) \in Seq(GroupCount)
    <3>1. [class |-> names.class, tests |-> names.tests] \in GroupCount
      BY <1>3 DEF GroupCount
    <3> QED BY <1>3, <3>1, AppendProperties
  <2>5. names' \in NamesState
    BY <1>1, <1>3, <2>3, <2>4 DEF NamesState
  <2>6. to.class = text /\ to.test = st.test /\ to.file = st.file
    BY <2>2 DEF NewClass, AnalyserState
  <2>7. names'.class = text /\ names'.test = names.test /\ names'.file = names.file
    BY <2>3 DEF NamesState
  <2>8. ASSUME level >= testResults
        PROVE  to.testPerGroup = names'.tests /\ to.groups = names'.groups
    <3>1. count = names.tests /\ st.groups = names.groups
      BY <1>7, <1>11, <2>8
    <3>2. to.testPerGroup = (IF ends THEN 0 ELSE names.tests)
          /\ to.groups = (IF ends
                          THEN Append(names.groups, [class |-> names.class, tests |-> names.tests])
                          ELSE names.groups)
      BY <1>8, <2>2, <3>1 DEF NewClass, AnalyserState
    <3>3. names'.tests = (IF ends THEN 0 ELSE names.tests)
          /\ names'.groups = (IF ends
                          THEN Append(names.groups, [class |-> names.class, tests |-> names.tests])
                          ELSE names.groups)
      BY <2>3 DEF NamesState
    <3> QED BY <3>2, <3>3
  <2>9. Agrees(level, to, names')
    BY <1>8, <2>6, <2>7, <2>8 DEF Agrees
  <2> QED BY <2>5, <2>9 DEF to, event, type, text
<1>12. CASE type = 3
  <2>1. names' = names
    BY <1>4, <1>12
  <2>2. to = counted
    BY <1>6, <1>12
  <2> QED BY <1>1, <1>3, <1>7, <1>8, <1>12, <2>1, <2>2
          DEF Agrees, AnalyserState, NamesState, counted, to, event, type, text
<1> QED BY <1>2, <1>9, <1>10, <1>11, <1>12

(* So does a message of the test, that names nothing. *)
LEMMA MessageAgrees ==
  ASSUME level \in 1..3, NEW st \in AnalyserState, Agrees(level, st, names), NEW text
  PROVE  Agrees(level, Apply(level, st, TextEvent(ofGdbMessage, text)), names)
<1> DEFINE event == TextEvent(ofGdbMessage, text)
           count == IF level <= 1 THEN st.testPerGroup + 1 ELSE st.testPerGroup
           to == Apply(level, st, event)
<1>1. to = NewText(level, st, event) /\ event.type = 3
  BY DEF Apply, TextEvent
<1>2. to = [st EXCEPT !.testPerGroup = count]
  BY <1>1 DEF NewText
<1>3. level >= testResults => count = st.testPerGroup
  OBVIOUS
<1> HIDE DEF to, count, event
<1>4. /\ to.class = st.class /\ to.test = st.test /\ to.file = st.file
      /\ to.groups = st.groups /\ to.testPerGroup = count
  BY <1>2 DEF AnalyserState
<1> QED BY <1>3, <1>4 DEF Agrees, to, event
-----------------------------------------------------------------------------
(* The buffer, as its reader needs it. *)

(* The names of the tests are announced, unless the levels ask for none;    *)
(* and at level testResults, that may store one byte behind the array, no   *)
(* other variable gets in the way.                                          *)
Regular ==
  /\ Levels \subseteq {justSuccess} \/ WRITE_TEST_NAME
  /\ testResults \in Levels => Foreign = 0

OrdinaryRecord(rec) ==
  \/ OrdinaryResult(rec)
  \/ /\ rec \in StringRec /\ OrdinaryText(rec.text)
     /\ rec.type = ofTestFile => level = lineNumbers

BufferShape ==
  /\ level \in Levels
  /\ bitShift # 0 => index <= SizeofBuffer
  /\ level = testResults => \A a \in Addresses : a >= index => memory[a] = 0
  /\ rest = nothing \/ OrdinaryRecord(rest)

(* The clear part of a memory behind an address. *)
FreeFrom(m, i, n) == \A a \in Addresses : a >= i /\ a < i + n => m[a] = 0

(* The bounds of the array and of the addresses around it. *)
LEMMA SomeAddresses ==
  /\ SIZE_OF_RESULT_BUFFER \in Nat /\ SizeofBuffer = SIZE_OF_RESULT_BUFFER + 1
  /\ SizeofBuffer < Top + 1 /\ Top \in Nat
  /\ Inside = 0..SIZE_OF_RESULT_BUFFER
  /\ \A a : a \in 0..Top => a \in Addresses /\ a \in Nat
  /\ \A a \in Inside : a \in Addresses
  /\ \A a \in Addresses : a \in Int /\ a <= Top
BY BufferAssumption DEF SizeofBuffer, Inside, Addresses

(* The buffer at any moment is one a reader can rely on. *)
LEMMA BufferIsFilled ==
  ASSUME BufferTypeOK, TailIsClean, BufferShape
  PROVE  /\ Filled(memory, index, bitShift)
         /\ level \in 0..3 /\ memory \in [Addresses -> Byte] /\ index \in 0..(Top + 1)
         /\ bitShift \in Shifts /\ index \in Nat
<1>1. /\ level \in 0..3 /\ memory \in [Addresses -> Byte] /\ index \in 0..(Top + 1)
      /\ bitShift \in Shifts /\ index \in Nat
  BY SomeAddresses DEF BufferTypeOK, Shifts
<1>2. \A a \in 0..(index - 1) : memory[a] \in Byte
  <2>1. \A a \in 0..(index - 1) : a \in 0..Top
    BY <1>1, SomeAddresses
  <2> QED BY <1>1, <2>1, SomeAddresses
<1>3. bitShift # 0 /\ index > 0 => memory[index - 1] < Weight(bitShift)
  <2> SUFFICES ASSUME bitShift # 0, index > 0 PROVE memory[index - 1] < Weight(bitShift)
    OBVIOUS
  <2>1. index \in 1..SizeofBuffer
    BY <1>1, SomeAddresses DEF BufferShape
  <2> QED BY <2>1 DEF TailIsClean
<1> QED BY <1>1, <1>2, <1>3 DEF Filled

(* So is the buffer that MessageToDebugger has cleared. *)
LEMMA ClearedIsEmpty ==
  ASSUME BufferTypeOK, TailIsClean, BufferShape
  PROVE  /\ Cleared \in [Addresses -> Byte] /\ Filled(Cleared, 0, 0)
         /\ \A a \in Inside : Cleared[a] = 0
         /\ level = testResults => \A a \in Addresses : a >= 0 => Cleared[a] = 0
<1>0. Cleared = [a \in Addresses |-> IF a \in 0..index THEN 0 ELSE memory[a]]
  BY DEF Cleared
<1>1. Cleared \in [Addresses -> Byte]
  BY ClearedType
<1>2. Filled(Cleared, 0, 0)
  BY DEF Filled, Shifts
<1>3. index \in Nat
  BY BufferIsFilled
<1>4. ASSUME NEW a \in Addresses, a >= 0, a > index => memory[a] = 0
      PROVE  Cleared[a] = 0
  <2>1. CASE a \in 0..index
    BY <1>0, <2>1
  <2>2. CASE a \notin 0..index
    <3>1. a > index
      BY <1>3, <1>4, <2>2, SomeAddresses
    <3> QED BY <1>0, <1>4, <2>2, <3>1
  <2> QED BY <2>1, <2>2
<1>5. ASSUME NEW a \in Inside PROVE Cleared[a] = 0
  <2>1. a \in Addresses /\ a >= 0 /\ (a > index => a >= index)
    BY <1>3, <1>5, SomeAddresses
  <2>2. a >= index => memory[a] = 0
    BY <1>5 DEF TailIsClean
  <2> QED BY <1>4, <2>1, <2>2
<1>6. ASSUME level = testResults, NEW a \in Addresses, a >= 0 PROVE Cleared[a] = 0
  <2>1. a > index => a >= index
    BY <1>3, SomeAddresses
  <2>2. a >= index => memory[a] = 0
    BY <1>6 DEF BufferShape
  <2> QED BY <1>4, <1>6, <2>1, <2>2
<1> QED BY <1>1, <1>2, <1>5, <1>6

(* A result that is written is read. *)
LEMMA ResultReads ==
  ASSUME level \in 0..3, NEW m \in [Addresses -> Byte], NEW i \in 0..(Top + 1), NEW s,
         Filled(m, i, s), NEW from, NEW to, Reads(level, m, i, s, from, to),
         NEW res, OrdinaryResult(res), ~IsTooLarge(res), Write(res, m, i, s),
         IsPacked(res) /\ s # 0 => i > 0, IsPacked(res) /\ s = 0 => m[i] = 0,
         ~IsPacked(res) => FreeFrom(m, i, calcResultLength(res))
  PROVE  Reads(level, memory', index', bitShift', from, Apply(level, to, View(res)))
<1>1. res.kind = "result" /\ res.status \in Statuses
  BY OrdinaryIsResult
<1>2. CASE IsPacked(res)
  <2> DEFINE v == res.status
  <2>1. Pack(v, m, i, s)
    BY <1>1, <1>2 DEF Write
  <2>2. v \in Statuses /\ (v = 2 => level <= 1)
    BY <1>1, <1>2 DEF IsPacked
  <2>3. View(res) = EventOf(v)
    BY <1>2, ViewOfStatus
  <2> HIDE DEF v
  <2>4. s # 0 => i > 0
    BY <1>2
  <2>5. s = 0 => m[i] = 0
    BY <1>2
  <2> QED BY <2>1, <2>2, <2>3, <2>4, <2>5, PackReads
<1>3. CASE ~IsPacked(res)
  <2>1. Store(FailedBytes(res), m, i)
    BY <1>1, <1>3 DEF Write
  <2>2. level \in 2..3 /\ res.status # testSucceed
    BY <1>3 DEF IsPacked
  <2>3. OrdinaryFailure(res)
    BY <2>2 DEF OrdinaryResult, Success
  <2>4. res \in FailedResult /\ level >= testResults
    <3>1. res \in FailedResult
      BY <2>3, Zenon DEF OrdinaryFailure
    <3> QED BY <2>2, <3>1
  <2> DEFINE n == Len(FailedBytes(res))
             l == calcResultLength(res)
  <2>5. n <= l /\ n \in Nat
    BY <2>4, FailedBytesFit
  <2>6. l \in Nat
    <3>1. res \in Result
      BY <2>4 DEF Result
    <3> QED BY <3>1, LengthsAreInt
  <2>7. i + n <= Top + 1
    BY <2>1 DEF Store
  <2>8. FreeFrom(m, i, l)
    BY <1>3
  <2> HIDE DEF l
  <2>9. \A a \in i..(i + n - 1) : m[a] = 0
    <3> HIDE DEF n
    <3> SUFFICES ASSUME NEW a \in i..(i + n - 1) PROVE m[a] = 0
      OBVIOUS
    <3>1. a \in 0..Top /\ a >= i /\ a < i + l
      BY <2>5, <2>6, <2>7, SomeAddresses
    <3> QED BY <2>8, <3>1, SomeAddresses DEF FreeFrom
  <2>10. View(res) = FailureOf(res, LineOf(level, res))
    BY <2>2, <2>3, ViewOfFailure
  <2> QED BY <2>1, <2>2, <2>3, <2>9, <2>10, FailureReads
<1> QED BY <1>2, <1>3

(* A string that is written is read. *)
LEMMA StringWriteReads ==
  ASSUME level \in 1..3, NEW m \in [Addresses -> Byte], NEW i \in 0..Top, NEW s,
         Filled(m, i, s), NEW from, NEW to, Reads(level, m, i, s, from, to),
         NEW rec, rec \in StringRec, OrdinaryText(rec.text),
         rec.type = ofTestFile => level = lineNumbers,
         NEW any, Write(rec, m, i, any), FreeFrom(m, i, StringLength(rec)),
         i + StringLength(rec) <= SizeofBuffer
  PROVE  Reads(level, memory', index', bitShift', from,
               Apply(level, to, TextEvent(rec.type, NulEnd(rec.text))))
<1>1. rec.kind = "string"
  BY DEF StringRec
<1>2. Store(StringBytes(rec, m[i]), m, i)
  BY <1>1 DEF Write
<1> DEFINE l == StringLength(rec)
<1>3. l \in Nat /\ l >= 6
  <2> DEFINE n == Len(rec.text)
  <2>1. n \in 1..255
    BY Zenon DEF OrdinaryText
  <2>2. l = n + (IF level >= lineNumbers THEN 6 ELSE 5)
    BY DEF StringLength
  <2> HIDE DEF n, l
  <2> QED BY <2>1, <2>2
<1>4. FreeFrom(m, i, l)
  OBVIOUS
<1>5. i + l <= SizeofBuffer
  OBVIOUS
<1> HIDE DEF l
<1>6. \A a \in i..(i + 5) : m[a] = 0
  <2> SUFFICES ASSUME NEW a \in i..(i + 5) PROVE m[a] = 0
    OBVIOUS
  <2>1. a \in 0..Top /\ a >= i /\ a < i + l
    BY <1>3, <1>5, SomeAddresses
  <2> QED BY <1>4, <2>1, SomeAddresses DEF FreeFrom
<1>7. rec.type = 1 => level >= 2
  OBVIOUS
<1> QED BY <1>2, <1>6, <1>7, StringReads
-----------------------------------------------------------------------------
(* The calls and the answers, as the reader of the buffer sees them. *)

Stops(rec) ==
  /\ message' \in {bufferIsFull, bufferToSmall} /\ rest' = rec
  /\ memory' = memory /\ index' = index

GoesOn == message' = message /\ rest' = rest

(* What a write leaves behind itself. *)
LEMMA WriteShape ==
  ASSUME level \in 0..3, NEW rec \in Result \union StringRec,
         NEW m \in [Addresses -> Byte], NEW i \in 0..(Top + 1),
         NEW shift \in Shifts, Write(rec, m, i, shift),
         level = testResults => \A a \in Addresses : a >= i => m[a] = 0,
         rec \in Result /\ IsPacked(rec) =>
           i <= SizeofBuffer /\ (shift = 0 => i < SizeofBuffer)
  PROVE  /\ bitShift' # 0 => index' <= SizeofBuffer
         /\ level = testResults => \A a \in Addresses : a >= index' => memory'[a] = 0
<1>1. shift \in {0, 2, 4, 6} /\ i \in Nat
  BY SomeAddresses DEF Shifts
<1>2. CASE rec \in Result /\ IsPacked(rec) /\ rec.status \in 0..3 /\ Pack(rec.status, m, i, shift)
  <2> DEFINE v == rec.status
  <2>1. v \in 0..3 /\ Pack(v, m, i, shift)
    BY <1>2
  <2> HIDE DEF v
  <2>2. /\ index' = IF shift = 0 THEN i + 1 ELSE i
        /\ \A a \in Addresses : a # index' - 1 => memory'[a] = m[a]
    BY <1>1, <2>1, PackEffect
  <2>3. index' <= SizeofBuffer
    BY <1>1, <1>2, <2>2, SomeAddresses
  <2>4. index' \in Nat /\ index' >= i
    BY <1>1, <2>2
  <2>5. ASSUME level = testResults, NEW a \in Addresses, a >= index' PROVE memory'[a] = 0
    <3>1. a # index' - 1 /\ a >= i
      BY <1>1, <2>4, <2>5, SomeAddresses
    <3> QED BY <2>2, <2>5, <3>1
  <2> QED BY <2>3, <2>5
<1>3. ASSUME NEW bytes \in Seq(Stored), Len(bytes) \in Nat, Store(bytes, m, i)
      PROVE  /\ bitShift' = 0
             /\ level = testResults => \A a \in Addresses : a >= index' => memory'[a] = 0
  <2>1. /\ index' = i + Len(bytes) /\ bitShift' = 0
        /\ \A a \in Addresses : a < i \/ a >= index' => memory'[a] = m[a]
    BY <1>3, StoreEffect
  <2>2. index' \in Nat /\ index' >= i
    BY <1>1, <1>3, <2>1
  <2>3. ASSUME level = testResults, NEW a \in Addresses, a >= index' PROVE memory'[a] = 0
    <3>1. a >= i
      BY <1>1, <2>2, <2>3, SomeAddresses
    <3> QED BY <2>1, <2>3, <3>1
  <2> QED BY <2>1, <2>3
<1>4. \/ rec \in Result /\ IsPacked(rec) /\ rec.status \in 0..3 /\ Pack(rec.status, m, i, shift)
      \/ \E bytes \in Seq(Stored) : Len(bytes) \in Nat /\ Store(bytes, m, i)
  BY <1>1, WriteCases
<1> QED BY <1>2, <1>3, <1>4

(* A call that reports a result. *)
LEMMA AddResultStep ==
  ASSUME BufferTypeOK, RecordsInside, TailIsClean, BufferShape, StoppedCallFits, Running,
         NEW res, OrdinaryResult(res), addResult(res), level' = level,
         NEW from, NEW to, Reads(level, memory, index, bitShift, from, to),
         IsPacked(res) /\ ~IsTooLarge(res) /\ bitShift # 0 => index > 0
  PROVE  /\ BufferShape'
         /\ \/ /\ Stops(res) /\ bitShift' = bitShift
               /\ message' = bufferToSmall => IsTooLarge(res)
            \/ /\ GoesOn
               /\ ~IsTooLarge(res)
               /\ bitShift' # 0 => index' > 0
               /\ Reads(level, memory', index', bitShift', from, Apply(level, to, View(res)))
<1>1. /\ Filled(memory, index, bitShift)
      /\ level \in 0..3 /\ memory \in [Addresses -> Byte] /\ index \in 0..(Top + 1)
      /\ bitShift \in Shifts /\ index \in Nat
  BY BufferIsFilled
<1>2. res \in Result /\ res.kind = "result" /\ res.status \in Statuses
  BY OrdinaryIsResult
<1> DEFINE l == calcResultLength(res)
<1>3. l \in Nat /\ l >= 1
  BY <1>2, LengthsAreInt
<1>4. rest = nothing
  BY DEF StoppedCallFits, Running
<1>5. OrdinaryRecord(res)'
  BY DEF OrdinaryRecord, OrdinaryResult, OrdinaryFailure
<1>6. CASE /\ \/ MessageToDebugger(bufferToSmall, res) /\ l >= SIZE_OF_RESULT_BUFFER
              \/ MessageToDebugger(bufferIsFull, res)
           /\ bitShift' = bitShift
  <2>1. Stops(res)
    BY <1>6 DEF MessageToDebugger, Stops
  <2>2. rest' = res /\ index' = index /\ memory' = memory
    BY <2>1 DEF Stops
  <2>3. BufferShape'
    BY <1>6, <2>2, <1>5 DEF BufferShape, OrdinaryRecord
  <2>4. message' = bufferToSmall => IsTooLarge(res)
    BY <1>6 DEF MessageToDebugger, bufferToSmall, bufferIsFull, IsTooLarge
  <2> QED BY <1>6, <2>1, <2>3, <2>4
<1>7. CASE /\ l < SIZE_OF_RESULT_BUFFER
           /\ ~IsFull(l)
           /\ ~(IsPacked(res) /\ bitShift = 0 /\ index >= SIZE_OF_RESULT_BUFFER)
           /\ Write(res, memory, index, bitShift)
           /\ UNCHANGED <<message, rest>>
  <2>1. GoesOn
    BY <1>7 DEF GoesOn
  <2>2. ~IsTooLarge(res)
    <3>1. ~(l >= SIZE_OF_RESULT_BUFFER)
      <4> HIDE DEF l
      <4> QED BY <1>3, <1>7, SomeAddresses
    <3> QED BY <3>1 DEF IsTooLarge
  <2> HIDE DEF l
  <2>3. bitShift = 0 /\ IsPacked(res) => index < SIZE_OF_RESULT_BUFFER
    BY <1>1, <1>7, SomeAddresses
  <2>4. bitShift = 0 /\ IsPacked(res) => memory[index] = 0
    <3> SUFFICES ASSUME bitShift = 0, IsPacked(res) PROVE memory[index] = 0
      OBVIOUS
    <3>1. index \in Inside /\ index >= index
      BY <1>1, <2>3, SomeAddresses
    <3> QED BY <3>1 DEF TailIsClean
  <2>5. bitShift # 0 => index <= SizeofBuffer
    BY DEF BufferShape
  <2>6. level = testResults => \A a \in Addresses : a >= index => memory[a] = 0
    BY DEF BufferShape
  <2>7. ~IsPacked(res) => FreeFrom(memory, index, l)
    <3> SUFFICES ASSUME ~IsPacked(res), NEW a \in Addresses, a >= index, a < index + l
                 PROVE  memory[a] = 0
      BY DEF FreeFrom
    <3>1. level = testResults \/ level = lineNumbers
      BY <1>1 DEF IsPacked
    <3>2. CASE level = testResults
      BY <2>6, <3>2
    <3>3. CASE level = lineNumbers
      <4>1. index <= SizeofBuffer
        BY <3>3 DEF RecordsInside
      <4>2. ~(l >= SizeofBuffer - index)
        BY <1>7, <4>1 DEF IsFull
      <4>3. a \in Inside
        BY <1>1, <1>3, <4>1, <4>2, SomeAddresses
      <4> QED BY <4>3 DEF TailIsClean
    <3> QED BY <3>1, <3>2, <3>3
  <2>8. Write(res, memory, index, bitShift)
    BY <1>7
  <2>9. IsPacked(res) /\ bitShift # 0 => index > 0
    BY <2>2
  <2>10. ~IsPacked(res) => FreeFrom(memory, index, calcResultLength(res))
    BY <2>7 DEF l
  <2>11. Reads(level, memory', index', bitShift', from, Apply(level, to, View(res)))
    BY <1>1, <2>2, <2>4, <2>8, <2>9, <2>10, ResultReads
  <2>12. /\ bitShift' # 0 => index' <= SizeofBuffer
         /\ level = testResults => \A a \in Addresses : a >= index' => memory'[a] = 0
    <3>1. res \in Result /\ IsPacked(res) =>
            index <= SizeofBuffer /\ (bitShift = 0 => index < SizeofBuffer)
      BY <1>1, <2>3, <2>5, SomeAddresses
    <3>2. res \in Result \union StringRec
      BY <1>2
    <3> QED BY <1>1, <2>6, <2>8, <3>1, <3>2, WriteShape
  <2>13. BufferShape'
    <3>1. rest' = nothing /\ level' \in Levels
      BY <1>4, <2>1 DEF GoesOn, BufferShape
    <3>2. nothing' = nothing
      OBVIOUS
    <3> QED BY <2>12, <3>1 DEF BufferShape
  <2>14. bitShift' # 0 => index' > 0
    <3>1. CASE IsPacked(res)
      <4>1. Pack(res.status, memory, index, bitShift)
        BY <1>2, <2>8, <3>1 DEF Write
      <4>2. index' = IF bitShift = 0 THEN index + 1 ELSE index
        BY <4>1 DEF Pack
      <4> QED BY <1>1, <2>9, <3>1, <4>2
    <3>2. CASE ~IsPacked(res)
      BY <1>2, <2>8, <3>2 DEF Write, Store
    <3> QED BY <3>1, <3>2
  <2> QED BY <2>1, <2>2, <2>11, <2>13, <2>14
<1> QED BY <1>6, <1>7 DEF addResult, l

(* A call that adds a string. *)
LEMMA AddStringStep ==
  ASSUME BufferTypeOK, RecordsInside, TailIsClean, BufferShape, StoppedCallFits, Running,
         NEW s, StringRecord(s) \in StringRec, OrdinaryText(s.text), IsRequested(s),
         addStringToBuffer(s), level' = level,
         NEW from, NEW to, Reads(level, memory, index, bitShift, from, to)
  PROVE  /\ BufferShape' /\ bitShift' = 0 /\ level \in 1..3
         /\ \/ /\ Stops(StringRecord(s))
               /\ message' = bufferToSmall <=> StringLength(s) > SizeofBuffer
               /\ Reads(level, memory', index', bitShift', from, to)
            \/ /\ GoesOn
               /\ StringLength(s) <= SizeofBuffer
               /\ Reads(level, memory', index', bitShift', from,
                        Apply(level, to, TextEvent(s.type, NulEnd(s.text))))
<1> DEFINE rec == StringRecord(s)
           l == StringLength(s)
<1>1. /\ Filled(memory, index, bitShift)
      /\ level \in 0..3 /\ memory \in [Addresses -> Byte] /\ index \in 0..(Top + 1)
      /\ bitShift \in Shifts /\ index \in Nat
  BY BufferIsFilled
<1>2. level \in 1..3 /\ (s.type = ofTestFile => level = lineNumbers)
  BY <1>1 DEF IsRequested
<1>3. /\ rec.kind = "string" /\ rec.type = s.type /\ rec.text = s.text /\ rec \in StringRec
      /\ StringLength(rec) = l
  BY DEF StringRecord, StringLength
<1>4. l \in Nat /\ l >= 6
  <2> DEFINE n == Len(s.text)
  <2>1. n \in 1..255
    BY Zenon DEF OrdinaryText
  <2>2. l = n + (IF level >= lineNumbers THEN 6 ELSE 5)
    BY DEF StringLength
  <2> HIDE DEF n, l
  <2> QED BY <1>2, <2>1, <2>2
<1>5. rest = nothing /\ message = noMessage
  BY DEF StoppedCallFits, Running
<1>6. OrdinaryRecord(rec)'
  <2>1. rec.type = ofTestFile => level = lineNumbers
    BY <1>2, <1>3
  <2>2. OrdinaryText(rec.text)
    BY <1>3
  <2> HIDE DEF rec
  <2> QED BY <1>3, <2>1, <2>2 DEF OrdinaryRecord
<1>7. ASSUME \/ MessageToDebugger(bufferToSmall, rec) /\ l > SizeofBuffer
             \/ MessageToDebugger(bufferIsFull, rec) /\ l <= SizeofBuffer,
             bitShift' = 0
      PROVE  /\ BufferShape'
             /\ Stops(rec)
             /\ message' = bufferToSmall <=> l > SizeofBuffer
             /\ Reads(level, memory', index', bitShift', from, to)
  <2>1. Stops(rec)
    BY <1>7 DEF MessageToDebugger, Stops
  <2>2. rest' = rec /\ index' = index /\ memory' = memory
    BY <2>1 DEF Stops
  <2>3. message' = bufferToSmall <=> l > SizeofBuffer
    <3> HIDE DEF rec, l
    <3> QED BY <1>4, <1>7, SomeAddresses DEF MessageToDebugger, bufferToSmall, bufferIsFull
  <2>4. OrdinaryRecord(rest)'
    BY <1>6, <2>2 DEF OrdinaryRecord, OrdinaryResult, OrdinaryFailure
  <2>5. BufferShape'
    BY <1>7, <2>2, <2>4 DEF BufferShape
  <2>6. Reads(level, memory, index, 0, from, to)
    BY <1>1, ReadsWhole
  <2> QED BY <1>7, <2>1, <2>2, <2>3, <2>5, <2>6
<1>8. ASSUME l + index <= SizeofBuffer, Write(rec, memory, index, 0),
             UNCHANGED <<message, rest>>
      PROVE  /\ BufferShape' /\ bitShift' = 0
             /\ GoesOn
             /\ l <= SizeofBuffer
             /\ Reads(level, memory', index', bitShift', from,
                      Apply(level, to, TextEvent(s.type, NulEnd(s.text))))
  <2>1. GoesOn
    BY <1>8 DEF GoesOn
  <2> HIDE DEF l
  <2>2. index \in 0..Top /\ l <= SizeofBuffer /\ index + l <= SizeofBuffer
    BY <1>1, <1>4, <1>8, SomeAddresses
  <2>3. FreeFrom(memory, index, l)
    <3> SUFFICES ASSUME NEW a \in Addresses, a >= index, a < index + l PROVE memory[a] = 0
      BY DEF FreeFrom
    <3>1. a \in Inside
      BY <1>1, <1>4, <2>2, SomeAddresses
    <3> QED BY <3>1 DEF TailIsClean
  <2>4. Reads(level, memory', index', bitShift', from,
              Apply(level, to, TextEvent(rec.type, NulEnd(rec.text))))
    <3>1. /\ OrdinaryText(rec.text) /\ (rec.type = ofTestFile => level = lineNumbers)
      BY <1>2, <1>3
    <3>2. FreeFrom(memory, index, StringLength(rec)) /\ index + StringLength(rec) <= SizeofBuffer
      BY <1>3, <2>2, <2>3
    <3>3. Write(rec, memory, index, 0) /\ rec \in StringRec
      BY <1>3, <1>8
    <3> HIDE DEF rec
    <3> QED BY <1>1, <1>2, <2>2, <3>1, <3>2, <3>3, StringWriteReads
  <2>5. /\ bitShift' = 0
        /\ bitShift' # 0 => index' <= SizeofBuffer
        /\ level = testResults => \A a \in Addresses : a >= index' => memory'[a] = 0
    <3>1. bitShift' = 0
      BY <1>3, <1>8 DEF Write, Store
    <3>2. level = testResults => \A a \in Addresses : a >= index => memory[a] = 0
      BY DEF BufferShape
    <3>3. ~(rec \in Result)
      BY <1>3 DEF Result, FailedResult, Success
    <3>4. Write(rec, memory, index, 0) /\ rec \in Result \union StringRec /\ 0 \in Shifts
      BY <1>3, <1>8 DEF Shifts
    <3> HIDE DEF rec
    <3> QED BY <1>1, <3>1, <3>2, <3>3, <3>4, WriteShape
  <2>6. BufferShape'
    <3>1. rest' = nothing /\ level' \in Levels
      BY <1>5, <2>1 DEF GoesOn, BufferShape
    <3> QED BY <2>5, <3>1 DEF BufferShape
  <2> QED BY <1>3, <2>1, <2>2, <2>4, <2>5, <2>6
<1>9. \/ /\ \/ MessageToDebugger(bufferToSmall, rec) /\ l > SizeofBuffer
            \/ MessageToDebugger(bufferIsFull, rec) /\ l <= SizeofBuffer
         /\ bitShift' = 0
      \/ l + index <= SizeofBuffer /\ Write(rec, memory, index, 0) /\ UNCHANGED <<message, rest>>
  BY DEF addStringToBuffer
<1> HIDE DEF rec, l
<1>10. CASE /\ \/ MessageToDebugger(bufferToSmall, rec) /\ l > SizeofBuffer
               \/ MessageToDebugger(bufferIsFull, rec) /\ l <= SizeofBuffer
            /\ bitShift' = 0
  BY <1>2, <1>7, <1>10 DEF rec, l
<1>11. CASE l + index <= SizeofBuffer /\ Write(rec, memory, index, 0) /\ UNCHANGED <<message, rest>>
  BY <1>2, <1>8, <1>11 DEF rec, l
<1> QED BY <1>9, <1>10, <1>11

(* The target goes on with its record in the drained buffer, or without one. *)
LEMMA ContinueStep ==
  ASSUME BufferTypeOK, RecordsInside, TailIsClean, BufferShape, StoppedCallFits,
         ContinueAfterMessage, NEW to
  PROVE  /\ BufferShape' /\ message' = noMessage /\ rest' = nothing /\ level' = level
         /\ \/ /\ rest = nothing
               /\ index' = 0 /\ bitShift' = 0
               /\ Reads(level, memory', index', bitShift', to, to)
            \/ /\ OrdinaryResult(rest) /\ message = bufferIsFull
               /\ bitShift' = 0 \/ index' > 0
               /\ Reads(level, memory', index', bitShift', to, Apply(level, to, View(rest)))
            \/ /\ rest \in StringRec /\ OrdinaryText(rest.text) /\ message = bufferIsFull
               /\ level \in 1..3
               /\ bitShift' = 0
               /\ Reads(level, memory', index', bitShift', to,
                        Apply(level, to, TextEvent(rest.type, NulEnd(rest.text))))
<1>1. /\ level \in 0..3 /\ memory \in [Addresses -> Byte] /\ index \in 0..(Top + 1)
      /\ bitShift \in Shifts /\ index \in Nat
  BY BufferIsFilled
<1>2. /\ Cleared \in [Addresses -> Byte] /\ Filled(Cleared, 0, 0)
      /\ \A a \in Inside : Cleared[a] = 0
      /\ level = testResults => \A a \in Addresses : a >= 0 => Cleared[a] = 0
  BY ClearedIsEmpty
<1>3. message' = noMessage /\ rest' = nothing /\ level' = level /\ level \in Levels
      /\ message \in {bufferIsFull, finishAllTest}
  BY DEF ContinueAfterMessage, BufferShape
<1>4. Reads(level, Cleared, 0, 0, to, to) /\ 0 \in 0..(Top + 1) /\ 0 \in 0..Top /\ 0 \in Shifts
  BY ReadsNothing, SomeAddresses DEF Shifts
<1>5. CASE rest = nothing /\ memory' = Cleared /\ index' = 0 /\ bitShift' = 0
  <2>1. Reads(level, memory', index', bitShift', to, to)
    BY <1>4, <1>5
  <2>2. BufferShape'
    BY <1>2, <1>3, <1>5 DEF BufferShape
  <2> QED BY <1>3, <1>5, <2>1, <2>2
<1>6. CASE rest # nothing /\ Write(rest, Cleared, 0, 0)
  <2>1. message = bufferIsFull
    BY <1>3, <1>6 DEF StoppedCallFits
  <2>2. \/ rest \in Result /\ calcResultLength(rest) < SIZE_OF_RESULT_BUFFER
        \/ rest \in StringRec /\ StringLength(rest) <= SizeofBuffer /\ level # justSuccess
    BY <2>1 DEF StoppedCallFits
  <2>3. ASSUME rest \in Result \union StringRec
        PROVE  /\ bitShift' # 0 => index' <= SizeofBuffer
               /\ level = testResults => \A a \in Addresses : a >= index' => memory'[a] = 0
    <3>1. 0 <= SizeofBuffer /\ 0 < SizeofBuffer
      BY SomeAddresses
    <3> QED BY <1>1, <1>2, <1>4, <1>6, <2>3, <3>1, WriteShape
  <2>4. BufferShape'
    BY <1>3, <2>2, <2>3 DEF BufferShape
  <2>5. OrdinaryRecord(rest)
    BY <1>6 DEF BufferShape
  <2>6. CASE rest \in Result /\ calcResultLength(rest) < SIZE_OF_RESULT_BUFFER
    <3>1. OrdinaryResult(rest)
      <4>1. ~(rest \in StringRec)
        BY <2>6 DEF Result, FailedResult, Success, StringRec
      <4> QED BY <2>5, <4>1 DEF OrdinaryRecord
    <3> DEFINE l == calcResultLength(rest)
    <3>2. l \in Nat /\ l >= 1 /\ l < SIZE_OF_RESULT_BUFFER
      BY <2>6, LengthsAreInt
    <3>3. ~IsTooLarge(rest)
      <4>1. ~(l >= SIZE_OF_RESULT_BUFFER)
        <5> HIDE DEF l
        <5> QED BY <3>2, SomeAddresses
      <4> QED BY <4>1 DEF IsTooLarge
    <3> HIDE DEF l
    <3>4. FreeFrom(Cleared, 0, l)
      <4> SUFFICES ASSUME NEW a \in Addresses, a >= 0, a < 0 + l PROVE Cleared[a] = 0
        BY DEF FreeFrom
      <4>1. a \in Inside
        BY <3>2, SomeAddresses
      <4> QED BY <1>2, <4>1
    <3>5. Cleared[0] = 0
      BY <1>2, SomeAddresses
    <3>6. FreeFrom(Cleared, 0, calcResultLength(rest))
      BY <3>4 DEF l
    <3>7. Write(rest, Cleared, 0, 0)
      BY <1>6
    <3>8. Reads(level, memory', index', bitShift', to, Apply(level, to, View(rest)))
      BY <1>1, <1>2, <1>4, <3>1, <3>3, <3>5, <3>6, <3>7, ResultReads
    <3>9. bitShift' = 0 \/ index' > 0
      <4>1. \/ Pack(rest.status, Cleared, 0, 0)
            \/ Store(FailedBytes(rest), Cleared, 0)
        BY <3>1, <3>7, OrdinaryIsResult DEF Write
      <4>2. CASE Pack(rest.status, Cleared, 0, 0)
        <5>1. index' = 0 + 1
          BY <4>2 DEF Pack
        <5> QED BY <5>1
      <4>3. CASE Store(FailedBytes(rest), Cleared, 0)
        BY <4>3 DEF Store
      <4> QED BY <4>1, <4>2, <4>3
    <3> QED BY <1>3, <2>1, <2>4, <3>1, <3>8, <3>9
  <2>7. CASE rest \in StringRec /\ StringLength(rest) <= SizeofBuffer /\ level # justSuccess
    <3>1. OrdinaryText(rest.text) /\ (rest.type = ofTestFile => level = lineNumbers)
      <4>1. ~OrdinaryResult(rest)
        BY <2>7, OrdinaryIsResult DEF StringRec
      <4> QED BY <2>5, <4>1 DEF OrdinaryRecord
    <3>2. level \in 1..3
      BY <1>1, <2>7
    <3> DEFINE l == StringLength(rest)
    <3>3. l \in Nat /\ l <= SizeofBuffer
      BY <2>7, LengthsAreInt
    <3> HIDE DEF l
    <3>4. FreeFrom(Cleared, 0, l)
      <4> SUFFICES ASSUME NEW a \in Addresses, a >= 0, a < 0 + l PROVE Cleared[a] = 0
        BY DEF FreeFrom
      <4>1. a \in Inside
        BY <3>3, SomeAddresses
      <4> QED BY <1>2, <4>1
    <3>5. 0 + l <= SizeofBuffer
      BY <3>3, SomeAddresses
    <3>6. FreeFrom(Cleared, 0, StringLength(rest)) /\ 0 + StringLength(rest) <= SizeofBuffer
      BY <3>4, <3>5 DEF l
    <3>7. Write(rest, Cleared, 0, 0)
      BY <1>6
    <3>8. Reads(level, memory', index', bitShift', to,
                Apply(level, to, TextEvent(rest.type, NulEnd(rest.text))))
      BY <1>2, <1>4, <2>7, <3>1, <3>2, <3>6, <3>7, StringWriteReads
    <3>9. bitShift' = 0
      BY <2>7, <3>7 DEF Write, Store, StringRec
    <3> QED BY <1>3, <2>1, <2>4, <2>7, <3>1, <3>2, <3>8, <3>9
  <2> QED BY <2>2, <2>6, <2>7
<1> QED BY <1>5, <1>6 DEF ContinueAfterMessage
-----------------------------------------------------------------------------
(* The invariant of a run. *)

BufferIsSound == BufferTypeOK /\ StoppedCallFits /\ RecordsInside /\ TailIsClean

TransferTypes ==
  /\ analyser \in AnalyserState /\ names \in NamesState /\ sent \in Seq(ShownResult)
  /\ phase \in Phases /\ testSuccess \in BOOLEAN /\ closed \in BOOLEAN

(* Where the test code and the host are; and where a drained buffer may     *)
(* still have a shift, no status is packed before the shift is reset.       *)
RunShape ==
  /\ phase = "finished" => message \in {noMessage, finishAllTest}
  /\ message = finishAllTest => phase = "finished"
  /\ closed => phase = "finished" /\ message = noMessage /\ index = 0
  /\ level = justSuccess /\ (index = 0 \/ SIZE_OF_RESULT_BUFFER <= 1) => bitShift = 0
  /\ level # justSuccess /\ bitShift # 0 /\ phase = "inTest"
       /\ (index = 0 \/ message = bufferToSmall)
     => ~testSuccess /\ (level = testNames => SIZE_OF_RESULT_BUFFER <= 5)

(* What the analyser will be once a stopped string is stored, and read.     *)
Pending(to) ==
  IF message = bufferIsFull /\ rest.kind = "string"
  THEN Apply(level, to, TextEvent(rest.type, NulEnd(rest.text)))
  ELSE to

(* Reading the buffer takes the analyser to a state in which it has shown   *)
(* what was sent, has met no error, and has the names the test code has     *)
(* announced.                                                               *)
ReadsTo(to) ==
  /\ to \in AnalyserState
  /\ Reads(level, memory, index, bitShift, analyser, to)
  /\ to.errors = 0
  /\ ShownAfterDrain(to) = sent
  /\ Extends(to.shown, analyser.shown) /\ Extends(to.groups, analyser.groups)
  /\ Agrees(level, Pending(to), names)

Follows == \E to : ReadsTo(to)

TransferInv == TransferTypes /\ BufferShape /\ RunShape /\ Follows

(* While the test code runs, no record waits for a drained buffer. *)
LEMMA NothingPending ==
  ASSUME StoppedCallFits, NEW to \in AnalyserState, message \in {noMessage, finishAllTest}
  PROVE  rest = nothing /\ Pending(to) = to /\ ShownAfterDrain(to) = to.shown
<1>1. rest = nothing
  BY DEF StoppedCallFits
<1>2. ~(message = bufferIsFull /\ rest.kind = "string") /\ rest.kind # "result"
  BY <1>1 DEF nothing
<1>3. to.shown \in Seq(ShownResult)
  BY DEF AnalyserState
<1>4. to.shown \o << >> = to.shown
  BY <1>3, ConcatEmptySeq
<1> QED BY <1>1, <1>2, <1>4 DEF Pending, ShownAfterDrain

(* With agreeing names a result is shown under the announced ones. *)
LEMMA ShownIsUnder ==
  ASSUME NEW st, Agrees(level, st, names), NEW event
  PROVE  Shown(event) = Under(st, event)
BY DEF Shown, Under, Agrees

(* The test code reports a result. *)
LEMMA ReportStep ==
  ASSUME BufferIsSound, TransferInv, Running,
         NEW res, OrdinaryResult(res), addResult(res), level' = level,
         Reports(res), names' = names, analyser' = analyser,
         IsPacked(res) /\ ~IsTooLarge(res) /\ bitShift # 0 => index > 0
  PROVE  /\ BufferShape' /\ Follows' /\ sent' \in Seq(ShownResult)
         /\ \/ /\ Stops(res) /\ bitShift' = bitShift
               /\ message' = bufferToSmall => IsTooLarge(res)
            \/ /\ message' = noMessage /\ ~IsTooLarge(res)
               /\ bitShift' # 0 => index' > 0
<1>1. PICK to : ReadsTo(to)
  BY DEF TransferInv, Follows
<1>2. /\ to \in AnalyserState /\ analyser \in AnalyserState
      /\ names \in NamesState /\ sent \in Seq(ShownResult)
      /\ to.shown \in Seq(ShownResult) /\ analyser.shown \in Seq(ShownResult)
      /\ to.groups \in Seq(GroupCount) /\ analyser.groups \in Seq(GroupCount)
  BY <1>1 DEF ReadsTo, TransferInv, TransferTypes, AnalyserState
<1>3. rest = nothing /\ Pending(to) = to /\ ShownAfterDrain(to) = to.shown
  BY <1>2, NothingPending DEF Running, BufferIsSound
<1>4. /\ Reads(level, memory, index, bitShift, analyser, to) /\ to.errors = 0
      /\ sent = to.shown /\ Agrees(level, to, names)
      /\ Extends(to.shown, analyser.shown) /\ Extends(to.groups, analyser.groups)
  BY <1>1, <1>3 DEF ReadsTo
<1> DEFINE event == View(res)
           one == Under(to, event)
<1>5. event \in ResultEvent
  BY ViewIsEvent
<1>6. one \in ShownResult /\ Shown(event) = one
  <2>1. Shown(event) = one
    BY <1>4, ShownIsUnder
  <2>2. to.class \in Seq(Byte) /\ to.test \in Seq(Byte) /\ to.file \in Seq(Byte)
    BY <1>2 DEF AnalyserState
  <2> QED BY <1>5, <2>1, <2>2, UnderType
<1>7. sent' = Append(to.shown, one)
  BY <1>4, <1>6 DEF Reports, Shown
<1>8. Append(to.shown, one) = to.shown \o <<one>>
      /\ Append(to.shown, one) \in Seq(ShownResult)
      /\ Extends(Append(to.shown, one), to.shown)
  BY <1>2, <1>6, ExtendsAppend, AppendIsConcat
<1>9. \/ /\ Stops(res) /\ bitShift' = bitShift
         /\ message' = bufferToSmall => IsTooLarge(res)
         /\ BufferShape'
      \/ /\ GoesOn /\ ~IsTooLarge(res)
         /\ bitShift' # 0 => index' > 0
         /\ Reads(level, memory', index', bitShift', analyser, Apply(level, to, event))
         /\ BufferShape'
  BY <1>4, AddResultStep DEF BufferIsSound, TransferInv
<1> HIDE DEF event
<1>10. CASE /\ Stops(res) /\ bitShift' = bitShift
            /\ message' = bufferToSmall => IsTooLarge(res)
            /\ BufferShape'
  <2>1. rest' = res /\ memory' = memory /\ index' = index
    BY <1>10 DEF Stops
  <2>2. res.kind = "result"
    BY OrdinaryIsResult
  <2>3. View(res)' = event
    BY DEF View, IsTooLarge, calcResultLength, event
  <2>4. ShownAfterDrain(to)' = to.shown \o <<one>>
    <3>1. Shown(View(res))' = one
      BY <1>6, <2>3 DEF Shown
    <3> QED BY <2>1, <2>2, <3>1 DEF ShownAfterDrain
  <2>5. Pending(to)' = to
    BY <2>1, <2>2 DEF Pending
  <2>6. ReadsTo(to)'
    <3>1. Reads(level, memory, index, bitShift, analyser, to)'
      BY <1>4, <1>10, <2>1
    <3>2. Agrees(level, Pending(to), names)'
      BY <1>4, <2>5
    <3>3. (Extends(to.shown, analyser.shown) /\ Extends(to.groups, analyser.groups))'
      BY <1>4
    <3>4. (ShownAfterDrain(to) = sent)'
      BY <1>7, <1>8, <2>4
    <3> QED BY <1>2, <1>4, <3>1, <3>2, <3>3, <3>4 DEF ReadsTo
  <2>7. Follows'
    BY <2>6 DEF Follows
  <2> QED BY <1>7, <1>8, <1>10, <2>7
<1>11. CASE /\ GoesOn /\ ~IsTooLarge(res)
            /\ bitShift' # 0 => index' > 0
            /\ Reads(level, memory', index', bitShift', analyser, Apply(level, to, event))
            /\ BufferShape'
  <2> DEFINE to2 == Apply(level, to, event)
  <2>1. message' = noMessage /\ rest' = nothing
    BY <1>3, <1>11 DEF GoesOn, Running
  <2>2. Adds(to, to2, event)
    BY <1>2, <1>5, ApplyAdds
  <2> HIDE DEF to2
  <2>3. to2 \in AnalyserState /\ to2.shown = Append(to.shown, one) /\ to2.errors = 0
        /\ SameNames(to, to2)
    BY <1>4, <2>2 DEF Adds
  <2> HIDE DEF one
  <2>4. PICK x : x = to2
    OBVIOUS
  <2>5. Pending(x)' = x
    BY <2>1, noMessage # bufferIsFull DEF Pending, noMessage, bufferIsFull
  <2>6. ShownAfterDrain(x)' = x.shown
    <3>1. x.shown \o << >> = x.shown
      BY <1>8, <2>3, <2>4, ConcatEmptySeq
    <3>2. rest'.kind # "result"
      BY <2>1 DEF nothing
    <3> QED BY <3>1, <3>2 DEF ShownAfterDrain
  <2>7. ReadsTo(x)'
    <3>1. Reads(level, memory, index, bitShift, analyser, x)'
      BY <1>11, <2>4 DEF to2
    <3>2. Agrees(level, Pending(x), names)'
      BY <1>4, <2>3, <2>4, <2>5 DEF Agrees, SameNames
    <3>3. Extends(x.shown, analyser.shown) /\ Extends(x.groups, analyser.groups)
      <4>1. x.shown = Append(to.shown, one) /\ x.groups = to.groups
        BY <2>3, <2>4 DEF SameNames
      <4>2. Extends(Append(to.shown, one), analyser.shown)
        BY <1>2, <1>4, <1>8, ExtendsFurther
      <4> QED BY <1>4, <4>1, <4>2
    <3>4. (ShownAfterDrain(x) = sent)'
      BY <1>7, <2>3, <2>4, <2>6
    <3>5. x \in AnalyserState /\ x.errors = 0
      BY <2>3, <2>4
    <3> QED BY <3>1, <3>2, <3>3, <3>4, <3>5 DEF ReadsTo
  <2>8. Follows'
    BY <2>7 DEF Follows
  <2> QED BY <1>7, <1>8, <1>11, <2>1, <2>8
<1> QED BY <1>9, <1>10, <1>11

(* The test code announces a name, or sends a message. *)
LEMMA TextStep ==
  ASSUME BufferIsSound, TransferInv, OrdinaryInputs, NEW s \in Strings,
         AddString(s), Announces(s) \/ (s.type = ofGdbMessage /\ names' = names),
         sent' = sent, analyser' = analyser
  PROVE  /\ BufferShape' /\ Follows' /\ names' \in NamesState
         /\ bitShift' = 0 /\ level' = level /\ level \in 1..3
<1>1. PICK to : ReadsTo(to)
  BY DEF TransferInv, Follows
<1>2. /\ to \in AnalyserState /\ analyser \in AnalyserState
      /\ names \in NamesState /\ sent \in Seq(ShownResult)
      /\ to.shown \in Seq(ShownResult) /\ analyser.shown \in Seq(ShownResult)
      /\ to.groups \in Seq(GroupCount) /\ analyser.groups \in Seq(GroupCount)
  BY <1>1 DEF ReadsTo, TransferInv, TransferTypes, AnalyserState
<1>3. /\ message = noMessage /\ IsRequested(s) /\ addStringToBuffer(s) /\ level' = level
  BY DEF AddString, Running
<1>4. rest = nothing /\ Pending(to) = to /\ ShownAfterDrain(to) = to.shown
  BY <1>2, <1>3, NothingPending DEF BufferIsSound
<1>5. /\ Reads(level, memory, index, bitShift, analyser, to) /\ to.errors = 0
      /\ sent = to.shown /\ Agrees(level, to, names)
      /\ Extends(to.shown, analyser.shown) /\ Extends(to.groups, analyser.groups)
  BY <1>1, <1>4 DEF ReadsTo
<1>6. s.type \in 0..3 /\ OrdinaryText(s.text)
  <2>1. s \in NamedString
    BY InputAssumption
  <2> QED BY <2>1 DEF NamedString, OrdinaryInputs
<1>7. StringRecord(s) \in StringRec
  BY StringRecordType
<1> DEFINE read == Apply(level, to, TextEvent(s.type, NulEnd(s.text)))
<1>8. /\ BufferShape' /\ bitShift' = 0 /\ level \in 1..3
      /\ \/ /\ Stops(StringRecord(s))
            /\ message' = bufferToSmall <=> StringLength(s) > SizeofBuffer
            /\ Reads(level, memory', index', bitShift', analyser, to)
         \/ /\ GoesOn
            /\ StringLength(s) <= SizeofBuffer
            /\ Reads(level, memory', index', bitShift', analyser, read)
  BY <1>3, <1>5, <1>6, <1>7, AddStringStep DEF BufferIsSound, TransferInv, Running
<1>9. /\ read \in AnalyserState
      /\ read.shown = to.shown /\ read.errors = 0
      /\ Extends(read.groups, to.groups)
  <2> DEFINE type == s.type
             text == NulEnd(s.text)
  <2>1. type \in 0..3 /\ text \in Seq(Byte)
    BY <1>6, NulEndType
  <2> HIDE DEF type, text
  <2>2. read = Apply(level, to, TextEvent(type, text))
    BY DEF type, text
  <2> HIDE DEF read
  <2>3. Renames(to, read)
    <3>1. level \in 1..3 /\ to \in AnalyserState
      BY <1>2, <1>8
    <3> QED BY <2>1, <2>2, <3>1, ApplyText
  <2> QED BY <1>5, <2>3 DEF Renames
<1>10. ASSUME StringLength(s) <= SizeofBuffer
       PROVE  names' \in NamesState /\ Agrees(level, read, names')
  <2>1. CASE Announces(s)
    BY <1>2, <1>3, <1>5, <1>6, <1>8, <1>10, <2>1, TextAgrees
  <2>2. CASE s.type = ofGdbMessage /\ names' = names
    <3>1. Agrees(level, Apply(level, to, TextEvent(ofGdbMessage, NulEnd(s.text))), names)
      BY <1>2, <1>5, <1>8, MessageAgrees
    <3> QED BY <1>2, <2>2, <3>1
  <2> QED BY <2>1, <2>2
<1> HIDE DEF read
<1>11. CASE /\ Stops(StringRecord(s))
            /\ message' = bufferToSmall <=> StringLength(s) > SizeofBuffer
            /\ Reads(level, memory', index', bitShift', analyser, to)
  <2>1. rest' = StringRecord(s) /\ message' \in {bufferIsFull, bufferToSmall}
    BY <1>11 DEF Stops
  <2>2. rest'.kind = "string" /\ rest'.type = s.type /\ rest'.text = s.text
    BY <2>1 DEF StringRecord
  <2>3. ShownAfterDrain(to)' = to.shown
    <3>1. to.shown \o << >> = to.shown
      BY <1>2, ConcatEmptySeq
    <3> QED BY <2>2, <3>1 DEF ShownAfterDrain
  <2>4. names' \in NamesState /\ Agrees(level, Pending(to)', names')
    <3>1. CASE message' = bufferIsFull
      <4>1. ~(StringLength(s) > SizeofBuffer)
        BY <1>11, <3>1 DEF bufferToSmall, bufferIsFull
      <4>2. StringLength(s) <= SizeofBuffer
        <5>1. StringLength(s) \in Nat
          <6>1. StringLength(StringRecord(s)) \in Nat
            BY <1>7, LengthsAreInt
          <6> QED BY <6>1 DEF StringLength, StringRecord
        <5> DEFINE l == StringLength(s)
        <5>2. l \in Nat /\ ~(l > SizeofBuffer)
          BY <4>1, <5>1
        <5> HIDE DEF l
        <5>3. l <= SizeofBuffer
          BY <5>2, SomeAddresses
        <5> QED BY <5>3 DEF l
      <4>3. Pending(to)' = read
        BY <1>3, <2>2, <3>1 DEF Pending, read
      <4> QED BY <1>10, <4>2, <4>3
    <3>2. CASE message' = bufferToSmall
      <4>1. names' = names
        BY <1>11, <3>2 DEF Announces
      <4>2. Pending(to)' = to
        BY <3>2 DEF Pending, bufferToSmall, bufferIsFull
      <4> QED BY <1>2, <1>5, <4>1, <4>2
    <3> QED BY <2>1, <3>1, <3>2
  <2>5. ReadsTo(to)'
    <3>1. Reads(level, memory, index, bitShift, analyser, to)'
      BY <1>3, <1>11
    <3>2. Agrees(level, Pending(to), names)'
      BY <1>3, <2>4
    <3>3. (Extends(to.shown, analyser.shown) /\ Extends(to.groups, analyser.groups))'
      BY <1>5
    <3>4. (ShownAfterDrain(to) = sent)'
      BY <1>5, <2>3
    <3> QED BY <1>2, <1>5, <3>1, <3>2, <3>3, <3>4 DEF ReadsTo
  <2>6. Follows'
    BY <2>5 DEF Follows
  <2> QED BY <1>3, <1>8, <2>4, <2>6
<1>12. CASE /\ GoesOn
            /\ StringLength(s) <= SizeofBuffer
            /\ Reads(level, memory', index', bitShift', analyser, read)
  <2>1. message' = noMessage /\ rest' = nothing
    BY <1>3, <1>4, <1>12 DEF GoesOn
  <2>2. PICK x : x = read
    OBVIOUS
  <2>3. Pending(x)' = x
    BY <2>1 DEF Pending, noMessage, bufferIsFull
  <2>4. ShownAfterDrain(x)' = x.shown
    <3>1. x.shown \o << >> = x.shown
      BY <1>2, <1>9, <2>2, ConcatEmptySeq
    <3>2. rest'.kind # "result"
      BY <2>1 DEF nothing
    <3> QED BY <3>1, <3>2 DEF ShownAfterDrain
  <2>5. x \in AnalyserState /\ x.shown = to.shown /\ x.errors = 0 /\ Extends(x.groups, to.groups)
    BY <1>9, <2>2
  <2>6. x.groups \in Seq(GroupCount)
    BY <2>5 DEF AnalyserState
  <2>7. ReadsTo(x)'
    <3>1. Reads(level, memory, index, bitShift, analyser, x)'
      BY <1>3, <1>12, <2>2
    <3>2. Agrees(level, Pending(x), names)'
      BY <1>3, <1>10, <1>12, <2>2, <2>3
    <3>3. Extends(x.shown, analyser.shown) /\ Extends(x.groups, analyser.groups)
      BY <1>2, <1>5, <2>5, <2>6, ExtendsFurther
    <3>4. (ShownAfterDrain(x) = sent)'
      BY <1>5, <2>4, <2>5
    <3> QED BY <2>5, <3>1, <3>2, <3>3, <3>4 DEF ReadsTo
  <2>8. Follows'
    BY <2>7 DEF Follows
  <2> QED BY <1>3, <1>8, <1>10, <1>12, <2>8
<1> QED BY <1>8, <1>11, <1>12
-----------------------------------------------------------------------------
(* The host drains the buffer. *)

(* What it has read then is what the buffer was said to hold. *)
LEMMA DrainedIs ==
  ASSUME BufferIsSound, TransferInv, NEW to, ReadsTo(to)
  PROVE  Analyse(level, analyser, Dump) = {to} /\ Drained = {to}
<1>1. /\ Filled(memory, index, bitShift) /\ index \in Nat /\ bitShift \in Shifts
  BY BufferIsFilled DEF BufferIsSound, TransferInv
<1>2. Reads(level, memory, index, bitShift, analyser, to)
  BY DEF ReadsTo
<1>3. Analyse(level, analyser, [k \in 1..index |-> memory[k - 1]]) = {to}
  BY <1>1, <1>2, AnalysesAll DEF Filled
<1>4. Analyse(level, analyser, Dump) = {to}
  BY <1>3 DEF Dump
<1>5. ASSUME ~(index > 0) PROVE to = analyser
  <2>1. index = 0
    BY <1>1, <1>5
  <2>2. Reads(level, memory, index, bitShift, analyser, analyser)
    BY <2>1, ReadsNothing
  <2>3. Analyse(level, analyser, [k \in 1..index |-> memory[k - 1]]) = {analyser}
    BY <1>1, <2>2, AnalysesAll DEF Filled
  <2> QED BY <1>3, <2>3
<1> QED BY <1>4, <1>5 DEF Drained

(* Nothing is left to be read of an empty buffer. *)
LEMMA DrainedBuffer ==
  ASSUME NEW to, to \in AnalyserState, to.errors = 0, to.shown = sent,
         Agrees(level, to, names),
         analyser' = to, index' = 0, message' = noMessage, rest' = nothing,
         level' = level, sent' = sent, names' = names
  PROVE  ReadsTo(to)'
<1>1. to.shown \in Seq(ShownResult) /\ to.groups \in Seq(GroupCount)
  BY DEF AnalyserState
<1>2. Pending(to)' = to
  BY DEF Pending, noMessage, bufferIsFull
<1>3. ShownAfterDrain(to)' = to.shown
  <2>1. to.shown \o << >> = to.shown
    BY <1>1, ConcatEmptySeq
  <2>2. rest'.kind # "result"
    BY DEF nothing
  <2> QED BY <2>1, <2>2 DEF ShownAfterDrain
<1>4. Reads(level, memory, index, bitShift, analyser, to)'
  BY ReadsNothing
<1>5. Extends(to.shown, to.shown) /\ Extends(to.groups, to.groups)
  BY <1>1, ExtendsItself
<1> QED BY <1>2, <1>3, <1>4, <1>5 DEF ReadsTo

(* The host drains a full buffer and the record that waited is stored. *)
LEMMA FullIsAnswered ==
  ASSUME BufferIsSound, TransferInv, HandleBufferIsFull
  PROVE  TransferInv' /\ \E to : ReadsTo(to) /\ analyser' = to
<1>1. PICK to : ReadsTo(to)
  BY DEF TransferInv, Follows
<1>2. analyser' = to
  BY <1>1, DrainedIs DEF HandleBufferIsFull
<1>3. /\ message = bufferIsFull /\ ContinueAfterMessage
      /\ phase' = phase /\ testSuccess' = testSuccess /\ names' = names /\ sent' = sent
      /\ closed' = closed
  BY DEF HandleBufferIsFull, testVars
<1>4. /\ to \in AnalyserState /\ to.errors = 0 /\ Agrees(level, Pending(to), names)
      /\ ShownAfterDrain(to) = sent /\ sent \in Seq(ShownResult) /\ names \in NamesState
      /\ to.shown \in Seq(ShownResult) /\ to.groups \in Seq(GroupCount)
  BY <1>1 DEF ReadsTo, AnalyserState, TransferInv, TransferTypes
<1>5. /\ BufferShape' /\ message' = noMessage /\ rest' = nothing /\ level' = level
      /\ \/ /\ rest = nothing
            /\ index' = 0 /\ bitShift' = 0
            /\ Reads(level, memory', index', bitShift', to, to)
         \/ /\ OrdinaryResult(rest) /\ message = bufferIsFull
            /\ bitShift' = 0 \/ index' > 0
            /\ Reads(level, memory', index', bitShift', to, Apply(level, to, View(rest)))
         \/ /\ rest \in StringRec /\ OrdinaryText(rest.text) /\ message = bufferIsFull
            /\ level \in 1..3
            /\ bitShift' = 0
            /\ Reads(level, memory', index', bitShift', to,
                     Apply(level, to, TextEvent(rest.type, NulEnd(rest.text))))
  BY <1>3, ContinueStep DEF BufferIsSound, TransferInv
<1>6. \/ rest \in Result /\ calcResultLength(rest) < SIZE_OF_RESULT_BUFFER
      \/ rest \in StringRec /\ level # justSuccess
  BY <1>3 DEF BufferIsSound, StoppedCallFits
<1>7. rest # nothing
  BY <1>6 DEF Result, Success, FailedResult, StringRec, nothing
<1>8. level \in 0..3 /\ index \in Nat
  BY BufferIsFilled DEF BufferIsSound, TransferInv
<1>9. RunShape'
  <2>1. phase # "finished" /\ ~closed
    BY <1>3 DEF TransferInv, RunShape, bufferIsFull, noMessage, finishAllTest
  <2>2. ASSUME level = justSuccess, index' = 0 \/ SIZE_OF_RESULT_BUFFER <= 1
        PROVE  bitShift' = 0
    <3>1. CASE OrdinaryResult(rest) /\ (bitShift' = 0 \/ index' > 0)
      <4>1. rest \in Result
        BY <3>1, OrdinaryIsResult
      <4>2. ~(rest \in StringRec)
        BY <4>1 DEF Result, Success, FailedResult, StringRec
      <4> DEFINE l == calcResultLength(rest)
      <4>3. l \in Nat /\ l >= 1 /\ l < SIZE_OF_RESULT_BUFFER
        BY <1>6, <4>1, <4>2, LengthsAreInt
      <4> HIDE DEF l
      <4>4. ~(SIZE_OF_RESULT_BUFFER <= 1)
        BY <4>3, SomeAddresses
      <4>5. index' = 0
        BY <2>2, <4>4
      <4> QED BY <3>1, <4>5
    <3> QED BY <1>5, <3>1
  <2>3. bitShift' # 0 => ~(index' = 0)
    BY <1>5
  <2>4. message' # bufferToSmall /\ message' # finishAllTest
    BY <1>5 DEF bufferToSmall, noMessage, finishAllTest
  <2> QED BY <1>3, <1>5, <2>1, <2>2, <2>3, <2>4 DEF RunShape
<1>10. Follows'
  <2>1. CASE /\ OrdinaryResult(rest)
             /\ Reads(level, memory', index', bitShift', to, Apply(level, to, View(rest)))
    <3> DEFINE event == View(rest)
               one == Under(to, event)
    <3>1. rest.kind = "result" /\ event \in ResultEvent
      BY <2>1, OrdinaryIsResult, ViewIsEvent
    <3>2. Pending(to) = to
      BY <3>1 DEF Pending
    <3>3. PICK x : x = Apply(level, to, event)
      OBVIOUS
    <3>4. Adds(to, x, event)
      BY <1>4, <3>1, <3>3, ApplyAdds
    <3>5. Shown(event) = one
      BY <1>4, <3>2, ShownIsUnder
    <3>6. sent = to.shown \o <<one>>
      BY <1>4, <3>1, <3>5 DEF ShownAfterDrain
    <3> HIDE DEF event
    <3>7. one \in ShownResult
      BY <1>4, <3>1, UnderType DEF AnalyserState
    <3> HIDE DEF one
    <3>8. Append(to.shown, one) = to.shown \o <<one>>
          /\ Extends(Append(to.shown, one), to.shown)
      BY <1>4, <3>7, ExtendsAppend, AppendIsConcat
    <3>9. x \in AnalyserState /\ x.shown = sent /\ x.errors = 0 /\ SameNames(to, x)
          /\ x.shown = Append(to.shown, one)
      BY <1>4, <3>4, <3>6, <3>8 DEF Adds, one
    <3>10. Pending(x)' = x /\ ShownAfterDrain(x)' = x.shown
      <4>1. x.shown \o << >> = x.shown
        BY <1>4, <3>9, ConcatEmptySeq
      <4>2. rest'.kind # "result" /\ ~(message' = bufferIsFull)
        BY <1>5 DEF nothing, noMessage, bufferIsFull
      <4> QED BY <4>1, <4>2 DEF Pending, ShownAfterDrain
    <3>11. ReadsTo(x)'
      <4>1. Reads(level, memory, index, bitShift, analyser, x)'
        BY <1>2, <1>5, <2>1, <3>3 DEF event
      <4>2. Agrees(level, Pending(x), names)'
        BY <1>3, <1>4, <1>5, <3>2, <3>9, <3>10 DEF Agrees, SameNames
      <4>3. (Extends(x.shown, analyser.shown) /\ Extends(x.groups, analyser.groups))'
        BY <1>2, <1>4, <3>8, <3>9, ExtendsItself DEF SameNames
      <4> QED BY <1>3, <3>9, <3>10, <4>1, <4>2, <4>3 DEF ReadsTo
    <3> QED BY <3>11 DEF Follows
  <2>2. CASE /\ rest \in StringRec /\ OrdinaryText(rest.text) /\ level \in 1..3
             /\ Reads(level, memory', index', bitShift', to,
                      Apply(level, to, TextEvent(rest.type, NulEnd(rest.text))))
    <3> DEFINE type == rest.type
               text == NulEnd(rest.text)
    <3>1. rest.kind = "string" /\ type \in 0..3 /\ text \in Seq(Byte) /\ level \in 1..3
      BY <2>2, NulEndType DEF StringRec
    <3>2. PICK x : x = Apply(level, to, TextEvent(type, text))
      OBVIOUS
    <3>3. Pending(to) = x
      BY <1>3, <3>1, <3>2 DEF Pending
    <3>4. Reads(level, memory', index', bitShift', to, x)
      BY <2>2, <3>2
    <3> HIDE DEF type, text
    <3>5. Renames(to, x)
      BY <1>4, <3>1, <3>2, ApplyText
    <3>6. x \in AnalyserState /\ x.shown = to.shown /\ x.errors = 0 /\ Extends(x.groups, to.groups)
      BY <1>4, <3>5 DEF Renames
    <3>7. sent = to.shown
      <4>1. to.shown \o << >> = to.shown /\ rest.kind # "result"
        BY <1>4, <3>1, ConcatEmptySeq
      <4> QED BY <1>4, <4>1 DEF ShownAfterDrain
    <3>8. Pending(x)' = x /\ ShownAfterDrain(x)' = x.shown
      <4>1. x.shown \o << >> = x.shown
        BY <1>4, <3>6, ConcatEmptySeq
      <4>2. rest'.kind # "result" /\ ~(message' = bufferIsFull)
        BY <1>5 DEF nothing, noMessage, bufferIsFull
      <4> QED BY <4>1, <4>2 DEF Pending, ShownAfterDrain
    <3>9. ReadsTo(x)'
      <4>1. Reads(level, memory, index, bitShift, analyser, x)'
        BY <1>2, <1>5, <3>4
      <4>2. Agrees(level, Pending(x), names)'
        BY <1>3, <1>4, <1>5, <3>3, <3>8
      <4>3. (Extends(x.shown, analyser.shown) /\ Extends(x.groups, analyser.groups))'
        BY <1>2, <1>4, <3>6, ExtendsItself
      <4> QED BY <1>3, <3>6, <3>7, <3>8, <4>1, <4>2, <4>3 DEF ReadsTo
    <3> QED BY <3>9 DEF Follows
  <2> QED BY <1>5, <1>7, <2>1, <2>2
<1>11. TransferTypes'
  BY <1>2, <1>3, <1>4 DEF TransferInv, TransferTypes
<1> QED BY <1>1, <1>2, <1>5, <1>9, <1>10, <1>11 DEF TransferInv

(* The buffer that the debugger clears itself has the shape of an empty one. *)
LEMMA ReturnShape ==
  ASSUME BufferIsSound, TransferInv, ReturnFromFunction
  PROVE  /\ BufferShape' /\ index' = 0 /\ message' = noMessage /\ rest' = nothing
         /\ level' = level /\ bitShift' = bitShift
<1>1. /\ index' = 0 /\ message' = noMessage /\ rest' = nothing
      /\ level' = level /\ bitShift' = bitShift
      /\ memory' = [a \in Addresses |-> IF a \in 0..(index - 1) THEN 0 ELSE memory[a]]
  BY DEF ReturnFromFunction
<1>2. index \in Nat
  BY BufferIsFilled DEF BufferIsSound, TransferInv
<1>3. ASSUME level = testResults, NEW a \in Addresses, a >= 0 PROVE memory'[a] = 0
  <2>1. CASE a \in 0..(index - 1)
    BY <1>1, <2>1
  <2>2. CASE a \notin 0..(index - 1)
    <3>1. a >= index
      BY <1>2, <1>3, <2>2, SomeAddresses
    <3>2. memory[a] = 0
      BY <1>3, <3>1 DEF TransferInv, BufferShape
    <3> QED BY <1>1, <2>2, <3>2
  <2> QED BY <2>1, <2>2
<1>4. 0 <= SizeofBuffer /\ level \in Levels
  BY SomeAddresses DEF TransferInv, BufferShape
<1> QED BY <1>1, <1>3, <1>4 DEF BufferShape

(* The host drains the buffer and shows the record that is too large. *)
LEMMA TooSmallIsAnswered ==
  ASSUME BufferIsSound, TransferInv, HandleBufferToSmall
  PROVE  TransferInv' /\ analyser'.shown = sent
<1>1. PICK to : ReadsTo(to)
  BY DEF TransferInv, Follows
<1>2. /\ message = bufferToSmall /\ ReturnFromFunction
      /\ phase' = phase /\ testSuccess' = testSuccess /\ names' = names /\ sent' = sent
      /\ closed' = closed
      /\ analyser' = IF rest.kind = "result" THEN AnalyseDirect(to, View(rest)) ELSE to
  <2>1. Drained = {to}
    BY <1>1, DrainedIs
  <2> QED BY <2>1 DEF HandleBufferToSmall, testVars
<1>3. /\ to \in AnalyserState /\ to.errors = 0 /\ Agrees(level, Pending(to), names)
      /\ ShownAfterDrain(to) = sent /\ sent \in Seq(ShownResult) /\ names \in NamesState
      /\ to.shown \in Seq(ShownResult) /\ to.groups \in Seq(GroupCount)
  BY <1>1 DEF ReadsTo, AnalyserState, TransferInv, TransferTypes
<1>4. Pending(to) = to
  BY <1>2 DEF Pending, bufferToSmall, bufferIsFull
<1>5. /\ BufferShape' /\ index' = 0 /\ message' = noMessage /\ rest' = nothing
      /\ level' = level /\ bitShift' = bitShift
  BY <1>2, ReturnShape
<1>6. \/ rest \in Result /\ calcResultLength(rest) >= SIZE_OF_RESULT_BUFFER
      \/ rest \in StringRec /\ level # justSuccess
  BY <1>2 DEF BufferIsSound, StoppedCallFits
<1>7. /\ analyser' \in AnalyserState /\ analyser'.errors = 0 /\ analyser'.shown = sent
      /\ Agrees(level, analyser', names)
  <2>1. CASE rest.kind = "result"
    <3>1. rest \in Result /\ IsTooLarge(rest)
      BY <1>6, <2>1 DEF StringRec, IsTooLarge
    <3>2. OrdinaryResult(rest)
      <4>1. ~(rest \in StringRec) /\ rest # nothing
        BY <2>1 DEF StringRec, nothing
      <4> QED BY <4>1 DEF TransferInv, BufferShape, OrdinaryRecord
    <3> DEFINE v == rest.status
               event == EventOf(v)
               one == Under(to, event)
    <3>3. level \in 0..3 /\ v \in Statuses
      BY <3>2, OrdinaryIsResult, BufferIsFilled DEF BufferIsSound, TransferInv
    <3>4. View(rest) = event
      BY <3>1, <3>2, <3>3, ViewOfStatus
    <3>5. event \in ResultEvent
      BY <3>2, <3>4, ViewIsEvent
    <3>6. Shown(event) = one
      BY <1>3, <1>4, ShownIsUnder
    <3>7. sent = to.shown \o <<one>>
      BY <1>3, <2>1, <3>4, <3>6 DEF ShownAfterDrain
    <3> HIDE DEF v
    <3>8. Adds(to, AnalyseDirect(to, event), event)
      BY <1>3, <3>3, <3>5, DirectAdds
    <3> HIDE DEF event
    <3>9. one \in ShownResult
      BY <1>3, <3>5, UnderType DEF AnalyserState
    <3>10. Adds(to, analyser', event)
      BY <1>2, <2>1, <3>4, <3>8
    <3>11. analyser'.shown = Append(to.shown, one)
      BY <3>10 DEF Adds
    <3> HIDE DEF one
    <3>12. Append(to.shown, one) = to.shown \o <<one>>
      BY <1>3, <3>9, AppendIsConcat
    <3> QED BY <1>3, <1>4, <3>7, <3>10, <3>11, <3>12 DEF Adds, Agrees, SameNames
  <2>2. CASE rest.kind # "result"
    <3>1. to.shown \o << >> = to.shown
      BY <1>3, ConcatEmptySeq
    <3>2. sent = to.shown
      BY <1>3, <2>2, <3>1 DEF ShownAfterDrain
    <3> QED BY <1>2, <1>3, <1>4, <2>2, <3>2
  <2> QED BY <2>1, <2>2
<1>8. Follows'
  <2>1. PICK x : x = analyser'
    OBVIOUS
  <2>2. ReadsTo(x)'
    BY <1>2, <1>5, <1>7, <2>1, DrainedBuffer
  <2> QED BY <2>2 DEF Follows
<1>9. RunShape'
  <2>1. phase # "finished" /\ ~closed
    BY <1>2 DEF TransferInv, RunShape, bufferToSmall, noMessage, finishAllTest
  <2>2. ASSUME level = justSuccess PROVE bitShift' = 0
    <3>1. rest \in Result /\ calcResultLength(rest) = 1
      BY <1>6, <2>2 DEF calcResultLength
    <3>2. ~(rest \in StringRec)
      BY <3>1 DEF Result, Success, FailedResult, StringRec
    <3>3. 1 >= SIZE_OF_RESULT_BUFFER
      BY <1>6, <3>1, <3>2
    <3>4. SIZE_OF_RESULT_BUFFER <= 1
      BY <3>3, SomeAddresses
    <3> QED BY <1>5, <2>2, <3>4 DEF TransferInv, RunShape
  <2>3. ASSUME level # justSuccess, bitShift' # 0, phase' = "inTest"
        PROVE  ~testSuccess' /\ (level = testNames => SIZE_OF_RESULT_BUFFER <= 5)
    BY <1>2, <1>5, <2>3 DEF TransferInv, RunShape
  <2>4. message' # bufferToSmall /\ message' # finishAllTest
    BY <1>5 DEF bufferToSmall, noMessage, finishAllTest
  <2> QED BY <1>2, <1>5, <2>1, <2>2, <2>3, <2>4 DEF RunShape
<1>10. TransferTypes'
  BY <1>2, <1>3, <1>7 DEF TransferInv, TransferTypes
<1> QED BY <1>5, <1>7, <1>8, <1>9, <1>10 DEF TransferInv

(* The host drains the buffer for the last time and closes the run. *)
LEMMA FinishIsAnswered ==
  ASSUME BufferIsSound, TransferInv, HandleFinishAllTest
  PROVE  TransferInv' /\ analyser'.shown = sent
<1>1. PICK to : ReadsTo(to)
  BY DEF TransferInv, Follows
<1>2. /\ message = finishAllTest /\ analyser' = to /\ closed' = TRUE
      /\ IF index = 0 THEN ReturnFromFunction ELSE ContinueAfterMessage
      /\ phase' = phase /\ testSuccess' = testSuccess /\ names' = names /\ sent' = sent
  <2>1. Drained = {to}
    BY <1>1, DrainedIs
  <2> QED BY <2>1 DEF HandleFinishAllTest, testVars
<1>3. /\ to \in AnalyserState /\ to.errors = 0 /\ Agrees(level, Pending(to), names)
      /\ ShownAfterDrain(to) = sent /\ sent \in Seq(ShownResult) /\ names \in NamesState
  BY <1>1 DEF ReadsTo, TransferInv, TransferTypes
<1>4. rest = nothing /\ Pending(to) = to /\ ShownAfterDrain(to) = to.shown
  BY <1>2, <1>3, NothingPending DEF BufferIsSound
<1>5. /\ BufferShape' /\ index' = 0 /\ message' = noMessage /\ rest' = nothing
      /\ level' = level /\ (index = 0 => bitShift' = bitShift) /\ (index # 0 => bitShift' = 0)
  <2>1. CASE index = 0
    BY <1>2, <2>1, ReturnShape
  <2>2. CASE index # 0
    <3>1. ContinueAfterMessage
      BY <1>2, <2>2
    <3>2. ~OrdinaryResult(rest) /\ ~(rest \in StringRec)
      BY <1>4, OrdinaryIsResult DEF nothing, StringRec
    <3> QED BY <2>2, <3>1, <3>2, ContinueStep DEF BufferIsSound, TransferInv
  <2> QED BY <2>1, <2>2
<1>6. ReadsTo(to)'
  BY <1>2, <1>3, <1>4, <1>5, DrainedBuffer
<1>7. Follows'
  BY <1>6 DEF Follows
<1>8. RunShape'
  <2>1. phase = "finished"
    BY <1>2 DEF TransferInv, RunShape
  <2>2. ASSUME level = justSuccess PROVE bitShift' = 0
    BY <1>5, <2>2 DEF TransferInv, RunShape
  <2>3. message' # finishAllTest /\ phase' # "inTest"
    BY <1>2, <1>5, <2>1 DEF noMessage, finishAllTest
  <2> QED BY <1>2, <1>5, <2>1, <2>2, <2>3 DEF RunShape
<1>9. TransferTypes'
  BY <1>2, <1>3 DEF TransferInv, TransferTypes
<1> QED BY <1>2, <1>3, <1>4, <1>5, <1>7, <1>8, <1>9 DEF TransferInv
-----------------------------------------------------------------------------
(* The test code. *)

(* From level testNames on a failure reserves at least five bytes. *)
LEMMA FailureLength ==
  ASSUME level \in 0..3, level # justSuccess, NEW res, OrdinaryFailure(res)
  PROVE  calcResultLength(res) \in Nat /\ calcResultLength(res) >= 5
<1> DEFINE i == Len(res.is)
           s == Len(res.should)
           known == isTestSizeKnown(res.flags)
<1>1. /\ res \in FailedResult /\ res.is \in Seq(Byte) /\ res.should \in Seq(Byte)
      /\ res.status = testFailed /\ (known <=> ~IsArray(res))
  BY KnownUnlessArray
<1>2. i \in Nat /\ s \in Nat
  BY <1>1, LenProperties
<1>3. known => i >= 1 /\ s >= 1
  <2> SUFFICES ASSUME known PROVE i >= 1 /\ s >= 1
    OBVIOUS
  <2>1. CASE i = 1 /\ s = 1
    BY <2>1
  <2>2. CASE HasWidth(res.is, res.flags) /\ HasWidth(res.should, res.flags)
    <3>1. WidthOf(res.flags) \in {1, 2, 4}
      BY DEF WidthOf
    <3>2. i = WidthOf(res.flags) /\ s = WidthOf(res.flags)
      BY <2>2 DEF HasWidth
    <3> DEFINE w == WidthOf(res.flags)
    <3> HIDE DEF w, i, s
    <3>3. w \in {1, 2, 4} /\ i = w /\ s = w
      BY <3>1, <3>2 DEF w
    <3> QED BY <3>3
  <2> QED BY <1>1, <2>1, <2>2 DEF OrdinaryFailure
<1>4. calcResultLength(res) = 2 + i + 2 * s + (IF known THEN 0 ELSE 8)
                                + (IF level = lineNumbers THEN 4 ELSE 0)
  <2>1. level >= testNames
    OBVIOUS
  <2>2. calcResultLength(res) = 2 + i + 2 * s + (IF isTestSizeKnown(res.flags) THEN 0 ELSE 8)
                                  + (IF level = lineNumbers THEN 4 ELSE 0)
    BY <1>1, <2>1 DEF calcResultLength
  <2> QED BY <2>2
<1> HIDE DEF i, s, known
<1>5. 2 + i + 2 * s + (IF known THEN 0 ELSE 8) + (IF level = lineNumbers THEN 4 ELSE 0) >= 5
      /\ 2 + i + 2 * s + (IF known THEN 0 ELSE 8) + (IF level = lineNumbers THEN 4 ELSE 0) \in Nat
  BY <1>2, <1>3
<1> QED BY <1>4, <1>5

(* A boolean assertion that fails reserves no more at level testNames. *)
LEMMA BooleanLength ==
  ASSUME level = testNames, OrdinaryInputs, NEW a \in IntAsserts, a.type = typeCompBool
  PROVE  calcResultLength(FailedInt(a)) = 5
<1> DEFINE n == a.size
           res == FailedInt(a)
<1>1. n = 1 /\ a \in IntAssert
  BY InputAssumption DEF OrdinaryInputs
<1>2. Len(res.is) = n /\ Len(res.should) = n
  <2>1. ComparedInt(a) \in Int /\ a.should \in Int /\ a.junk \in Byte /\ n \in Nat
    BY <1>1 DEF IntAssert, ComparedInt
  <2>2. /\ IntBytes(ComparedInt(a), n, a.junk) \in [1..n -> Byte]
        /\ IntBytes(a.should, n, a.junk) \in [1..n -> Byte]
    BY <2>1, IntBytesType
  <2>3. /\ res.is = IntBytes(ComparedInt(a), n, a.junk)
        /\ res.should = IntBytes(a.should, n, a.junk)
    BY DEF FailedInt
  <2> HIDE DEF n, res
  <2> QED BY <2>1, <2>2, <2>3, LenFromDomain
<1>3. isTestSizeKnown(res.flags)
  <2>1. CompareFlags(a) = 1
    BY <1>1, SMT DEF CompareFlags, Or2
  <2>2. res.flags = CompareFlags(a)
    BY DEF FailedInt
  <2> QED BY <2>1, <2>2 DEF isTestSizeKnown
<1>4. res.status = testFailed
  BY DEF FailedInt
<1> HIDE DEF n, res
<1>5. calcResultLength(res) = 2 + Len(res.is) + 2 * Len(res.should) + 0 + 0
  BY <1>3, <1>4 DEF calcResultLength
<1> DEFINE i == Len(res.is)
           s == Len(res.should)
<1>6. i = 1 /\ s = 1 /\ calcResultLength(res) = 2 + i + 2 * s + 0 + 0
  BY <1>1, <1>2, <1>5
<1> HIDE DEF i, s
<1>7. calcResultLength(res) = 5
  BY <1>6
<1> QED BY <1>7 DEF res

(* No status is packed with a shift that is left over of a drained buffer.  *)
LEMMA NoStrayShift ==
  ASSUME BufferIsSound, TransferInv, Running, phase = "inTest",
         NEW res, OrdinaryResult(res), res = Success => testSuccess
  PROVE  IsPacked(res) /\ ~IsTooLarge(res) /\ bitShift # 0 => index > 0
<1> SUFFICES ASSUME IsPacked(res), ~IsTooLarge(res), bitShift # 0, ~(index > 0)
             PROVE  FALSE
  OBVIOUS
<1>1. level \in 0..3 /\ index = 0
  BY BufferIsFilled DEF BufferIsSound, TransferInv
<1>2. CASE level = justSuccess
  BY <1>1, <1>2 DEF TransferInv, RunShape
<1>3. CASE level # justSuccess
  <2>1. ~testSuccess /\ (level = testNames => SIZE_OF_RESULT_BUFFER <= 5)
    BY <1>1, <1>3 DEF TransferInv, RunShape
  <2>2. OrdinaryFailure(res)
    BY <2>1 DEF OrdinaryResult
  <2>3. level = testNames
    <3>1. res.status = testFailed
      BY <2>2, KnownUnlessArray
    <3> QED BY <1>3, <3>1 DEF IsPacked
  <2> DEFINE l == calcResultLength(res)
  <2>4. l \in Nat /\ l >= 5
    BY <1>1, <1>3, <2>2, FailureLength
  <2>5. ~(l >= SIZE_OF_RESULT_BUFFER)
    BY DEF IsTooLarge
  <2> HIDE DEF l
  <2> QED BY <2>1, <2>3, <2>4, <2>5, SomeAddresses
<1> QED BY <1>2, <1>3

(* A reported result keeps the shape of the run. *)
LEMMA ReportShape ==
  ASSUME BufferIsSound, TransferInv, Running, phase = "inTest",
         NEW res, OrdinaryResult(res), level' = level, closed' = closed,
         phase' \in {"inTest", "outside"},
         \/ /\ Stops(res) /\ bitShift' = bitShift
            /\ message' = bufferToSmall => IsTooLarge(res)
         \/ /\ message' = noMessage /\ ~IsTooLarge(res)
            /\ bitShift' # 0 => index' > 0,
         message' # noMessage /\ phase' = "inTest" =>
           ~testSuccess' /\ (level = testNames => calcResultLength(res) = 5)
  PROVE  RunShape'
<1>1. message = noMessage /\ phase' # "finished" /\ ~closed
      /\ message' \in {noMessage, bufferIsFull, bufferToSmall}
  BY DEF Running, TransferInv, RunShape, Stops
<1>2. message' # finishAllTest
  BY <1>1 DEF noMessage, bufferIsFull, bufferToSmall, finishAllTest
<1>3. ASSUME level = justSuccess, index' = 0 \/ SIZE_OF_RESULT_BUFFER <= 1
      PROVE  bitShift' = 0
  <2>1. CASE Stops(res) /\ bitShift' = bitShift
    BY <1>3, <2>1 DEF Stops, TransferInv, RunShape
  <2>2. CASE ~IsTooLarge(res) /\ (bitShift' # 0 => index' > 0)
    <3>1. calcResultLength(res) = 1
      BY <1>3 DEF calcResultLength
    <3>2. ~(1 >= SIZE_OF_RESULT_BUFFER)
      BY <2>2, <3>1 DEF IsTooLarge
    <3>3. ~(SIZE_OF_RESULT_BUFFER <= 1)
      BY <3>2, SomeAddresses
    <3>4. index' = 0
      BY <1>3, <3>3
    <3> QED BY <2>2, <3>4
  <2> QED BY <2>1, <2>2
<1>4. ASSUME level # justSuccess, bitShift' # 0, phase' = "inTest",
             index' = 0 \/ message' = bufferToSmall
      PROVE  ~testSuccess' /\ (level = testNames => SIZE_OF_RESULT_BUFFER <= 5)
  <2>1. CASE /\ Stops(res) /\ bitShift' = bitShift
             /\ message' = bufferToSmall => IsTooLarge(res)
    <3>1. message' # noMessage /\ index' = index
      BY <2>1 DEF Stops, noMessage, bufferIsFull, bufferToSmall
    <3>2. ~testSuccess' /\ (level = testNames => calcResultLength(res) = 5)
      BY <1>4, <3>1
    <3>3. ASSUME level = testNames PROVE SIZE_OF_RESULT_BUFFER <= 5
      <4>1. CASE index' = 0
        <5>1. index = 0 /\ bitShift # 0
          BY <1>4, <2>1, <3>1, <4>1
        <5> QED BY <1>4, <3>3, <5>1 DEF TransferInv, RunShape
      <4>2. CASE message' = bufferToSmall
        <5>1. 5 >= SIZE_OF_RESULT_BUFFER
          BY <2>1, <3>2, <3>3, <4>2 DEF IsTooLarge
        <5> QED BY <5>1, SomeAddresses
      <4> QED BY <1>4, <4>1, <4>2
    <3> QED BY <3>2, <3>3
  <2>2. CASE message' = noMessage /\ (bitShift' # 0 => index' > 0)
    <3>1. index' > 0 /\ message' # bufferToSmall
      BY <1>4, <2>2 DEF noMessage, bufferToSmall
    <3> QED BY <1>4, <3>1
  <2> QED BY <2>1, <2>2
<1> QED BY <1>1, <1>2, <1>3, <1>4 DEF RunShape

(* A failed assertion. *)
LEMMA FailureIsReported ==
  ASSUME BufferIsSound, TransferInv, Running, phase = "inTest",
         NEW res, OrdinaryFailure(res), addResult(res), level' = level, Reports(res),
         names' = names, analyser' = analyser, closed' = closed,
         phase' \in {"inTest", "outside"}, testSuccess' \in BOOLEAN,
         message' # noMessage /\ phase' = "inTest" =>
           ~testSuccess' /\ (level = testNames => calcResultLength(res) = 5)
  PROVE  TransferInv'
<1>1. OrdinaryResult(res) /\ res # Success
  <2>1. res.status = testFailed
    BY KnownUnlessArray
  <2> QED BY <2>1 DEF OrdinaryResult, Success
<1>2. IsPacked(res) /\ ~IsTooLarge(res) /\ bitShift # 0 => index > 0
  BY <1>1, NoStrayShift
<1>3. /\ BufferShape' /\ Follows' /\ sent' \in Seq(ShownResult)
      /\ \/ /\ Stops(res) /\ bitShift' = bitShift
            /\ message' = bufferToSmall => IsTooLarge(res)
         \/ /\ message' = noMessage /\ ~IsTooLarge(res)
            /\ bitShift' # 0 => index' > 0
  BY <1>1, <1>2, ReportStep
<1>4. RunShape'
  BY <1>1, <1>3, ReportShape
<1>5. TransferTypes'
  <2>1. phase' \in Phases
    BY DEF Phases
  <2> QED BY <1>3, <2>1 DEF TransferInv, TransferTypes
<1> QED BY <1>3, <1>4, <1>5 DEF TransferInv

(* A failed expectation keeps the invariant. *)
LEMMA ExpectKeeps ==
  ASSUME BufferIsSound, TransferInv, OrdinaryInputs, NEW a \in IntAsserts, ExpectFails(a)
  PROVE  TransferInv'
<1>1. /\ Running /\ phase = "inTest" /\ addResult(FailedInt(a)) /\ level' = level
      /\ Reports(FailedInt(a)) /\ names' = names /\ analyser' = analyser /\ closed' = closed
      /\ phase' = phase /\ testSuccess' = FALSE /\ a.type = typeCompBool
  BY DEF ExpectFails, CompareInt, hostVars
<1>2. OrdinaryFailure(FailedInt(a))
  BY FailedIntOrdinary
<1>3. level = testNames => calcResultLength(FailedInt(a)) = 5
  BY <1>1, BooleanLength
<1> DEFINE res == FailedInt(a)
<1>4. /\ OrdinaryFailure(res) /\ addResult(res) /\ Reports(res)
      /\ (level = testNames => calcResultLength(res) = 5)
  BY <1>1, <1>2, <1>3
<1> HIDE DEF res
<1> QED BY <1>1, <1>4, FailureIsReported

(* A failed assertion keeps the invariant. *)
LEMMA AssertKeeps ==
  ASSUME BufferIsSound, TransferInv, NEW res, OrdinaryFailure(res), Running, phase = "inTest",
         addResult(res), level' = level, Reports(res), phase' = "outside",
         names' = names, testSuccess' = testSuccess, analyser' = analyser, closed' = closed
  PROVE  TransferInv'
<1>1. testSuccess' \in BOOLEAN
  BY DEF TransferInv, TransferTypes
<1> QED BY <1>1, FailureIsReported

(* A timeout is evaluated only where its result fits. *)
LEMMA TimeoutKeeps ==
  ASSUME BufferIsSound, TransferInv, OrdinaryInputs, HandleTimeout
  PROVE  TransferInv'
<1> DEFINE res == FailedInt(TimeoutAssert)
<1>1. /\ Running /\ phase = "inTest" /\ addResult(res) /\ level' = level
      /\ Reports(res) /\ names' = names /\ analyser' = analyser /\ closed' = closed
      /\ phase' \in {"inTest", "outside"} /\ testSuccess' = testSuccess
      /\ message' = noMessage
  BY DEF HandleTimeout, CompareInt, hostVars, Running
<1>2. OrdinaryFailure(res)
  BY FailedIntOrdinary
<1>3. testSuccess' \in BOOLEAN
  BY <1>1 DEF TransferInv, TransferTypes
<1> HIDE DEF res
<1> QED BY <1>1, <1>2, <1>3, FailureIsReported

(* The end of a test, with its success, keeps the invariant. *)
LEMMA EndTestKeeps ==
  ASSUME BufferIsSound, TransferInv, EndTest
  PROVE  TransferInv'
<1>1. /\ Running /\ phase = "inTest" /\ phase' = "outside"
      /\ testSuccess' = testSuccess /\ names' = names
      /\ analyser' = analyser /\ closed' = closed
  BY DEF EndTest, hostVars
<1>2. CASE testSuccess /\ testCaseSuccess /\ Reports(Success)
  <2>1. addResult(Success) /\ level' = level
    BY <1>2 DEF testCaseSuccess
  <2>2. OrdinaryResult(Success)
    BY DEF OrdinaryResult
  <2> DEFINE res == Success
  <2>3. /\ addResult(res) /\ OrdinaryResult(res) /\ Reports(res)
        /\ (res = Success => testSuccess)
    BY <1>2, <2>1, <2>2
  <2> HIDE DEF res
  <2>4. IsPacked(res) /\ ~IsTooLarge(res) /\ bitShift # 0 => index > 0
    BY <1>1, <2>3, NoStrayShift
  <2>5. /\ BufferShape' /\ Follows' /\ sent' \in Seq(ShownResult)
        /\ \/ /\ Stops(res) /\ bitShift' = bitShift
              /\ message' = bufferToSmall => IsTooLarge(res)
           \/ /\ message' = noMessage /\ ~IsTooLarge(res)
              /\ bitShift' # 0 => index' > 0
    BY <1>1, <2>1, <2>3, <2>4, ReportStep
  <2>6. RunShape'
    <3>1. phase' \in {"inTest", "outside"} /\ phase' # "inTest"
      BY <1>1
    <3> QED BY <1>1, <2>1, <2>3, <2>5, <3>1, ReportShape
  <2>7. TransferTypes'
    BY <1>1, <2>5 DEF TransferInv, TransferTypes, Phases
  <2> QED BY <2>5, <2>6, <2>7 DEF TransferInv
<1>3. CASE ~testSuccess /\ UNCHANGED <<calls, sent>> /\ UNCHANGED bufferVars
  <2>1. /\ level' = level /\ memory' = memory /\ index' = index /\ bitShift' = bitShift
        /\ message' = message /\ rest' = rest /\ sent' = sent
    BY <1>3 DEF bufferVars
  <2>2. PICK to : ReadsTo(to)
    BY DEF TransferInv, Follows
  <2>3. ReadsTo(to)'
    BY <1>1, <2>1, <2>2 DEF ReadsTo, Pending, ShownAfterDrain, Shown, View, IsTooLarge,
                           calcResultLength
  <2>4. BufferShape'
    BY <2>1 DEF TransferInv, BufferShape, OrdinaryRecord
  <2>5. RunShape'
    BY <1>1, <2>1 DEF TransferInv, RunShape, Running, noMessage, bufferToSmall, finishAllTest
  <2>6. TransferTypes'
    BY <1>1, <2>1 DEF TransferInv, TransferTypes, Phases
  <2> QED BY <2>3, <2>4, <2>5, <2>6 DEF TransferInv, Follows
<1> QED BY <1>2, <1>3 DEF EndTest

(* The end of the test code keeps the invariant. *)
LEMMA EndKeeps ==
  ASSUME BufferIsSound, TransferInv, InvokeAllTestEnds
  PROVE  TransferInv'
<1>1. /\ message = noMessage /\ message' = finishAllTest /\ rest' = nothing
      /\ memory' = memory /\ index' = index /\ level' = level /\ bitShift' = bitShift
      /\ phase = "outside" /\ phase' = "finished" /\ testSuccess' = testSuccess
      /\ names' = names /\ sent' = sent /\ analyser' = analyser /\ closed' = closed
  BY DEF InvokeAllTestEnds, FinishAllTest, MessageToDebugger, Running, hostVars
<1>2. PICK to : ReadsTo(to)
  BY DEF TransferInv, Follows
<1>3. to \in AnalyserState
  BY <1>2 DEF ReadsTo
<1>4. rest = nothing /\ Pending(to) = to /\ ShownAfterDrain(to) = to.shown
  BY <1>1, <1>3, NothingPending DEF BufferIsSound
<1>5. Pending(to)' = to
  BY <1>1 DEF Pending, finishAllTest, bufferIsFull
<1>6. ShownAfterDrain(to)' = to.shown
  <2>1. to.shown \in Seq(ShownResult)
    BY <1>3 DEF AnalyserState
  <2>2. to.shown \o << >> = to.shown
    BY <2>1, ConcatEmptySeq
  <2>3. rest'.kind # "result"
    BY <1>1 DEF nothing
  <2> QED BY <2>2, <2>3 DEF ShownAfterDrain
<1>7. ReadsTo(to)'
  BY <1>1, <1>2, <1>4, <1>5, <1>6 DEF ReadsTo
<1>8. BufferShape'
  BY <1>1 DEF TransferInv, BufferShape
<1>9. RunShape'
  BY <1>1 DEF TransferInv, RunShape, noMessage, finishAllTest
<1>10. TransferTypes'
  BY <1>1 DEF TransferInv, TransferTypes, Phases
<1> QED BY <1>7, <1>8, <1>9, <1>10 DEF TransferInv, Follows

(* A string that is announced, or a message. *)
LEMMA StringKeeps ==
  ASSUME BufferIsSound, TransferInv, OrdinaryInputs, NEW s \in Strings,
         AddString(s), Announces(s) \/ (s.type = ofGdbMessage /\ names' = names),
         phase # "finished", phase' \in {"outside", "inTest"}, testSuccess' \in BOOLEAN,
         sent' = sent, analyser' = analyser, closed' = closed
  PROVE  TransferInv'
<1>1. /\ BufferShape' /\ Follows' /\ names' \in NamesState
      /\ bitShift' = 0 /\ level' = level /\ level \in 1..3
  BY TextStep
<1>2. message' \in {noMessage, bufferIsFull, bufferToSmall}
  BY DEF AddString, addStringToBuffer, MessageToDebugger, Running
<1>3. ~closed /\ message' # finishAllTest
  BY <1>2 DEF TransferInv, RunShape, noMessage, bufferIsFull, bufferToSmall, finishAllTest
<1>4. RunShape'
  BY <1>1, <1>3 DEF RunShape
<1>5. TransferTypes'
  BY <1>1 DEF TransferInv, TransferTypes, Phases
<1> QED BY <1>1, <1>4, <1>5 DEF TransferInv

(* The announcement of a file or a group keeps the invariant. *)
LEMMA BeginGroupKeeps ==
  ASSUME BufferIsSound, TransferInv, OrdinaryInputs, NEW s \in Strings, BeginGroup(s)
  PROVE  TransferInv'
<1>1. /\ AddString(s) /\ Announces(s) /\ phase = "outside" /\ phase' = "outside"
      /\ testSuccess' = testSuccess /\ sent' = sent /\ analyser' = analyser /\ closed' = closed
  BY DEF BeginGroup, hostVars
<1>2. testSuccess' \in BOOLEAN
  BY <1>1 DEF TransferInv, TransferTypes
<1> QED BY <1>1, <1>2, StringKeeps

(* A message keeps the invariant. *)
LEMMA PrintKeeps ==
  ASSUME BufferIsSound, TransferInv, OrdinaryInputs, NEW s \in Strings, PrintOverGdb(s)
  PROVE  TransferInv'
<1>1. /\ AddString(s) /\ s.type = ofGdbMessage /\ names' = names
      /\ phase = "inTest" /\ phase' = "inTest"
      /\ testSuccess' = testSuccess /\ sent' = sent /\ analyser' = analyser /\ closed' = closed
  BY DEF PrintOverGdb, hostVars
<1>2. testSuccess' \in BOOLEAN
  BY <1>1 DEF TransferInv, TransferTypes
<1> QED BY <1>1, <1>2, StringKeeps

(* The head of a test keeps the invariant. *)
LEMMA BeginTestKeeps ==
  ASSUME BufferIsSound, TransferInv, OrdinaryInputs, Regular, NEW s \in Strings, BeginTest(s)
  PROVE  TransferInv'
<1>1. /\ Running /\ phase = "outside" /\ phase' = "inTest" /\ testSuccess' = TRUE
      /\ s.type = ofTestName /\ sent' = sent /\ analyser' = analyser /\ closed' = closed
  BY DEF BeginTest, hostVars
<1>2. CASE AddString(s) /\ Announces(s)
  BY <1>1, <1>2, StringKeeps
<1>3. CASE /\ ~(WRITE_TEST_NAME /\ IsRequested(s))
           /\ UNCHANGED <<names, calls>> /\ UNCHANGED bufferVars
  <2>1. /\ level' = level /\ memory' = memory /\ index' = index /\ bitShift' = bitShift
        /\ message' = message /\ rest' = rest /\ names' = names
    BY <1>3 DEF bufferVars
  <2>2. level = justSuccess
    <3>1. level \in Levels /\ level \in 0..3
      BY BufferIsFilled DEF BufferIsSound, TransferInv, BufferShape
    <3>2. ASSUME level # justSuccess PROVE FALSE
      <4>1. IsRequested(s)
        BY <1>1, <3>1, <3>2 DEF IsRequested
      <4>2. Levels \subseteq {justSuccess}
        BY <1>3, <4>1 DEF Regular
      <4> QED BY <3>1, <3>2, <4>2
    <3> QED BY <3>2
  <2>3. PICK to : ReadsTo(to)
    BY DEF TransferInv, Follows
  <2>4. ReadsTo(to)'
    BY <1>1, <2>1, <2>3 DEF ReadsTo, Pending, ShownAfterDrain, Shown, View, IsTooLarge,
                           calcResultLength
  <2>5. BufferShape'
    BY <2>1 DEF TransferInv, BufferShape, OrdinaryRecord
  <2>6. RunShape'
    BY <1>1, <2>1, <2>2 DEF TransferInv, RunShape, Running, noMessage, finishAllTest
  <2>7. TransferTypes'
    BY <1>1, <2>1 DEF TransferInv, TransferTypes, Phases
  <2> QED BY <2>4, <2>5, <2>6, <2>7 DEF TransferInv, Follows
<1> QED BY <1>2, <1>3 DEF BeginTest

(* Every step of the test code and of the host keeps the invariant. *)
LEMMA TransferStep ==
  ASSUME BufferIsSound, TransferInv, OrdinaryInputs, Regular, [Next]_vars
  PROVE  TransferInv'
<1>1. ASSUME NEW s \in Strings, BeginGroup(s) \/ BeginTest(s) \/ PrintOverGdb(s)
      PROVE  TransferInv'
  BY <1>1, BeginGroupKeeps, BeginTestKeeps, PrintKeeps
<1>2. ASSUME NEW a \in IntAsserts, ExpectFails(a)
      PROVE  TransferInv'
  BY <1>2, ExpectKeeps
<1>3. ASSUME NEW a \in IntAsserts, AssertFails(a)
      PROVE  TransferInv'
  <2>1. OrdinaryFailure(FailedInt(a))
    BY FailedIntOrdinary
  <2> QED BY <1>3, <2>1, AssertKeeps DEF AssertFails, CompareInt, hostVars
<1>4. ASSUME NEW a \in MemAsserts, AssertMemFails(a)
      PROVE  TransferInv'
  <2>1. OrdinaryFailure(FailedMem(a))
    BY FailedMemOrdinary
  <2> QED BY <1>4, <2>1, AssertKeeps DEF AssertMemFails, byteComp, hostVars
<1>5. ASSUME Host PROVE TransferInv'
  BY <1>5, FullIsAnswered, TooSmallIsAnswered, FinishIsAnswered, TimeoutKeeps DEF Host
<1>6. CASE UNCHANGED vars
  <2>1. /\ level' = level /\ memory' = memory /\ index' = index /\ bitShift' = bitShift
        /\ message' = message /\ rest' = rest /\ names' = names /\ sent' = sent
        /\ phase' = phase /\ testSuccess' = testSuccess /\ analyser' = analyser
        /\ closed' = closed
    BY <1>6 DEF vars, bufferVars, testVars, hostVars
  <2>2. PICK to : ReadsTo(to)
    BY DEF TransferInv, Follows
  <2>3. ReadsTo(to)'
    BY <2>1, <2>2 DEF ReadsTo, Pending, ShownAfterDrain, Shown, View, IsTooLarge,
                     calcResultLength
  <2>4. BufferShape'
    BY <2>1 DEF TransferInv, BufferShape, OrdinaryRecord
  <2>5. RunShape' /\ TransferTypes'
    BY <2>1 DEF TransferInv, RunShape, TransferTypes
  <2> QED BY <2>3, <2>4, <2>5 DEF TransferInv, Follows
<1> QED BY <1>1, <1>2, <1>3, <1>4, <1>5, <1>6, EndTestKeeps, EndKeeps DEF Next, TestCode
-----------------------------------------------------------------------------
(* The run starts with nothing sent, nothing stored and nothing shown. *)
LEMMA TransferInit ==
  ASSUME Regular, Init
  PROVE  TransferInv
<1>1. /\ level \in Levels /\ memory = [a \in Addresses |-> IF a \in Inside THEN 0 ELSE Foreign]
      /\ index = 0 /\ bitShift = 0 /\ message = noMessage /\ rest = nothing
      /\ phase = "outside" /\ testSuccess = TRUE /\ closed = FALSE
      /\ analyser = AnalyserInit /\ sent = << >>
      /\ names = [class |-> << >>, test |-> << >>, file |-> << >>, tests |-> 0, groups |-> << >>]
  BY DEF Init, BufferInit
<1>2. << >> \in Seq(Byte) /\ << >> \in Seq(ShownResult) /\ << >> \in Seq(GroupCount)
  BY EmptySeq
<1>3. analyser \in AnalyserState /\ names \in NamesState
  BY <1>1, <1>2 DEF AnalyserState, NamesState, AnalyserInit
<1>4. TransferTypes
  BY <1>1, <1>2, <1>3 DEF TransferTypes, Phases
<1>5. BufferShape
  <2>1. 0 <= SizeofBuffer
    BY SomeAddresses
  <2>2. ASSUME level = testResults, NEW a \in Addresses PROVE memory[a] = 0
    BY <1>1, <2>2 DEF Regular
  <2> QED BY <1>1, <2>1, <2>2 DEF BufferShape
<1>6. RunShape
  BY <1>1 DEF RunShape, noMessage, finishAllTest, bufferToSmall
<1>7. Follows
  <2>1. PICK x : x = analyser
    OBVIOUS
  <2>2. /\ x.shown = << >> /\ x.groups = << >> /\ x.errors = 0
        /\ x.class = << >> /\ x.test = << >> /\ x.file = << >> /\ x.testPerGroup = 0
    BY <1>1, <2>1 DEF AnalyserInit
  <2>3. Pending(x) = x
    BY <1>1 DEF Pending, noMessage, bufferIsFull
  <2>4. Agrees(level, x, names)
    BY <1>1, <2>2 DEF Agrees
  <2>5. ShownAfterDrain(x) = sent
    <3>1. << >> \o << >> = << >>
      BY <1>2, ConcatEmptySeq
    <3>2. rest.kind # "result"
      BY <1>1 DEF nothing
    <3> QED BY <1>1, <2>2, <3>1, <3>2 DEF ShownAfterDrain
  <2>6. Reads(level, memory, index, bitShift, analyser, x)
    BY <1>1, <2>1, ReadsNothing
  <2>7. Extends(x.shown, analyser.shown) /\ Extends(x.groups, analyser.groups)
    <3>1. Extends(x.shown, x.shown) /\ Extends(x.groups, x.groups)
      BY <1>2, <2>2, ExtendsItself
    <3> QED BY <2>1, <3>1
  <2> QED BY <1>3, <2>1, <2>2, <2>3, <2>4, <2>5, <2>6, <2>7 DEF ReadsTo, Follows
<1> QED BY <1>4, <1>5, <1>6, <1>7 DEF TransferInv

(* The inductive invariant of a test run: whatever the buffer holds, in     *)
(* whatever mixture of packed statuses, failures and strings eUnit.c has left *)
(* it, the loop of TestAnalyser.cpp reads it to one state, in which it has  *)
(* shown what was reported, met no error and knows the announced names.     *)
THEOREM TransferFollows ==
  ASSUME OrdinaryInputs, Regular
  PROVE  Spec => [](BufferIsSound /\ TransferInv)
<1>1. Init => TransferInv
  BY TransferInit
<1>2. BufferIsSound /\ TransferInv /\ [Next]_vars => TransferInv'
  BY TransferStep
<1>3. Spec => []BufferIsSound
  BY TransferStaysInside DEF BufferIsSound
<1> QED BY <1>1, <1>2, <1>3, PTL DEF Spec

(* The encoder and the decoder agree, for buffers of any size and runs of any *)
(* length: at any moment the buffer, read by testAnalyser::analyse, holds   *)
(* exactly the results reported and not yet shown, each under its names.    *)
THEOREM TheBufferHoldsTheRest ==
  ASSUME OrdinaryInputs, Regular
  PROVE  Spec => []BufferHoldsTheRest
<1>1. BufferIsSound /\ TransferInv => BufferHoldsTheRest
  <2> SUFFICES ASSUME BufferIsSound, TransferInv PROVE BufferHoldsTheRest
    OBVIOUS
  <2>1. PICK to : ReadsTo(to)
    BY DEF TransferInv, Follows
  <2>2. Analyse(level, analyser, Dump) = {to}
    BY <2>1, DrainedIs
  <2>3. ShownAfterDrain(to) = sent /\ to.errors = 0
    BY <2>1 DEF ReadsTo
  <2> QED BY <2>2, <2>3 DEF BufferHoldsTheRest
<1> QED BY <1>1, TransferFollows, PTL

(* A closed run has an empty buffer, so that the analyser has read it all. *)
LEMMA ClosedRunIsRead ==
  ASSUME BufferIsSound, TransferInv, closed
  PROVE  analyser.shown = sent /\ Agrees(level, analyser, names)
<1>1. message = noMessage /\ index = 0
  BY DEF TransferInv, RunShape
<1>2. PICK to : ReadsTo(to)
  BY DEF TransferInv, Follows
<1>3. to = analyser
  <2>1. Drained = {to}
    BY <1>2, DrainedIs
  <2> QED BY <1>1, <2>1 DEF Drained
<1>4. to \in AnalyserState /\ Agrees(level, Pending(to), names) /\ ShownAfterDrain(to) = sent
  BY <1>2 DEF ReadsTo
<1>5. Pending(to) = to /\ ShownAfterDrain(to) = to.shown
  BY <1>1, <1>4, NothingPending DEF BufferIsSound
<1> QED BY <1>3, <1>4, <1>5

(* With the names of the tests announced, a run that is closed has shown every *)
(* result (GDBManipulator/Readme.md:102); the run NamesOff shows that the   *)
(* hypothesis WRITE_TEST_NAME in Regular is needed.                         *)
THEOREM AllResultsAreRead ==
  ASSUME OrdinaryInputs, Regular
  PROVE  Spec => []AllResultsRead
<1>1. BufferIsSound /\ TransferInv => AllResultsRead
  BY ClosedRunIsRead DEF AllResultsRead
<1> QED BY <1>1, TransferFollows, PTL

(* The groups that a stopped string may still close come after the others. *)
LEMMA PendingGroups ==
  ASSUME BufferIsSound, TransferInv, NEW to, ReadsTo(to)
  PROVE  /\ Extends(Pending(to).groups, to.groups)
         /\ Pending(to).groups \in Seq(GroupCount)
<1>1. to \in AnalyserState /\ to.groups \in Seq(GroupCount)
  BY DEF ReadsTo, AnalyserState
<1>2. CASE message = bufferIsFull /\ rest.kind = "string"
  <2> DEFINE type == rest.type
             text == NulEnd(rest.text)
  <2>1. rest \in StringRec /\ level # justSuccess
    BY <1>2 DEF BufferIsSound, StoppedCallFits, Result, Success, FailedResult
  <2>2. OrdinaryText(rest.text)
    <3>1. ~OrdinaryResult(rest)
      <4>1. ~(rest \in Result)
        BY <1>2 DEF Result, Success, FailedResult
      <4> QED BY <4>1, OrdinaryIsResult
    <3>2. rest # nothing
      BY <1>2 DEF nothing
    <3> QED BY <3>1, <3>2 DEF TransferInv, BufferShape, OrdinaryRecord
  <2>3. type \in 0..3 /\ text \in Seq(Byte)
    BY <2>1, <2>2, NulEndType DEF StringRec
  <2>4. level \in 1..3
    BY <2>1, BufferIsFilled DEF BufferIsSound, TransferInv
  <2>5. PICK x : x = Apply(level, to, TextEvent(type, text))
    OBVIOUS
  <2>6. Pending(to) = x
    BY <1>2, <2>5 DEF Pending
  <2> HIDE DEF type, text
  <2>7. Renames(to, x)
    BY <1>1, <2>3, <2>4, <2>5, ApplyText
  <2> QED BY <2>6, <2>7 DEF Renames, AnalyserState
<1>3. CASE ~(message = bufferIsFull /\ rest.kind = "string")
  <2>1. Pending(to) = to
    BY <1>3 DEF Pending
  <2> QED BY <1>1, <2>1, ExtendsItself
<1> QED BY <1>2, <1>3

(* From level testResults on the analyser counts for each group of a run the *)
(* tests it had, however the buffer was flushed in between.                 *)
THEOREM TheGroupsAreCounted ==
  ASSUME OrdinaryInputs, Regular
  PROVE  Spec => []GroupsAreCounted
<1>1. BufferIsSound /\ TransferInv => GroupsAreCounted
  <2> SUFFICES ASSUME BufferIsSound, TransferInv, level >= testResults
               PROVE  /\ Len(analyser.groups) <= Len(names.groups)
                      /\ analyser.groups = SubSeq(names.groups, 1, Len(analyser.groups))
                      /\ closed => analyser.groups = names.groups
    BY DEF GroupsAreCounted
  <2>1. PICK to : ReadsTo(to)
    BY DEF TransferInv, Follows
  <2> DEFINE a == analyser.groups
             b == to.groups
             c == names.groups
  <2>2. a \in Seq(GroupCount) /\ b \in Seq(GroupCount) /\ c \in Seq(GroupCount)
    BY <2>1 DEF ReadsTo, TransferInv, TransferTypes, AnalyserState, NamesState
  <2>3. Extends(b, a)
    BY <2>1 DEF ReadsTo
  <2>4. Pending(to).groups = c
    BY <2>1 DEF ReadsTo, Agrees
  <2>5. Extends(c, b)
    BY <2>1, <2>4, PendingGroups
  <2>6. closed => a = c
    BY ClosedRunIsRead DEF Agrees
  <2> HIDE DEF a, b, c
  <2>7. Extends(c, a)
    BY <2>2, <2>3, <2>5, ExtendsFurther
  <2>8. a = SubSeq(c, 1, Len(a)) /\ Len(a) <= Len(c)
    BY <2>2, <2>7, ExtendsIsSubSeq
  <2> QED BY <2>6, <2>8 DEF a, c
<1> QED BY <1>1, TransferFollows, PTL
-----------------------------------------------------------------------------
(* The channel. *)

(* A sequence over a set is one over any larger set. *)
LEMMA WiderSeq ==
  ASSUME NEW S, NEW T, S \subseteq T, NEW s \in Seq(S)
  PROVE  s \in Seq(T)
<1>1. Len(s) \in Nat /\ s \in [1..Len(s) -> S]
  BY LenProperties
<1>2. s \in [1..Len(s) -> T]
  BY <1>1
<1> QED BY <1>1, <1>2

(* What is reported comes behind what was reported before. *)
LEMMA ReportSends ==
  ASSUME TransferInv, phase = "inTest", NEW res, Reports(res), analyser' = analyser,
         closed' = closed
  PROVE  Channel!Report
<1> DEFINE x == [class |-> names.class, test |-> names.test,
                 file |-> names.file, of |-> View(res)]
           S == ShownResult \union {x}
<1>1. sent' = Append(sent, x)
  BY DEF Reports
<1>2. sent \in Seq(S)
  <2>1. sent \in Seq(ShownResult)
    BY DEF TransferInv, TransferTypes
  <2> HIDE DEF x
  <2> QED BY <2>1, WiderSeq
<1> HIDE DEF x
<1>3. x \in S
  OBVIOUS
<1> HIDE DEF S
<1>4. /\ Append(sent, x) \in Seq(S) /\ Extends(Append(sent, x), sent)
      /\ Len(Append(sent, x)) = Len(sent) + 1
  BY <1>2, <1>3, ExtendsAppend
<1>5. sent = SubSeq(sent', 1, Len(sent)) /\ Len(sent') = Len(sent) + 1
  BY <1>1, <1>2, <1>4, ExtendsIsSubSeq
<1>6. ~closed
  BY DEF TransferInv, RunShape
<1> QED BY <1>5, <1>6 DEF Channel!Report

(* A drained buffer delivers all it held, or held no result. *)
LEMMA DrainDelivers ==
  ASSUME TransferInv, ~closed, NEW S, NEW a \in Seq(S), NEW b \in Seq(S),
         analyser.shown = a, sent = b, analyser'.shown \in Seq(S),
         Extends(analyser'.shown, a), Extends(b, analyser'.shown),
         sent' = sent, closed' = closed
  PROVE  Channel!Deliver \/ UNCHANGED <<sent, analyser.shown, closed>>
<1> DEFINE s == analyser'.shown
           n == Len(s)
<1>1. n \in Nat /\ Len(a) \in Nat /\ Len(b) \in Nat
  BY LenProperties
<1>2. Len(a) <= n /\ n <= Len(b) /\ s = SubSeq(b, 1, n)
  <2>1. s \in Seq(S) /\ Extends(b, s)
    OBVIOUS
  <2> HIDE DEF s
  <2>2. s = SubSeq(b, 1, Len(s)) /\ Len(s) <= Len(b)
    BY <2>1, ExtendsIsSubSeq
  <2> QED BY <2>2 DEF s, Extends
<1>3. CASE n <= Len(a)
  <2>1. s \in Seq(S) /\ Extends(s, a) /\ Len(s) <= Len(a)
    BY <1>3
  <2> HIDE DEF s
  <2>2. s = a
    BY <2>1, SameLength
  <2> QED BY <2>2 DEF s
<1>4. CASE ~(n <= Len(a))
  <2> HIDE DEF n
  <2>1. n \in (Len(a) + 1)..Len(b)
    BY <1>1, <1>2, <1>4
  <2>2. analyser'.shown = SubSeq(sent, 1, n) /\ n \in (Len(analyser.shown) + 1)..Len(sent)
    BY <1>2, <2>1
  <2> QED BY <2>2 DEF Channel!Deliver
<1> QED BY <1>3, <1>4

(* The results shown come first among those sent. *)
LEMMA ShownIsSent ==
  ASSUME NEW to, ReadsTo(to)
  PROVE  /\ to.shown \in Seq(ShownResult)
         /\ Extends(to.shown, analyser.shown) /\ Extends(sent, to.shown)
<1>1. /\ to.shown \in Seq(ShownResult) /\ Extends(to.shown, analyser.shown)
      /\ ShownAfterDrain(to) = sent
  BY DEF ReadsTo, AnalyserState
<1>2. CASE rest.kind = "result"
  <2> DEFINE x == Shown(View(rest))
             S == ShownResult \union {x}
  <2>1. sent = to.shown \o <<x>>
    BY <1>1, <1>2 DEF ShownAfterDrain
  <2> HIDE DEF x
  <2>2. x \in S
    OBVIOUS
  <2>3. to.shown \in Seq(S)
    BY <1>1, WiderSeq
  <2> HIDE DEF S
  <2>4. Append(to.shown, x) = to.shown \o <<x>> /\ Extends(Append(to.shown, x), to.shown)
    BY <2>2, <2>3, AppendIsConcat, ExtendsAppend
  <2> QED BY <1>1, <2>1, <2>4
<1>3. CASE rest.kind # "result"
  <2>1. to.shown \o << >> = to.shown
    BY <1>1, ConcatEmptySeq
  <2>2. sent = to.shown
    BY <1>1, <1>3, <2>1 DEF ShownAfterDrain
  <2> QED BY <1>1, <2>2, ExtendsItself
<1> QED BY <1>2, <1>3

(* Every step of a run is a step of the channel, or leaves it alone. *)
LEMMA ChannelStep ==
  ASSUME BufferIsSound, TransferInv, [Next]_vars
  PROVE  [Channel!ChannelNext]_(Channel!channelVars)
<1> DEFINE Step == Channel!ChannelNext \/ UNCHANGED <<sent, analyser.shown, closed>>
<1>1. ASSUME UNCHANGED <<sent, analyser, closed>> PROVE Step
  BY <1>1
<1>2. ASSUME NEW s \in Strings, BeginGroup(s) \/ BeginTest(s) \/ PrintOverGdb(s)
      PROVE  Step
  BY <1>1, <1>2 DEF BeginGroup, BeginTest, PrintOverGdb, hostVars
<1>3. ASSUME NEW res, phase = "inTest", Reports(res), UNCHANGED hostVars
      PROVE  Step
  BY <1>3, ReportSends DEF hostVars, Channel!ChannelNext
<1>4. ASSUME NEW a \in IntAsserts, ExpectFails(a) \/ AssertFails(a)
      PROVE  Step
  BY <1>3, <1>4 DEF ExpectFails, AssertFails
<1>5. ASSUME NEW a \in MemAsserts, AssertMemFails(a)
      PROVE  Step
  BY <1>3, <1>5 DEF AssertMemFails
<1>6. ASSUME EndTest PROVE Step
  BY <1>1, <1>3, <1>6 DEF EndTest, hostVars
<1>7. ASSUME InvokeAllTestEnds PROVE Step
  BY <1>1, <1>7 DEF InvokeAllTestEnds, hostVars
<1>8. ASSUME HandleTimeout PROVE Step
  BY <1>3, <1>8 DEF HandleTimeout
<1>9. analyser.shown \in Seq(ShownResult) /\ sent \in Seq(ShownResult)
  BY DEF TransferInv, TransferTypes, AnalyserState
<1>10. message # noMessage => ~closed
  BY DEF TransferInv, RunShape
<1>11. ASSUME HandleBufferIsFull PROVE Step
  <2>1. PICK to : ReadsTo(to) /\ analyser' = to
    BY <1>11, FullIsAnswered
  <2>2. /\ ~closed /\ sent' = sent /\ closed' = closed
    BY <1>10, <1>11 DEF HandleBufferIsFull, testVars, bufferIsFull, noMessage
  <2>3. /\ to.shown \in Seq(ShownResult)
        /\ Extends(to.shown, analyser.shown) /\ Extends(sent, to.shown)
    BY <2>1, ShownIsSent
  <2>5. Channel!Deliver \/ UNCHANGED <<sent, analyser.shown, closed>>
    BY <1>9, <2>1, <2>2, <2>3, DrainDelivers
  <2> QED BY <2>5 DEF Channel!ChannelNext
<1>12. ASSUME HandleBufferToSmall PROVE Step
  <2>1. analyser'.shown = sent
    BY <1>12, TooSmallIsAnswered
  <2>2. /\ ~closed /\ sent' = sent /\ closed' = closed
    BY <1>10, <1>12 DEF HandleBufferToSmall, testVars, bufferToSmall, noMessage
  <2>3. PICK to : ReadsTo(to)
    BY DEF TransferInv, Follows
  <2>4. Extends(sent, analyser.shown)
    <3>1. to.shown \in Seq(ShownResult) /\ Extends(to.shown, analyser.shown) /\ Extends(sent, to.shown)
      BY <2>3, ShownIsSent
    <3> QED BY <1>9, <3>1, ExtendsFurther
  <2>5. Extends(sent, sent)
    BY <1>9, ExtendsItself
  <2>6. Channel!Deliver \/ UNCHANGED <<sent, analyser.shown, closed>>
    BY <1>9, <2>1, <2>2, <2>4, <2>5, DrainDelivers
  <2> QED BY <2>6 DEF Channel!ChannelNext
<1>13. ASSUME HandleFinishAllTest PROVE Step
  <2>1. analyser'.shown = sent
    BY <1>13, FinishIsAnswered
  <2>2. /\ ~closed /\ sent' = sent /\ closed' = TRUE
    BY <1>10, <1>13 DEF HandleFinishAllTest, testVars, finishAllTest, noMessage
  <2> QED BY <2>1, <2>2 DEF Channel!ChannelNext, Channel!Close
<1>14. ASSUME UNCHANGED vars PROVE Step
  BY <1>1, <1>14 DEF vars, testVars, hostVars
<1>15. Step
  BY <1>2, <1>4, <1>5, <1>6, <1>7, <1>8, <1>11, <1>12, <1>13, <1>14 DEF Next, TestCode, Host
<1> QED BY <1>15 DEF Channel!channelVars

(* The buffer, the debugger and the analyser together are a channel that    *)
(* delivers each result once and in order, and all of them before it closes. *)
THEOREM TransferImplementsChannel ==
  ASSUME OrdinaryInputs, Regular
  PROVE  Spec => ImplementsChannel
<1>1. Init => Channel!ChannelInit
  BY DEF Init, AnalyserInit, Channel!ChannelInit
<1>2. BufferIsSound /\ TransferInv /\ [Next]_vars => [Channel!ChannelNext]_(Channel!channelVars)
  BY ChannelStep
<1> QED BY <1>1, <1>2, TransferFollows, PTL DEF Spec, ImplementsChannel, Channel!ChannelSpec
===============================================================================
