---------------------------- MODULE IntakeProofs ----------------------------
(***************************************************************************)
(* Theorems about Intake, for every number of clients, descriptors,        *)
(* buffers and handlers and every length of the texts: Intake is the       *)
(* device of NetDevice, what is answered is what was verified, a whole     *)
(* request with a zero behind it is accepted, and replies reach their      *)
(* senders even if requests come in pieces.                                *)
(***************************************************************************)
EXTENDS Intake, DeviceProofs, SequenceTheorems, WellFoundedInduction

-----------------------------------------------------------------------------
(***************************************************************************)
(* Intake is the device.                                                   *)
(***************************************************************************)
\* A step of Intake is one of the device or leaves it alone.
LEMMA IntakeStepOfDevice ==
  ASSUME [IntakeNext]_<<vars, intakeVars>>
  PROVE  [Next]_vars
<1>1. CASE DeviceStep
  BY <1>1 DEF DeviceStep, Next, ProcessStep
<1>2. CASE Receive
  BY <1>2 DEF Receive, Next, ProcessStep
<1>3. CASE \E h \in Handlers : PopulateSigFile(h) \/ VerifyClient(h)
  BY <1>3 DEF PopulateSigFile, VerifyClient
<1>4. CASE \E netReq \in pending : Answer(netReq)
  BY <1>4 DEF Answer, Next
<1>5. CASE \E c \in Clients : ClientStep(c)
  BY <1>5 DEF ClientStep, Next
<1> QED
  BY <1>1, <1>2, <1>3, <1>4, <1>5 DEF IntakeNext

(***************************************************************************)
(* The bytes and the primary's check take nothing from the device: every   *)
(* behaviour of Intake is one of NetDevice.                                *)
(***************************************************************************)
THEOREM IntakeIsDevice == IntakeSpec => Spec
<1>1. IntakeInit => Init
  BY DEF IntakeInit
<1>2. [IntakeNext]_<<vars, intakeVars>> => [Next]_vars
  BY IntakeStepOfDevice
<1> QED
  BY <1>1, <1>2, PTL DEF IntakeSpec, Spec

-----------------------------------------------------------------------------
(***************************************************************************)
(* C strings.                                                              *)
(***************************************************************************)
\* Sets of natural numbers have least elements.
LEMMA LeastNatural ==
  ASSUME NEW T, T \subseteq Nat, T # {}
  PROVE  \E n \in T : \A m \in T : n <= m
<1>1. PICK R : R = {ss \in Nat \X Nat : ss[1] < ss[2]}
  OBVIOUS
<1>2. IsWellFoundedOn(R, Nat)
  BY <1>1, NatLessThanWellFounded DEF OpToRel
<1>3. PICK n \in T : \A m \in T : ~ (<<m, n>> \in R)
  BY <1>2, WFMin
<1>4. \A m \in T : ~(m < n)
  BY <1>1, <1>3
<1> QED
  BY <1>4

\* The first zero at or behind a place.
IsEnd(bytes, from, end) == /\ bytes[end] = NUL
                           /\ \A i \in from .. end - 1 : bytes[i] # NUL

\* strlen stops at the first zero.
LEMMA StrlenIs ==
  ASSUME NEW bytes, NEW from \in Nat, NEW end \in from .. BUFSIZE, IsEnd(bytes, from, end)
  PROVE  strlen(bytes, from) = end - from
<1> BUFSIZE \in Nat
  BY IntakeAssumption DEF IntakeAssumption
<1> DEFINE P(k) == bytes[k] = NUL /\ \A i \in from .. k - 1 : bytes[i] # NUL
<1>1. P(end)
  BY DEF IsEnd
<1>2. \A k \in from .. BUFSIZE : P(k) => k = end
  <2> TAKE k \in from .. BUFSIZE
  <2>1. k \in Int /\ end \in Int
    OBVIOUS
  <2>2. k < end => k \in from .. end - 1
    BY <2>1
  <2>3. end < k => end \in from .. k - 1
    BY <2>1
  <2> QED
    BY <1>1, <2>1, <2>2, <2>3
<1>3. (CHOOSE k \in from .. BUFSIZE : P(k)) = end
  <2>1. \E k \in from .. BUFSIZE : P(k)
    BY <1>1
  <2> HIDE DEF P
  <2> QED
    BY <1>2, <2>1
<1> QED
  BY <1>3 DEF strlen

\* A buffer whose last byte is zero holds a string at every place.
LEMMA HasEnd ==
  ASSUME NEW bytes, NEW from \in 1 .. BUFSIZE, bytes[BUFSIZE] = NUL
  PROVE  \E end \in from .. BUFSIZE : IsEnd(bytes, from, end)
<1> BUFSIZE \in Nat
  BY IntakeAssumption DEF IntakeAssumption
<1>1. {k \in from .. BUFSIZE : bytes[k] = NUL} # {} /\ {k \in from .. BUFSIZE : bytes[k] = NUL} \subseteq Nat
  OBVIOUS
<1>2. PICK end \in {k \in from .. BUFSIZE : bytes[k] = NUL} :
         \A m \in {k \in from .. BUFSIZE : bytes[k] = NUL} : end <= m
  BY <1>1, LeastNatural
<1>3. \A i \in from .. end - 1 : i \in from .. BUFSIZE /\ i < end
  OBVIOUS
<1> QED
  BY <1>2, <1>3 DEF IsEnd

-----------------------------------------------------------------------------
(***************************************************************************)
(* Decoding.                                                               *)
(***************************************************************************)
\* Nothing is dropped from a sequence of hexadecimal digits.
LEMMA HexDecoderKeepsDigits ==
  ASSUME NEW S, NEW bytes \in Seq(S), \A k \in 1 .. Len(bytes) : IsHexDigit(bytes[k])
  PROVE  HexDecoder(bytes) = bytes
<1> DEFINE n == Len(bytes)
           Decoded(f) == f = [k \in 0 .. n |->
                                IF k = 0 THEN << >>
                                ELSE IF IsHexDigit(bytes[k]) THEN Append(f[k - 1], bytes[k])
                                ELSE f[k - 1]]
           prefix == [k \in 0 .. n |-> SubSeq(bytes, 1, k)]
<1>1. n \in Nat /\ bytes \in [1 .. n -> S]
  OBVIOUS
<1>2. \A k \in 1 .. n : SubSeq(bytes, 1, k) = Append(SubSeq(bytes, 1, k - 1), bytes[k])
  <2> TAKE k \in 1 .. n
  <2>1. /\ SubSeq(bytes, 1, k) \in Seq(S) /\ Len(SubSeq(bytes, 1, k)) = k
        /\ \A i \in 1 .. k : SubSeq(bytes, 1, k)[i] = bytes[i]
    BY <1>1
  <2>2. /\ SubSeq(bytes, 1, k - 1) \in Seq(S) /\ Len(SubSeq(bytes, 1, k - 1)) = k - 1
        /\ \A i \in 1 .. k - 1 : SubSeq(bytes, 1, k - 1)[i] = bytes[i]
    BY <1>1
  <2>3. bytes[k] \in S
    BY <1>1
  <2>4. PICK p : p = SubSeq(bytes, 1, k - 1)
    OBVIOUS
  <2>5. PICK q : q = SubSeq(bytes, 1, k)
    OBVIOUS
  <2>6. /\ Append(p, bytes[k]) \in Seq(S) /\ Len(Append(p, bytes[k])) = k
        /\ \A i \in 1 .. k - 1 : Append(p, bytes[k])[i] = p[i]
        /\ Append(p, bytes[k])[k] = bytes[k]
    BY <2>2, <2>3, <2>4
  <2>7. \A i \in 1 .. k : Append(p, bytes[k])[i] = q[i]
    BY <2>1, <2>2, <2>4, <2>5, <2>6
  <2>8. Append(p, bytes[k]) = q
    BY <2>1, <2>5, <2>6, <2>7, SeqEqual
  <2> QED
    BY <2>4, <2>5, <2>8
<1>3. Decoded(prefix)
  <2>1. SubSeq(bytes, 1, 0) = << >>
    BY <1>1
  <2>2. \A k \in 0 .. n : k # 0 => k \in 1 .. n /\ k - 1 \in 0 .. n
    BY <1>1
  <2>3. \A k \in 0 .. n : prefix[k] = IF k = 0 THEN << >>
                                    ELSE IF IsHexDigit(bytes[k]) THEN Append(prefix[k - 1], bytes[k])
                                    ELSE prefix[k - 1]
    BY <1>2, <2>1, <2>2
  <2> QED
    BY <2>3
<1>4. PICK f : f = CHOOSE g : Decoded(g)
  OBVIOUS
<1>5. Decoded(f)
  <2> HIDE DEF Decoded, prefix
  <2> QED
    BY <1>3, <1>4
<1>6. \A k \in 0 .. n : f[k] = prefix[k]
  <2> SUFFICES ASSUME {k \in 0 .. n : f[k] # prefix[k]} # {} PROVE FALSE
    OBVIOUS
  <2>1. {k \in 0 .. n : f[k] # prefix[k]} \subseteq Nat
    BY <1>1
  <2>2. PICK k \in {j \in 0 .. n : f[j] # prefix[j]} :
          \A m \in {j \in 0 .. n : f[j] # prefix[j]} : k <= m
    BY <2>1, LeastNatural
  <2>3. f[0] = << >> /\ prefix[0] = << >>
    BY <1>1, <1>5
  <2>4. k \in 1 .. n /\ k - 1 \in 0 .. n /\ k # 0
    <3>1. k \in 0 .. n /\ f[k] # prefix[k]
      BY <2>2
    <3>2. k # 0
      BY <2>3, <3>1
    <3> QED
      BY <1>1, <3>1, <3>2
  <2>5. f[k - 1] = prefix[k - 1]
    BY <2>2, <2>4
  <2>6. f[k] = Append(f[k - 1], bytes[k])
    <3>1. IsHexDigit(bytes[k]) /\ k \in 0 .. n
      BY <1>1, <2>4
    <3>2. f[k] = IF k = 0 THEN << >>
                 ELSE IF IsHexDigit(bytes[k]) THEN Append(f[k - 1], bytes[k])
                 ELSE f[k - 1]
      BY <1>5, <3>1
    <3> QED
      BY <2>4, <3>1, <3>2
  <2>7. prefix[k] = Append(prefix[k - 1], bytes[k])
    BY <1>2, <2>4
  <2> QED
    BY <2>2, <2>5, <2>6, <2>7
<1>7. HexDecoder(bytes) = f[n]
  BY <1>4 DEF HexDecoder
<1>8. SubSeq(bytes, 1, n) = bytes
  BY <1>1
<1> QED
  BY <1>1, <1>6, <1>7, <1>8

-----------------------------------------------------------------------------
(***************************************************************************)
(* Requests and their segments.                                            *)
(***************************************************************************)
\* A subsequence as a function.
LEMMA SubSeqIs ==
  ASSUME NEW s, NEW m \in Int, NEW n \in Int, m <= n + 1
  PROVE  /\ SubSeq(s, m, n) = [k \in 1 .. n - m + 1 |-> s[k + m - 1]]
         /\ Len(SubSeq(s, m, n)) = n - m + 1
<1>1. PICK S : S = {s[i] : i \in m .. n}
  OBVIOUS
<1>2. \A i \in m .. n : s[i] \in S
  BY <1>1
<1>3. /\ SubSeq(s, m, n) \in Seq(S)
      /\ Len(SubSeq(s, m, n)) = IF m <= n THEN n - m + 1 ELSE 0
      /\ \A i \in 1 .. n - m + 1 : SubSeq(s, m, n)[i] = s[m + i - 1]
  BY <1>2, SubSeqProperties
<1>4. PICK q : q = SubSeq(s, m, n)
  OBVIOUS
<1>5. Len(q) = n - m + 1 /\ n - m + 1 \in Nat
  <2>1. ~(m <= n) => n - m + 1 = 0
    OBVIOUS
  <2> QED
    BY <1>3, <1>4, <2>1
<1>6. \A i \in 1 .. n - m + 1 : q[i] = s[i + m - 1]
  <2>1. \A i \in 1 .. n - m + 1 : m + i - 1 = i + m - 1
    OBVIOUS
  <2> QED
    BY <1>3, <1>4, <2>1
<1>7. q = [i \in 1 .. Len(q) |-> q[i]]
  <2>1. q \in [1 .. Len(q) -> S]
    BY <1>3, <1>4, LenProperties
  <2> HIDE <1>4
  <2> QED
    BY <2>1
<1> QED
  BY <1>4, <1>5, <1>6, <1>7

LEMMA LengthsAreNatural ==
  ASSUME NEW c \in Clients
  PROVE  /\ TextLength[c] \in Nat
         /\ SIG_LENGTH \in Nat \ {0}
         /\ BUFSIZE \in Nat
         /\ RequestLength(c) \in Nat
         /\ RequestLength(c) = TextLength[c] + 1 + SIG_LENGTH
         /\ RequestLength(c) < BUFSIZE
BY IntakeAssumption DEF IntakeAssumption, RequestLength

\* The parts of a request.
LEMMA TextIs ==
  ASSUME NEW c \in Clients
  PROVE  Text(c) = [k \in 1 .. TextLength[c] |-> <<c, k>>]
<1>1. \A k \in 1 .. TextLength[c] : Request(c)[k] = <<c, k>>
  BY LengthsAreNatural DEF Request
<1>2. SubSeq(Request(c), 1, TextLength[c]) = [k \in 1 .. TextLength[c] |-> Request(c)[k]]
  <2>1. PICK n \in Nat : n = TextLength[c]
    BY LengthsAreNatural
  <2>2. SubSeq(Request(c), 1, n) = [k \in 1 .. n - 1 + 1 |-> Request(c)[k + 1 - 1]]
    BY <2>1, SubSeqIs
  <2>3. n - 1 + 1 = n /\ \A k \in 1 .. n : k + 1 - 1 = k
    BY <2>1
  <2> QED
    BY <2>1, <2>2, <2>3
<1> QED
  BY <1>1, <1>2 DEF Text

LEMMA SignatureIs ==
  ASSUME NEW c \in Clients
  PROVE  Signature(c) = [k \in 1 .. SIG_LENGTH |-> <<c, k + TextLength[c] + 1>>]
<1> DEFINE m == TextLength[c] + 2
           n == RequestLength(c)
<1>1. /\ m \in Nat /\ n \in Nat /\ n - m + 1 = SIG_LENGTH /\ SIG_LENGTH \in Nat
      /\ \A k \in 1 .. SIG_LENGTH : /\ k + m - 1 \in 1 .. n
                                    /\ k + m - 1 = k + TextLength[c] + 1
  BY LengthsAreNatural
<1>2. \A k \in 1 .. SIG_LENGTH : Request(c)[k + m - 1] = <<c, k + TextLength[c] + 1>>
  BY <1>1 DEF Request
<1>3. Signature(c) = [k \in 1 .. SIG_LENGTH |-> Request(c)[k + m - 1]]
  <2>1. Signature(c) = SubSeq(Request(c), m, n)
    BY DEF Signature
  <2>2. m <= n + 1
    BY <1>1
  <2> HIDE DEF m, n
  <2>3. Signature(c) = [k \in 1 .. n - m + 1 |-> Request(c)[k + m - 1]]
    BY <1>1, <2>1, <2>2, SubSeqIs
  <2> QED
    BY <1>1, <2>3
<1> QED
  BY <1>2, <1>3

\* The first segments of a request, and more of them.
LEMMA BytesInBounds ==
  ASSUME NEW c \in Clients, NEW n \in 0 .. Len(Cuts[c])
  PROVE  /\ BytesIn(c, n) \in 0 .. RequestLength(c)
         /\ n > 0 => BytesIn(c, n) > 0
<1>1. /\ Cuts[c] \in Seq(Nat \ {0}) /\ Len(Cuts[c]) \in Nat
      /\ Cuts[c][Len(Cuts[c])] = RequestLength(c)
  BY CutsAssumption DEF CutsAssumption
<1>2. CASE n = 0
  BY <1>2, LengthsAreNatural DEF BytesIn
<1>3. CASE n > 0
  <2>1. n \in 1 .. Len(Cuts[c]) /\ Len(Cuts[c]) \in 1 .. Len(Cuts[c])
    BY <1>1, <1>3
  <2>2. BytesIn(c, n) = Cuts[c][n] /\ Cuts[c][n] \in Nat \ {0}
    BY <1>1, <1>3, <2>1 DEF BytesIn
  <2>3. n = Len(Cuts[c]) \/ Cuts[c][n] < Cuts[c][Len(Cuts[c])]
    <3>1. n = Len(Cuts[c]) \/ n < Len(Cuts[c])
      BY <2>1
    <3> QED
      BY <2>1, <3>1, CutsAssumption DEF CutsAssumption
  <2>4. BytesIn(c, n) <= RequestLength(c)
    BY <1>1, <2>2, <2>3, LengthsAreNatural
  <2> QED
    BY <2>2, <2>4, LengthsAreNatural
<1> QED
  BY <1>2, <1>3

LEMMA BytesInGrows ==
  ASSUME NEW c \in Clients, NEW n \in 0 .. Len(Cuts[c]), NEW m \in 0 .. Len(Cuts[c]), m < n
  PROVE  BytesIn(c, m) < BytesIn(c, n)
<1>1. CASE m = 0
  BY <1>1, BytesInBounds DEF BytesIn
<1>2. CASE m # 0
  <2>1. m \in 1 .. Len(Cuts[c]) /\ n \in 1 .. Len(Cuts[c]) /\ n # 0
    BY <1>2
  <2>2. Cuts[c][m] < Cuts[c][n]
    BY <2>1, CutsAssumption DEF CutsAssumption
  <2> QED
    BY <1>2, <2>1, <2>2 DEF BytesIn
<1> QED
  BY <1>1, <1>2

\* A request that segments first .. last of its client make.
OfSegments(r) == /\ r.text \in Clients
                 /\ r.first \in 1 .. Len(Cuts[r.text])
                 /\ r.last \in r.first .. Len(Cuts[r.text])

\* What is received for it is never empty, and consists of the client's bytes
\* behind those of the segments before.
LEMMA ReceivedIs ==
  ASSUME NEW r, OfSegments(r)
  PROVE  LET from == BytesIn(r.text, r.first - 1)
             to   == BytesIn(r.text, r.last)
         IN /\ from \in Nat /\ to \in Nat /\ from < to /\ to <= RequestLength(r.text)
            /\ r.first # 1 => from > 0
            /\ r.first = 1 => from = 0
            /\ Len(Received(r)) = to - from
            /\ Received(r) = [k \in 1 .. to - from |-> <<r.text, k + from>>]
<1> DEFINE from == BytesIn(r.text, r.first - 1)
           to   == BytesIn(r.text, r.last)
<1>1. PICK c \in Clients : c = r.text
  BY DEF OfSegments
<1>2. /\ Len(Cuts[c]) \in Nat
      /\ r.first - 1 \in 0 .. Len(Cuts[c]) /\ r.last \in 0 .. Len(Cuts[c]) /\ r.first - 1 < r.last
  <2>1. Len(Cuts[c]) \in Nat
    BY CutsAssumption DEF CutsAssumption
  <2> QED
    BY <1>1, <2>1 DEF OfSegments
<1>3. from \in Nat /\ to \in Nat /\ from < to /\ to <= RequestLength(c) /\ RequestLength(c) \in Nat
  BY <1>1, <1>2, BytesInBounds, BytesInGrows, LengthsAreNatural
<1>4. r.first # 1 => from > 0
  BY <1>1, <1>2, BytesInBounds DEF OfSegments
<1>5. r.first = 1 => from = 0
  BY DEF BytesIn
<1> HIDE DEF from, to
<1>6. Received(r) = [k \in 1 .. to - from |-> Request(c)[k + from]]
  <2>1. Received(r) = SubSeq(Request(c), from + 1, to)
    BY <1>1 DEF Received, from, to
  <2>2. from + 1 \in Int /\ to \in Int /\ from + 1 <= to + 1
    BY <1>3
  <2>3. Received(r) = [k \in 1 .. to - (from + 1) + 1 |-> Request(c)[k + (from + 1) - 1]]
    BY <2>1, <2>2, SubSeqIs
  <2>4. to - (from + 1) + 1 = to - from /\ \A k \in 1 .. to - from : k + (from + 1) - 1 = k + from
    BY <1>3
  <2> QED
    BY <2>3, <2>4
<1>7. \A k \in 1 .. to - from : Request(c)[k + from] = <<c, k + from>>
  <2>1. \A k \in 1 .. to - from : k + from \in 1 .. RequestLength(c)
    BY <1>3
  <2> QED
    BY <2>1 DEF Request
<1>8. Received(r) = [k \in 1 .. to - from |-> <<c, k + from>>]
  BY <1>6, <1>7
<1>9. to - from \in Nat
  BY <1>3
<1>10. Len(Received(r)) = to - from
  BY <1>8, <1>9
<1> QED
  BY <1>1, <1>3, <1>4, <1>5, <1>8, <1>10 DEF from, to

-----------------------------------------------------------------------------
(***************************************************************************)
(* What the constructor makes of a buffer.                                 *)
(***************************************************************************)
Bytes    == {NUL, Other} \cup (Clients \X (Nat \ {0}))
Contents == [1 .. BUFSIZE -> Bytes]

\* The buffer and the object of r are what separateSig makes of the bytes
\* received for r over some older contents, in which of r's client there are
\* only bytes that precede those of r.
Made(r) ==
  \E old \in Contents :
    /\ old[BUFSIZE] = NUL
    /\ \A i \in 1 .. BUFSIZE : \A k \in Nat :
         old[i] = <<r.text, k>> => k <= BytesIn(r.text, r.first - 1)
    /\ LET bytes == Received(r)
           over  == [k \in 1 .. BUFSIZE |-> IF k <= Len(bytes) THEN bytes[k] ELSE old[k]]
           made  == separateSig(object[r].buffer, over, Len(bytes))
       IN memory[object[r].buffer] = made.bytes /\ object[r] = made.object

\* The bytes of clients are no zeros.
LEMMA NoByteIsNul == \A k \in Nat : \A c \in Clients : k > 0 => <<c, k>> # NUL
BY DEF NUL

\* A string of length bytes over which r was received; the longer ones are cut.
CutFrom(r, over, length) ==
  /\ over \in Contents
  /\ over[BUFSIZE] = NUL
  /\ IsEnd(over, 1, length + 1)
  /\ Len(Received(r)) <= length
  /\ \A k \in 1 .. Len(Received(r)) : over[k] = Received(r)[k]
  /\ \A i \in Len(Received(r)) + 1 .. BUFSIZE : \A k \in Nat :
       over[i] = <<r.text, k>> => k <= BytesIn(r.text, r.first - 1)
  /\ \/ /\ length > SIG_LENGTH
        /\ memory[object[r].buffer] = [over EXCEPT ![length - SIG_LENGTH] = NUL]
        /\ object[r].signature = length - SIG_LENGTH + 1
        /\ object[r].numBytes = length - SIG_LENGTH - 1
     \/ /\ length <= SIG_LENGTH
        /\ memory[object[r].buffer] = over
        /\ object[r].signature = None
        /\ object[r].numBytes = Len(Received(r))

LEMMA MadeIsCut ==
  ASSUME NEW r, OfSegments(r), Made(r)
  PROVE  \E over \in Contents : \E length \in 0 .. BUFSIZE - 1 : CutFrom(r, over, length)
<1>1. PICK c \in Clients : c = r.text
  BY DEF OfSegments
<1>2. PICK from \in Nat : from = BytesIn(r.text, r.first - 1)
  BY ReceivedIs
<1>3. PICK n \in Nat : n = Len(Received(r))
  BY ReceivedIs
<1>4. /\ n > 0 /\ n < BUFSIZE /\ BUFSIZE \in Nat
      /\ \A k \in 1 .. n : Received(r)[k] = <<c, k + from>>
  <2>1. PICK to \in Nat : to = BytesIn(r.text, r.last)
    BY ReceivedIs
  <2>2. from < to /\ to <= RequestLength(c) /\ n = to - from
    BY <1>1, <1>2, <1>3, <2>1, ReceivedIs
  <2>3. \A k \in 1 .. n : Received(r)[k] = <<c, k + from>>
    BY <1>1, <1>2, <2>1, <2>2, ReceivedIs
  <2> QED
    BY <2>2, <2>3, LengthsAreNatural
<1>5. PICK old \in Contents :
        /\ old[BUFSIZE] = NUL
        /\ \A i \in 1 .. BUFSIZE : \A k \in Nat : old[i] = <<r.text, k>> => k <= from
        /\ LET bytes == Received(r)
               over  == [k \in 1 .. BUFSIZE |-> IF k <= Len(bytes) THEN bytes[k] ELSE old[k]]
               made  == separateSig(object[r].buffer, over, Len(bytes))
           IN memory[object[r].buffer] = made.bytes /\ object[r] = made.object
  BY <1>2 DEF Made
<1>6. PICK over : over = [k \in 1 .. BUFSIZE |-> IF k <= n THEN Received(r)[k] ELSE old[k]]
  OBVIOUS
<1>7. /\ memory[object[r].buffer] = separateSig(object[r].buffer, over, n).bytes
      /\ object[r] = separateSig(object[r].buffer, over, n).object
  BY <1>3, <1>5, <1>6
<1>8. /\ over \in Contents
      /\ over[BUFSIZE] = NUL
      /\ \A k \in 1 .. n : over[k] = Received(r)[k]
      /\ \A i \in n + 1 .. BUFSIZE : over[i] = old[i]
  <2>1. \A k \in 1 .. n : k + from \in Nat \ {0} /\ <<c, k + from>> \in Bytes
    BY <1>1, <1>2, <1>3 DEF Bytes
  <2>2. \A k \in 1 .. BUFSIZE : k <= n => k \in 1 .. n
    BY <1>3
  <2>3. \A k \in 1 .. BUFSIZE : old[k] \in Bytes
    BY <1>5 DEF Contents
  <2>4. over \in Contents
    BY <1>4, <1>6, <2>1, <2>2, <2>3 DEF Contents
  <2>5. BUFSIZE \in 1 .. BUFSIZE /\ ~(BUFSIZE <= n)
    BY <1>3, <1>4
  <2>6. \A k \in 1 .. n : k \in 1 .. BUFSIZE /\ k <= n
    BY <1>3, <1>4
  <2>7. \A i \in n + 1 .. BUFSIZE : i \in 1 .. BUFSIZE /\ ~(i <= n)
    BY <1>3, <1>4
  <2> QED
    BY <1>5, <1>6, <2>4, <2>5, <2>6, <2>7
<1>9. PICK end \in 1 .. BUFSIZE : IsEnd(over, 1, end)
  BY <1>4, <1>8, HasEnd
<1>10. PICK length \in 0 .. BUFSIZE - 1 : length = end - 1 /\ end = length + 1
  BY <1>4, <1>9
<1>11. strlen(over, 1) = length
  BY <1>4, <1>9, <1>10, StrlenIs
<1>12. n <= length
  <2>1. \A k \in 1 .. n : over[k] # NUL
    <3>1. \A k \in 1 .. n : k + from \in Nat /\ k + from > 0
      BY <1>2, <1>3
    <3>2. \A k \in 1 .. n : over[k] = <<c, k + from>>
      BY <1>4, <1>8
    <3> QED
      BY <3>1, <3>2, NoByteIsNul
  <2>2. over[end] = NUL /\ end \in Nat /\ end >= 1
    BY <1>4, <1>9 DEF IsEnd
  <2>3. ~(end \in 1 .. n)
    BY <2>1, <2>2
  <2> QED
    BY <1>3, <1>10, <2>2, <2>3
<1>13. \A i \in n + 1 .. BUFSIZE : \A k \in Nat : over[i] = <<r.text, k>> => k <= from
  <2>1. \A i \in n + 1 .. BUFSIZE : i \in 1 .. BUFSIZE
    BY <1>3
  <2> QED
    BY <1>5, <1>8, <2>1
<1>16. IsEnd(over, 1, length + 1)
  BY <1>9, <1>10
<1>14. CASE length > SIG_LENGTH
  <2>1. separateSig(object[r].buffer, over, n)
          = [bytes  |-> [over EXCEPT ![length - SIG_LENGTH] = NUL],
             object |-> [buffer |-> object[r].buffer, signature |-> length - SIG_LENGTH + 1,
                         numBytes |-> length - SIG_LENGTH - 1]]
    BY <1>11, <1>14 DEF separateSig
  <2>2. /\ memory[object[r].buffer] = [over EXCEPT ![length - SIG_LENGTH] = NUL]
        /\ object[r].signature = length - SIG_LENGTH + 1
        /\ object[r].numBytes = length - SIG_LENGTH - 1
    BY <1>7, <2>1
  <2>3. CutFrom(r, over, length)
    BY <1>2, <1>3, <1>8, <1>12, <1>13, <1>14, <1>16, <2>2 DEF CutFrom
  <2> QED
    BY <1>8, <2>3
<1>15. CASE ~(length > SIG_LENGTH)
  <2>1. separateSig(object[r].buffer, over, n)
          = [bytes  |-> over,
             object |-> [buffer |-> object[r].buffer, signature |-> None, numBytes |-> n]]
    BY <1>11, <1>15 DEF separateSig
  <2>2. /\ memory[object[r].buffer] = over
        /\ object[r].signature = None
        /\ object[r].numBytes = n
    BY <1>7, <2>1
  <2>3. length <= SIG_LENGTH
    BY <1>1, <1>10, <1>15, LengthsAreNatural
  <2>4. CutFrom(r, over, length)
    BY <1>2, <1>3, <1>8, <1>12, <1>13, <1>16, <2>2, <2>3 DEF CutFrom
  <2> QED
    BY <1>8, <2>4
<1> QED
  BY <1>14, <1>15

\* The string that is left of it for the text.
LEMMA CutText ==
  ASSUME NEW r, OfSegments(r), NEW over, NEW length \in 0 .. BUFSIZE - 1,
         CutFrom(r, over, length)
  PROVE  strlen(memory[object[r].buffer], 1)
           = IF length > SIG_LENGTH THEN length - SIG_LENGTH - 1 ELSE length
<1>1. PICK c \in Clients : c = r.text
  BY DEF OfSegments
<1>2. BUFSIZE \in Nat /\ SIG_LENGTH \in Nat \ {0} /\ length \in Nat
  BY <1>1, LengthsAreNatural
<1>3. PICK m : m = memory[object[r].buffer]
  OBVIOUS
<1>4. CASE length > SIG_LENGTH
  <2>1. PICK end \in Nat : end = length - SIG_LENGTH /\ end \in 1 .. BUFSIZE /\ end <= length
    BY <1>2, <1>4
  <2>2. m = [over EXCEPT ![end] = NUL] /\ over \in [1 .. BUFSIZE -> Bytes]
    BY <1>2, <1>3, <1>4, <2>1 DEF CutFrom, Contents
  <2>3. m[end] = NUL
    BY <2>1, <2>2
  <2>4. \A i \in 1 .. end - 1 : m[i] # NUL
    <3>1. \A i \in 1 .. end - 1 : i \in 1 .. length + 1 - 1 /\ i # end /\ i \in 1 .. BUFSIZE
      BY <1>2, <2>1
    <3>2. \A i \in 1 .. length + 1 - 1 : over[i] # NUL
      BY DEF CutFrom, IsEnd
    <3> QED
      BY <2>2, <3>1, <3>2
  <2>5. strlen(m, 1) = end - 1
    BY <2>1, <2>3, <2>4, StrlenIs DEF IsEnd
  <2> QED
    BY <1>2, <1>3, <1>4, <2>1, <2>5
<1>5. CASE ~(length > SIG_LENGTH)
  <2>1. m = over /\ IsEnd(m, 1, length + 1)
    BY <1>2, <1>3, <1>5 DEF CutFrom
  <2>2. length + 1 \in 1 .. BUFSIZE /\ length + 1 - 1 = length
    BY <1>2
  <2>3. strlen(m, 1) = length
    BY <2>1, <2>2, StrlenIs
  <2> QED
    BY <1>3, <1>5, <2>3
<1> QED
  BY <1>4, <1>5

LEMMA CStringIs ==
  ASSUME NEW bytes, NEW from \in Nat \ {0}, NEW t \in Nat, strlen(bytes, from) = t
  PROVE  CString(bytes, from) = [k \in 1 .. t |-> bytes[k + from - 1]]
<1>1. from + t - 1 \in Int /\ from \in Int /\ from <= from + t - 1 + 1
      /\ from + t - 1 - from + 1 = t
  OBVIOUS
<1>2. CString(bytes, from) = SubSeq(bytes, from, from + t - 1)
  BY DEF CString
<1>3. PICK n \in Int : n = from + t - 1
  BY <1>1
<1>4. SubSeq(bytes, from, n) = [k \in 1 .. n - from + 1 |-> bytes[k + from - 1]]
  BY <1>1, <1>3, SubSeqIs
<1> QED
  BY <1>1, <1>2, <1>3, <1>4

\* Functions on intervals from 1 are of one length if they are equal.
LEMMA SameLength ==
  ASSUME NEW m \in Nat, NEW n \in Nat, 1 .. m = 1 .. n
  PROVE  m = n
<1>1. m < n => n \notin 1 .. m /\ n \in 1 .. n
  OBVIOUS
<1>2. n < m => m \notin 1 .. n /\ m \in 1 .. m
  OBVIOUS
<1> QED
  BY <1>1, <1>2

(***************************************************************************)
(* If what the primary takes for the text of a request is some client's    *)
(* text, then it is what run() would send; and if that text is not empty,  *)
(* the request begins where the client's request begins.                   *)
(***************************************************************************)
LEMMA TextIsReply ==
  ASSUME NEW r, OfSegments(r), Made(r), NEW x \in Clients, TextOf(r) = Text(x)
  PROVE  /\ Reply(r) = Text(x)
         /\ object[r].numBytes = TextLength[x]
         /\ TextLength[x] # 0 => r.first = 1
<1>1. PICK c \in Clients : c = r.text
  BY DEF OfSegments
<1>2. PICK over \in Contents : \E length \in 0 .. BUFSIZE - 1 : CutFrom(r, over, length)
  BY MadeIsCut
<1>3. PICK length \in 0 .. BUFSIZE - 1 : CutFrom(r, over, length)
  BY <1>2
<1>4. /\ BUFSIZE \in Nat /\ SIG_LENGTH \in Nat \ {0} /\ length \in Nat
      /\ TextLength[x] \in Nat /\ TextLength[x] < BUFSIZE
  BY LengthsAreNatural, <1>3
<1>5. PICK from \in Nat : from = BytesIn(r.text, r.first - 1)
  BY ReceivedIs
<1>6. PICK n \in Nat : n = Len(Received(r))
  BY ReceivedIs
<1>7. /\ n > 0 /\ n <= length /\ n < BUFSIZE
      /\ \A k \in 1 .. n : over[k] = <<c, k + from>>
      /\ r.first = 1 <=> from = 0
  <2>1. PICK to \in Nat : to = BytesIn(r.text, r.last)
    BY ReceivedIs
  <2>2. from < to /\ to <= RequestLength(c) /\ n = to - from
    BY <1>1, <1>5, <1>6, <2>1, ReceivedIs
  <2>3. \A k \in 1 .. n : Received(r)[k] = <<c, k + from>>
    BY <1>1, <1>5, <2>1, <2>2, ReceivedIs
  <2>4. r.first = 1 <=> from = 0
    BY <1>5, ReceivedIs
  <2>5. n <= length /\ \A k \in 1 .. n : over[k] = Received(r)[k]
    BY <1>3, <1>6 DEF CutFrom
  <2> QED
    BY <2>2, <2>3, <2>4, <2>5, LengthsAreNatural
<1>8. PICK m : m = memory[object[r].buffer]
  OBVIOUS
<1>9. PICK t \in Nat : t = TextLength[x]
  BY <1>4
<1>10. Text(x) = [k \in 1 .. t |-> <<x, k>>]
  BY <1>9, TextIs
<1>11. strlen(m, 1) = (IF length > SIG_LENGTH THEN length - SIG_LENGTH - 1 ELSE length)
  BY <1>3, <1>8, CutText
<1>12. PICK s \in Nat : s = strlen(m, 1)
  BY <1>4, <1>11
<1>13. TextOf(r) = [k \in 1 .. s |-> m[k]]
  <2>1. TextOf(r) = CString(m, 1)
    BY <1>8 DEF TextOf
  <2>2. CString(m, 1) = [k \in 1 .. s |-> m[k + 1 - 1]]
    BY <1>12, CStringIs
  <2>3. \A k \in 1 .. s : k + 1 - 1 = k
    OBVIOUS
  <2> QED
    BY <2>1, <2>2, <2>3
<1>14. s = t /\ \A k \in 1 .. t : m[k] = <<x, k>>
  <2>1. [k \in 1 .. s |-> m[k]] = [k \in 1 .. t |-> <<x, k>>]
    BY <1>10, <1>13
  <2>2. 1 .. s = 1 .. t
    BY <2>1
  <2>3. s = t
    BY <2>2, SameLength
  <2> QED
    BY <2>1, <2>3
<1>15. t # 0 => x = c /\ from = 0
  <2> SUFFICES ASSUME t # 0 PROVE x = c /\ from = 0
    OBVIOUS
  <2>1. m[1] = <<x, 1>>
    BY <1>9, <1>14
  <2>2. m[1] = over[1]
    <3>1. CASE length > SIG_LENGTH
      <4>1. length - SIG_LENGTH # 1
        BY <1>4, <1>9, <1>11, <1>12, <1>14, <3>1
      <4>2. m = [over EXCEPT ![length - SIG_LENGTH] = NUL]
        BY <1>3, <1>4, <1>8, <3>1 DEF CutFrom
      <4>3. over \in [1 .. BUFSIZE -> Bytes] /\ 1 \in 1 .. BUFSIZE
        BY <1>4, <1>7, <1>6 DEF Contents
      <4> QED
        BY <4>1, <4>2, <4>3
    <3>2. CASE ~(length > SIG_LENGTH)
      BY <1>3, <1>4, <1>8, <3>2 DEF CutFrom
    <3> QED
      BY <3>1, <3>2
  <2>3. over[1] = <<c, 1 + from>>
    BY <1>6, <1>7
  <2>4. <<x, 1>> = <<c, 1 + from>>
    BY <2>1, <2>2, <2>3
  <2> QED
    BY <1>5, <2>4
<1>16. Reply(r) = Text(x) /\ object[r].numBytes = t
  <2>1. object[r].numBytes = t
    <3>1. CASE length > SIG_LENGTH
      BY <1>3, <1>4, <1>11, <1>12, <1>14, <3>1 DEF CutFrom
    <3>2. CASE ~(length > SIG_LENGTH)
      <4>1. m = over /\ object[r].numBytes = n /\ s = length /\ IsEnd(over, 1, length + 1)
        BY <1>3, <1>4, <1>6, <1>8, <1>11, <1>12, <3>2 DEF CutFrom
      <4>2. n <= t /\ t # 0
        BY <1>4, <1>6, <1>7, <1>9, <1>14, <4>1
      <4>3. ~(n < t)
        <5> SUFFICES ASSUME n < t PROVE FALSE
          OBVIOUS
        <5>1. n + 1 \in 1 .. t /\ n + 1 \in n + 1 .. BUFSIZE /\ n + 1 \in Nat
          BY <1>4, <1>6, <1>9
        <5>2. over[n + 1] = <<c, n + 1>>
          BY <1>14, <1>15, <4>1, <4>2, <5>1
        <5>3. n + 1 <= from
          BY <1>1, <1>3, <1>5, <1>6, <5>1, <5>2 DEF CutFrom
        <5> QED
          BY <1>6, <1>15, <4>2, <5>3
      <4> QED
        BY <1>6, <1>9, <4>1, <4>2, <4>3
    <3> QED
      BY <3>1, <3>2
  <2>2. Reply(r) = SubSeq(m, 1, t)
    BY <1>8, <2>1 DEF Reply
  <2>3. SubSeq(m, 1, t) = [k \in 1 .. t - 1 + 1 |-> m[k + 1 - 1]]
    BY SubSeqIs
  <2>4. t - 1 + 1 = t /\ \A k \in 1 .. t : k + 1 - 1 = k
    BY <1>9
  <2> QED
    BY <1>10, <1>14, <2>1, <2>2, <2>3, <2>4
<1> QED
  BY <1>7, <1>9, <1>15, <1>16

(***************************************************************************)
(* A request received whole, with a zero behind it that was there before,  *)
(* is cut where its client joined text and signature.                      *)
(***************************************************************************)
LEMMA WholeIsCut ==
  ASSUME NEW r, OfSegments(r), Made(r), Received(r) = Request(r.text), Terminated(r)
  PROVE  TextOf(r) = Text(r.text) /\ getSignature(r) = Signature(r.text)
<1>1. PICK c \in Clients : c = r.text
  BY DEF OfSegments
<1>2. PICK over \in Contents : \E length \in 0 .. BUFSIZE - 1 : CutFrom(r, over, length)
  BY MadeIsCut
<1>3. PICK length \in 0 .. BUFSIZE - 1 : CutFrom(r, over, length)
  BY <1>2
<1>4. PICK t \in Nat : t = TextLength[c]
  BY LengthsAreNatural
<1>5. PICK S \in Nat \ {0} : S = SIG_LENGTH
  BY LengthsAreNatural
<1>6. PICK n \in Nat : n = RequestLength(c) /\ n = t + 1 + S
  BY <1>4, <1>5, LengthsAreNatural
<1>7. BUFSIZE \in Nat /\ length \in Nat /\ n < BUFSIZE
  <2>1. BUFSIZE \in Nat /\ RequestLength(c) < BUFSIZE
    BY LengthsAreNatural
  <2> QED
    BY <1>6, <2>1
<1>8. Len(Received(r)) = n /\ \A k \in 1 .. n : Received(r)[k] = <<c, k>>
  <2>1. Received(r) = [k \in 1 .. n |-> <<c, k>>]
    BY <1>1, <1>6 DEF Request
  <2> QED
    BY <2>1, <1>6
<1>9. n <= length /\ \A k \in 1 .. n : over[k] = <<c, k>>
  BY <1>3, <1>8 DEF CutFrom
<1>10. length > SIG_LENGTH
  BY <1>5, <1>6, <1>7, <1>9
<1>11. PICK m : m = memory[object[r].buffer]
  OBVIOUS
<1>12. PICK end \in Nat : end = length - S /\ end \in 1 .. BUFSIZE
  <2>1. length - S \in Nat /\ length - S \in 1 .. BUFSIZE
    BY <1>5, <1>7, <1>9, <1>10
  <2> QED
    BY <2>1
<1>13. /\ m = [over EXCEPT ![end] = NUL]
       /\ object[r].signature = end + 1
       /\ over \in [1 .. BUFSIZE -> Bytes]
  <2>1. /\ m = [over EXCEPT ![length - SIG_LENGTH] = NUL]
        /\ object[r].signature = length - SIG_LENGTH + 1
    BY <1>3, <1>5, <1>7, <1>10, <1>11 DEF CutFrom
  <2> QED
    BY <1>2, <1>5, <1>12, <2>1 DEF Contents
<1>14. m[n + 1] = NUL /\ end + 1 # n + 2
  BY <1>1, <1>6, <1>11, <1>13 DEF Terminated
<1>15. over[n + 1] = NUL
  <2>1. n + 1 \in 1 .. BUFSIZE /\ n + 1 # end
    BY <1>6, <1>7, <1>12, <1>14
  <2> QED
    BY <1>13, <1>14, <2>1
<1>16. length = n
  <2>1. \A i \in 1 .. length + 1 - 1 : over[i] # NUL
    BY <1>3 DEF CutFrom, IsEnd
  <2>2. n < length => n + 1 \in 1 .. length + 1 - 1
    BY <1>7
  <2> QED
    BY <1>6, <1>7, <1>9, <1>15, <2>1, <2>2
<1>17. end = t + 1
  BY <1>4, <1>5, <1>6, <1>12, <1>16
<1>18. strlen(m, 1) = t
  BY <1>3, <1>4, <1>5, <1>10, <1>11, <1>12, <1>17, CutText
<1>19. \A k \in 1 .. n : k # end => m[k] = <<c, k>>
  <2>1. \A k \in 1 .. n : k \in 1 .. BUFSIZE
    BY <1>6, <1>7
  <2> QED
    BY <1>9, <1>13, <2>1
<1>20. TextOf(r) = Text(c)
  <2>1. TextOf(r) = CString(m, 1)
    BY <1>11 DEF TextOf
  <2>2. CString(m, 1) = [k \in 1 .. t |-> m[k + 1 - 1]]
    BY <1>18, CStringIs
  <2>3. \A k \in 1 .. t : k + 1 - 1 = k /\ k \in 1 .. n /\ k # end
    BY <1>4, <1>5, <1>6, <1>17
  <2>4. \A k \in 1 .. t : m[k + 1 - 1] = <<c, k>>
    BY <1>19, <2>3
  <2> QED
    BY <1>4, <2>1, <2>2, <2>4, TextIs
<1>21. strlen(m, end + 1) = S
  <2>1. n + 1 \in end + 1 .. BUFSIZE /\ n + 1 - (end + 1) = S /\ end + 1 \in Nat
    <3>1. n = t + 1 + S /\ end = t + 1 /\ n + 1 <= BUFSIZE /\ BUFSIZE \in Nat
      BY <1>6, <1>7, <1>17
    <3> HIDE <1>6
    <3> QED
      BY <3>1
  <2>2. \A i \in end + 1 .. n + 1 - 1 : i \in 1 .. n /\ i # end /\ i \in Nat /\ i > 0
    BY <1>6, <1>12
  <2>3. \A i \in end + 1 .. n + 1 - 1 : m[i] # NUL
    BY <1>19, <2>2, NoByteIsNul
  <2>4. IsEnd(m, end + 1, n + 1)
    BY <1>14, <2>3 DEF IsEnd
  <2> QED
    BY <2>1, <2>4, StrlenIs
<1>22. getSignature(r) = Signature(c)
  <2>1. getSignature(r) = CString(m, end + 1)
    BY <1>11, <1>12, <1>13, NetDeviceAssumption DEF getSignature, NetDeviceAssumption
  <2>2. CString(m, end + 1) = [k \in 1 .. S |-> m[k + (end + 1) - 1]]
    BY <1>5, <1>12, <1>21, CStringIs
  <2>3. \A k \in 1 .. S : /\ k + (end + 1) - 1 = k + t + 1
                          /\ k + t + 1 \in 1 .. n
                          /\ k + t + 1 # end
    BY <1>4, <1>5, <1>6, <1>17
  <2>4. \A k \in 1 .. S : m[k + (end + 1) - 1] = <<c, k + t + 1>>
    BY <1>19, <2>3
  <2>5. Signature(c) = [k \in 1 .. S |-> <<c, k + t + 1>>]
    BY <1>4, <1>5, SignatureIs
  <2> QED
    BY <2>1, <2>2, <2>4, <2>5
<1> QED
  BY <1>1, <1>20, <1>22

\* A signature file written from what was cut is read as the signature.
LEMMA SignatureDecoded ==
  ASSUME NEW c \in Clients
  PROVE  HexDecoder(Signature(c)) = Signature(c) /\ Len(Signature(c)) = SIG_LENGTH
<1>1. PICK t \in Nat : t = TextLength[c]
  BY LengthsAreNatural
<1>2. PICK S \in Nat : S = SIG_LENGTH
  BY LengthsAreNatural
<1>3. PICK q : q = Signature(c)
  OBVIOUS
<1>4. q = [k \in 1 .. S |-> <<c, k + t + 1>>]
  BY <1>1, <1>2, <1>3, SignatureIs
<1>5. \A k \in 1 .. S : <<c, k + t + 1>> \in Clients \X Nat
  BY <1>1, <1>2
<1>6. q \in Seq(Clients \X Nat) /\ Len(q) = S
  BY <1>2, <1>4, <1>5
<1>7. \A k \in 1 .. Len(q) : IsHexDigit(q[k])
  <2> TAKE k \in 1 .. Len(q)
  <2>1. q[k] = <<c, k + t + 1>> /\ k \in Nat /\ k > 0
    BY <1>2, <1>4, <1>6
  <2>2. q[k][1] = c /\ q[k][2] = k + t + 1
    BY <2>1
  <2>3. k + t + 1 > 0 /\ k + t + 1 > t + 1
    BY <2>1
  <2> QED
    BY <1>1, <2>2, <2>3 DEF IsHexDigit
<1>8. HexDecoder(q) = q
  BY <1>6, <1>7, HexDecoderKeepsDigits
<1> QED
  BY <1>2, <1>3, <1>6, <1>8

-----------------------------------------------------------------------------
(***************************************************************************)
(* The inductive invariant.                                                *)
(***************************************************************************)
\* Buffers hold strings, and of a client only bytes that have been read.
MemoryHolds ==
  /\ memory \in [Buffers -> Contents]
  /\ \A b \in Buffers : memory[b][BUFSIZE] = NUL
  /\ \A b \in Buffers : \A i \in 1 .. BUFSIZE : \A c \in Clients : \A k \in Nat :
       memory[b][i] = <<c, k>> => k <= BytesIn(c, consumed[c])

\* Every request handed over has an object; the buffers of those that have not
\* been answered are theirs alone.
BuffersOwned ==
  /\ used \in 0 .. MaxBuffers
  /\ free \subseteq 1 .. used
  /\ DOMAIN object = handed
  /\ \A r \in handed : object[r].buffer \in 1 .. used
  /\ \A r \in pending : object[r].buffer \notin free
  /\ \A r \in pending : \A q \in pending : object[r].buffer = object[q].buffer => r = q

\* A client's requests are consecutive segments of what it sends.
ReadInOrder ==
  /\ \A c \in Clients : arrived[c] <= Len(Cuts[c])
  /\ \A r \in handed : r.first <= r.last /\ r.last <= consumed[r.text]
  /\ \A r \in handed : \A q \in handed : r.text = q.text /\ r.first = 1 /\ q.first = 1 => r = q

\* What the primary has looked at or will look at was handed over.
PrimarySees ==
  /\ queued \in Seq(handed)
  /\ accepted \subseteq handed
  /\ DOMAIN checking = Handlers
  /\ \A h \in Handlers : checking[h] # None => checking[h] \in [netReq : handed, file : FileNames]
  /\ DOMAIN sigFile = FileNames

\* As long as a request is not answered its buffer is as it was made.
MadeFromRead == \A r \in pending : Made(r)

\* The text of an accepted request is one its key's owner signed.
AcceptedVerified ==
  \A r \in pending \cap accepted :
    \E c \in Clients : PrivateKey[c] = getKeyFileName(r.srcAddr) /\ TextOf(r) = Text(c)

\* So is the text the primary copied for the replicas.
CopiesVerified ==
  /\ DOMAIN copied = accepted
  /\ \A r \in accepted :
       \E c \in Clients : PrivateKey[c] = getKeyFileName(r.srcAddr) /\ copied[r] = Text(c)

IntakeInv == /\ MemoryHolds
             /\ BuffersOwned
             /\ ReadInOrder
             /\ PrimarySees
             /\ MadeFromRead
             /\ AcceptedVerified
             /\ CopiesVerified
             /\ AnswerWasVerified

LEMMA IntakeInvInit == ASSUME IntakeInit PROVE IntakeInv
<1>1. MaxBuffers \in Nat /\ BUFSIZE \in 1 .. BUFSIZE
  BY IntakeAssumption DEF IntakeAssumption
<1>2. handed = {} /\ pending = {} /\ \A c \in Clients : arrived[c] = 0 /\ consumed[c] = 0
  BY DEF IntakeInit, Init
<1>3. MemoryHolds
  <2>1. memory \in [Buffers -> [1 .. BUFSIZE -> {NUL, Other}]]
    BY FreshAssumption DEF IntakeInit, FreshAssumption
  <2>2. memory \in [Buffers -> Contents]
    BY <2>1 DEF Bytes, Contents
  <2>3. \A b \in Buffers : memory[b][BUFSIZE] = NUL
    BY FreshAssumption DEF IntakeInit, FreshAssumption
  <2>4. \A c \in Clients : \A k \in Nat :
          /\ NUL = <<c, k>> => k <= BytesIn(c, consumed[c])
          /\ Other # <<c, k>>
    BY <1>2 DEF NUL, Other, BytesIn
  <2>5. \A b \in Buffers : \A i \in 1 .. BUFSIZE : memory[b][i] \in {NUL, Other}
    BY <2>1
  <2> QED
    BY <2>2, <2>3, <2>4, <2>5 DEF MemoryHolds
<1>4. BuffersOwned
  BY <1>1, <1>2 DEF IntakeInit, BuffersOwned
<1>5. ReadInOrder
  <2>1. \A c \in Clients : Len(Cuts[c]) >= 0
    BY CutsAssumption DEF CutsAssumption
  <2> QED
    BY <1>2, <2>1 DEF ReadInOrder
<1>6. PrimarySees
  BY <1>2 DEF IntakeInit, PrimarySees
<1>7. MadeFromRead /\ AcceptedVerified
  BY <1>2 DEF MadeFromRead, AcceptedVerified
<1>8. CopiesVerified /\ AnswerWasVerified
  BY DEF IntakeInit, CopiesVerified, AnswerWasVerified
<1> QED
  BY <1>8, <1>3, <1>4, <1>5, <1>6, <1>7 DEF IntakeInv

-----------------------------------------------------------------------------
(***************************************************************************)
(* What a step leaves alone.                                               *)
(***************************************************************************)
\* A request that was handed over is made of segments of its client's.
LEMMA HandedOfSegments ==
  ASSUME DeviceInv, ReadInOrder, NEW r \in handed
  PROVE  OfSegments(r) /\ r \in NetRequests
<1>1. r \in NetRequests
  BY DEF DeviceInv, TypeOK
<1>2. PICK c \in Clients : c = r.text
  BY <1>1 DEF NetRequests
<1>3. r.first \in 1 .. Segments /\ r.last \in 1 .. Segments /\ Segments \in Nat
  BY <1>1, DescriptorNotNone DEF NetRequests
<1>4. /\ consumed[c] \in 0 .. arrived[c] /\ arrived[c] \in Nat /\ Len(Cuts[c]) \in Nat
      /\ arrived[c] <= Len(Cuts[c])
  BY CutsAssumption DEF CutsAssumption, DeviceInv, TypeOK, ReadInOrder
<1>5. r.first <= r.last /\ r.last <= consumed[c]
  BY <1>2 DEF ReadInOrder
<1>6. r.first \in 1 .. Len(Cuts[c]) /\ r.last \in r.first .. Len(Cuts[c])
  BY <1>3, <1>4, <1>5
<1> QED
  BY <1>1, <1>2, <1>6 DEF OfSegments

\* What is said of a request whose buffer and object are left alone.
LEMMA MadeStays ==
  ASSUME NEW r, object'[r] = object[r], memory'[object[r].buffer] = memory[object[r].buffer]
  PROVE  /\ Made(r) => Made(r)'
         /\ TextOf(r)' = TextOf(r)
         /\ getSignature(r)' = getSignature(r)
         /\ Reply(r)' = Reply(r)
<1>1. Made(r) => Made(r)'
  BY DEF Made
<1>2. TextOf(r)' = TextOf(r) /\ getSignature(r)' = getSignature(r) /\ Reply(r)' = Reply(r)
  BY DEF TextOf, getSignature, Reply
<1> QED
  BY <1>1, <1>2

\* More may be read of a client than was.
ReadsOn == \A c \in Clients : /\ consumed[c] \in Nat /\ consumed'[c] \in Nat
                              /\ consumed[c] <= consumed'[c]
                              /\ consumed'[c] <= Len(Cuts[c])

\* Bytes that had been read have been read.
LEMMA ReadBytesGrow ==
  ASSUME ReadsOn, NEW c \in Clients
  PROVE  /\ BytesIn(c, consumed[c]) \in Nat
         /\ BytesIn(c, consumed'[c]) \in Nat
         /\ BytesIn(c, consumed[c]) <= BytesIn(c, consumed'[c])
<1>1. PICK m \in Nat : m = consumed[c]
  BY DEF ReadsOn
<1>2. PICK n \in Nat : n = consumed'[c]
  BY DEF ReadsOn
<1>3. m <= n /\ n <= Len(Cuts[c]) /\ Len(Cuts[c]) \in Nat
  BY <1>1, <1>2, CutsAssumption DEF ReadsOn, CutsAssumption
<1>4. m \in 0 .. Len(Cuts[c]) /\ n \in 0 .. Len(Cuts[c])
  BY <1>3
<1>5. BytesIn(c, m) \in Nat /\ BytesIn(c, n) \in Nat
  BY <1>4, BytesInBounds, LengthsAreNatural
<1>6. BytesIn(c, m) <= BytesIn(c, n)
  BY <1>3, <1>4, <1>5, BytesInGrows
<1> QED
  BY <1>1, <1>2, <1>5, <1>6

LEMMA MemoryStays ==
  ASSUME MemoryHolds, ReadsOn, memory' = memory
  PROVE  MemoryHolds'
<1>1. \A b \in Buffers : \A i \in 1 .. BUFSIZE : \A c \in Clients : \A k \in Nat :
        memory[b][i] = <<c, k>> => k <= BytesIn(c, consumed'[c])
  BY ReadBytesGrow DEF MemoryHolds
<1> QED
  BY <1>1 DEF MemoryHolds

\* What was copied and sent stays as it was verified.
LEMMA VerifiedStays ==
  ASSUME CopiesVerified, AnswerWasVerified, UNCHANGED <<accepted, copied, sent>>
  PROVE  CopiesVerified' /\ AnswerWasVerified'
BY DEF CopiesVerified, AnswerWasVerified

\* The device's own steps and the clients'.
LEMMA DeviceKeepsIntake ==
  ASSUME IntakeInv, ReadsOn, UNCHANGED intakeVars, pending' = pending, handed' = handed,
         \A c \in Clients : arrived'[c] <= Len(Cuts[c]),
         \A r \in handed : r.text \in Clients /\ r.last \in Nat
  PROVE  IntakeInv'
<1>1. UNCHANGED <<memory, used, free, object, queued, accepted, copied, checking,
                  sigFile, sent>>
  BY DEF intakeVars
<1>2. MemoryHolds'
  BY <1>1, MemoryStays DEF IntakeInv
<1>3. BuffersOwned' /\ PrimarySees'
  BY <1>1 DEF IntakeInv, BuffersOwned, PrimarySees
<1>4. ReadInOrder'
  <2>1. \A r \in handed : r.first <= r.last /\ r.last <= consumed'[r.text]
    BY DEF IntakeInv, ReadInOrder, ReadsOn
  <2> QED
    BY <2>1 DEF IntakeInv, ReadInOrder
<1>5. MadeFromRead'
  BY <1>1, MadeStays DEF IntakeInv, MadeFromRead
<1>6. AcceptedVerified'
  BY <1>1, MadeStays DEF IntakeInv, AcceptedVerified
<1>7. CopiesVerified' /\ AnswerWasVerified'
  BY <1>1, VerifiedStays DEF IntakeInv
<1> QED
  BY <1>2, <1>3, <1>4, <1>5, <1>6, <1>7 DEF IntakeInv

-----------------------------------------------------------------------------
(***************************************************************************)
(* The steps.                                                              *)
(***************************************************************************)
\* recvfrom takes all that has arrived, or nothing.
LEMMA RecvReads ==
  ASSUME DeviceInv, Recv
  PROVE  /\ arrived' = arrived
         /\ \A c \in Clients : consumed'[c] \in {consumed[c], arrived[c]}
<1>1. CASE \E c \in Owner(fd) : RecvData(c) \/ RecvEOF(c) \/ RecvError(c)
  <2>1. PICK c \in Owner(fd) : RecvData(c) \/ RecvEOF(c) \/ RecvError(c)
    BY <1>1
  <2>2. c \in Clients /\ consumed \in [Clients -> 0 .. Segments]
    BY DEF Owner, DeviceInv, ReadIsCounted
  <2>3. /\ consumed' = consumed \/ consumed' = [consumed EXCEPT ![c] = arrived[c]]
        /\ arrived' = arrived
    BY <2>1 DEF RecvData, RecvEOF, RecvError, clientVars
  <2> QED
    BY <2>2, <2>3
<1>2. CASE UNCHANGED <<openSet, sock, pending, handed, consumed, clientVars>>
  BY <1>2 DEF clientVars
<1> QED
  BY <1>1, <1>2 DEF Recv

\* What is read and what arrives stays within what is sent.
LEMMA StepReadsOn ==
  ASSUME DeviceInv, ReadInOrder, [IntakeNext]_<<vars, intakeVars>>
  PROVE  ReadsOn /\ \A c \in Clients : arrived'[c] <= Len(Cuts[c])
<1>1. \A c \in Clients : /\ Len(Cuts[c]) \in Nat
                         /\ arrived[c] \in Nat /\ arrived[c] <= Len(Cuts[c])
                         /\ consumed[c] \in Nat /\ consumed[c] <= arrived[c]
  <2> TAKE c \in Clients
  <2>1. arrived[c] \in 0 .. Segments /\ consumed[c] \in 0 .. arrived[c] /\ Segments \in Nat
    BY DescriptorNotNone DEF DeviceInv, TypeOK
  <2>2. Len(Cuts[c]) \in Nat
    BY CutsAssumption DEF CutsAssumption
  <2> QED
    BY <2>1, <2>2 DEF ReadInOrder
<1>2. CASE Receive
  <2>1. arrived' = arrived /\ \A c \in Clients : consumed'[c] \in {consumed[c], arrived[c]}
    BY <1>2, RecvReads DEF Receive
  <2>2. ReadsOn
    BY <1>1, <2>1 DEF ReadsOn
  <2> QED
    BY <1>1, <2>1, <2>2
<1>3. CASE \E c \in Clients : ClientStep(c)
  <2>1. PICK c \in Clients : ClientStep(c)
    BY <1>3
  <2>2. consumed' = consumed
    BY <2>1 DEF ClientStep, Connect, Arrive, Close
  <2>3. arrived' = arrived \/ (arrived[c] < Len(Cuts[c]) /\ arrived' = [arrived EXCEPT ![c] = arrived[c] + 1])
    BY <2>1 DEF ClientStep, Connect, Arrive, Close
  <2>4. \A e \in Clients : arrived'[e] <= Len(Cuts[e])
    <3>1. arrived \in [Clients -> 0 .. Segments]
      BY DEF DeviceInv, TypeOK
    <3>2. arrived[c] < Len(Cuts[c]) => arrived[c] + 1 <= Len(Cuts[c])
      BY <1>1
    <3> QED
      BY <1>1, <2>3, <3>1, <3>2
  <2> QED
    BY <1>1, <2>2, <2>4 DEF ReadsOn
<1>4. CASE UNCHANGED <<arrived, consumed>>
  BY <1>1, <1>4 DEF ReadsOn
<1>5. CASE DeviceStep \/ UNCHANGED <<vars, intakeVars>>
  BY <1>4, <1>5
  DEF DeviceStep, Start, AwaitReady, Listen, SelectFails, Select, Scan, Accept,
      vars, clientVars
<1>6. CASE \E h \in Handlers : PopulateSigFile(h) \/ VerifyClient(h)
  BY <1>4, <1>6 DEF PopulateSigFile, VerifyClient, vars, clientVars
<1>7. CASE \E netReq \in pending : Answer(netReq)
  BY <1>4, <1>7 DEF Answer, Run
<1> QED
  BY <1>2, <1>3, <1>5, <1>6, <1>7 DEF IntakeNext

\* A new request consists of the segments behind those that had been read.
LEMMA NewRequest ==
  ASSUME DeviceInv, ReadInOrder, Recv, NEW netReq \in pending' \ pending
  PROVE  \E c \in Owner(fd) :
           /\ RecvData(c)
           /\ c \in Clients
           /\ netReq = [text |-> c, first |-> consumed[c] + 1, last |-> arrived[c],
                        socketID |-> fd, srcAddr |-> remoteAddr]
           /\ pending' = pending \cup {netReq}
           /\ handed' = handed \cup {netReq}
           /\ netReq \notin handed
           /\ consumed' = [consumed EXCEPT ![c] = arrived[c]]
           /\ consumed[c] < arrived[c]
<1>1. PICK c \in Owner(fd) : RecvData(c)
  BY DEF Recv, RecvEOF, RecvError
<1>2. c \in Clients /\ consumed[c] < arrived[c]
  BY <1>1 DEF Owner, RecvData, HasData
<1>3. /\ netReq = [text |-> c, first |-> consumed[c] + 1, last |-> arrived[c],
                   socketID |-> fd, srcAddr |-> remoteAddr]
      /\ pending' = pending \cup {netReq}
      /\ handed' = handed \cup {netReq}
      /\ consumed' = [consumed EXCEPT ![c] = arrived[c]]
  BY <1>1 DEF RecvData
<1>4. netReq \notin handed
  <2> SUFFICES ASSUME netReq \in handed PROVE FALSE
    OBVIOUS
  <2>1. netReq.last <= consumed[netReq.text]
    BY DEF ReadInOrder
  <2>2. netReq.last = arrived[c] /\ netReq.text = c
    BY <1>3
  <2>3. arrived[c] \in 0 .. Segments /\ consumed[c] \in 0 .. arrived[c] /\ Segments \in Nat
    BY <1>2, DescriptorNotNone DEF DeviceInv, TypeOK
  <2> QED
    BY <1>2, <2>1, <2>2, <2>3
<1> QED
  BY <1>1, <1>2, <1>3, <1>4

\* separateSig writes nothing but zeros.
LEMMA SeparatedBytes ==
  ASSUME NEW b, NEW over \in Contents, NEW n, over[BUFSIZE] = NUL, BUFSIZE \in Nat \ {0}
  PROVE  /\ separateSig(b, over, n).bytes \in Contents
         /\ separateSig(b, over, n).bytes[BUFSIZE] = NUL
         /\ \A i \in 1 .. BUFSIZE : separateSig(b, over, n).bytes[i] \in {NUL, over[i]}
         /\ separateSig(b, over, n).object.buffer = b
<1> DEFINE length == strlen(over, 1)
           made   == separateSig(b, over, n)
<1>1. NUL \in Bytes /\ BUFSIZE \in 1 .. BUFSIZE /\ over \in [1 .. BUFSIZE -> Bytes]
  BY DEF Bytes, Contents
<1>2. \/ made.bytes = [over EXCEPT ![length - SIG_LENGTH] = NUL]
      \/ made.bytes = over
  BY DEF separateSig
<1>3. made.object.buffer = b
  BY DEF separateSig
<1> HIDE DEF length, made
<1>4. made.bytes \in [1 .. BUFSIZE -> Bytes] /\ \A i \in 1 .. BUFSIZE : made.bytes[i] \in {NUL, over[i]}
  BY <1>1, <1>2
<1> QED
  BY <1>1, <1>3, <1>4 DEF Contents, made

\* The object of netReq is made in buffer b; nothing else is disturbed.
Constructed(netReq, b) ==
  /\ b \in free \/ b = used + 1
  /\ memory' \in [Buffers -> Contents]
  /\ memory'[b][BUFSIZE] = NUL
  /\ \A i \in 1 .. BUFSIZE :
       \/ memory'[b][i] \in {NUL, memory[b][i]}
       \/ \E k \in 1 .. Len(Received(netReq)) : memory'[b][i] = Received(netReq)[k]
  /\ \A e \in Buffers \ {b} : memory'[e] = memory[e]
  /\ DOMAIN object' = DOMAIN object \cup {netReq}
  /\ \A r \in DOMAIN object : object'[r] = object[r]
  /\ object'[netReq].buffer = b
  /\ Made(netReq)'
  /\ free' = free \ {b}
  /\ used' = IF b > used THEN b ELSE used
  /\ queued' = Append(queued, netReq)
  /\ UNCHANGED <<accepted, copied, checking, sigFile, sent>>

\* What the device makes of what it receives.
LEMMA ConstructMakes ==
  ASSUME IntakeInv, NEW netReq, OfSegments(netReq), netReq \notin handed,
         consumed[netReq.text] = netReq.first - 1, Construct(netReq)
  PROVE  \E b \in Buffers : Constructed(netReq, b)
<1>1. PICK b \in Allocatable :
        LET bytes == Received(netReq)
            made  == separateSig(b, Overwritten(b, bytes), Len(bytes))
        IN /\ memory' = [memory EXCEPT ![b] = made.bytes]
           /\ object' = [r \in DOMAIN object \cup {netReq} |->
                           IF r = netReq THEN made.object ELSE object[r]]
           /\ free' = free \ {b}
           /\ used' = IF b > used THEN b ELSE used
           /\ queued' = Append(queued, netReq)
           /\ UNCHANGED <<accepted, copied, checking, sigFile, sent>>
  BY DEF Construct
<1>2. PICK n \in Nat : n = Len(Received(netReq))
  BY ReceivedIs
<1>3. PICK over : over = Overwritten(b, Received(netReq))
  OBVIOUS
<1>4. PICK made : made = separateSig(b, over, n)
  OBVIOUS
<1>5. /\ memory' = [memory EXCEPT ![b] = made.bytes]
      /\ object' = [r \in DOMAIN object \cup {netReq} |->
                      IF r = netReq THEN made.object ELSE object[r]]
  BY <1>1, <1>2, <1>3, <1>4
<1>6. b \in Buffers /\ (b \in free \/ b = used + 1)
  <2>1. used \in 0 .. MaxBuffers /\ MaxBuffers \in Nat /\ free \subseteq 1 .. used
    BY IntakeAssumption DEF IntakeAssumption, IntakeInv, BuffersOwned
  <2>2. 1 .. used \subseteq Buffers /\ (used < MaxBuffers => used + 1 \in Buffers)
    BY <2>1 DEF Buffers
  <2> QED
    BY <2>1, <2>2 DEF Allocatable
<1>7. PICK old \in Contents : old = memory[b] /\ old[BUFSIZE] = NUL
  BY <1>6 DEF IntakeInv, MemoryHolds
<1>8. over = [k \in 1 .. BUFSIZE |-> IF k <= n THEN Received(netReq)[k] ELSE old[k]]
  BY <1>2, <1>3, <1>7 DEF Overwritten
<1>9. PICK c \in Clients : c = netReq.text
  BY DEF OfSegments
<1>10. n < BUFSIZE /\ BUFSIZE \in Nat \ {0} /\ \A k \in 1 .. n : Received(netReq)[k] \in Bytes
  <2>1. PICK from \in Nat : from = BytesIn(netReq.text, netReq.first - 1)
    BY ReceivedIs
  <2>2. PICK to \in Nat : to = BytesIn(netReq.text, netReq.last)
    BY ReceivedIs
  <2>3. to <= RequestLength(c) /\ n = to - from /\ from < to
    BY <1>2, <1>9, <2>1, <2>2, ReceivedIs
  <2>4. \A k \in 1 .. n : Received(netReq)[k] = <<c, k + from>>
    BY <1>9, <2>1, <2>2, <2>3, ReceivedIs
  <2>5. \A k \in 1 .. n : <<c, k + from>> \in Bytes
    BY <1>2, <1>9, <2>1 DEF Bytes
  <2>6. \A k \in 1 .. n : Received(netReq)[k] \in Bytes
    BY <2>4, <2>5
  <2> QED
    BY <2>3, <2>6, LengthsAreNatural
<1>11. over \in Contents /\ over[BUFSIZE] = NUL
  <2>1. \A k \in 1 .. BUFSIZE : k <= n => k \in 1 .. n
    BY <1>2
  <2>2. \A k \in 1 .. BUFSIZE : old[k] \in Bytes
    BY <1>7 DEF Contents
  <2>3. over \in Contents
    BY <1>8, <1>10, <2>1, <2>2 DEF Contents
  <2>4. BUFSIZE \in 1 .. BUFSIZE /\ ~(BUFSIZE <= n)
    BY <1>2, <1>10
  <2> QED
    BY <1>7, <1>8, <2>3, <2>4
<1>12. /\ made.bytes \in Contents
       /\ made.bytes[BUFSIZE] = NUL
       /\ \A i \in 1 .. BUFSIZE : made.bytes[i] \in {NUL, over[i]}
       /\ made.object.buffer = b
  BY <1>4, <1>10, <1>11, SeparatedBytes
<1>13. /\ memory' \in [Buffers -> Contents]
       /\ memory'[b] = made.bytes
       /\ \A e \in Buffers \ {b} : memory'[e] = memory[e]
  BY <1>5, <1>6, <1>12 DEF IntakeInv, MemoryHolds
<1>14. \A i \in 1 .. BUFSIZE :
         \/ memory'[b][i] \in {NUL, memory[b][i]}
         \/ \E k \in 1 .. Len(Received(netReq)) : memory'[b][i] = Received(netReq)[k]
  <2> TAKE i \in 1 .. BUFSIZE
  <2>1. memory'[b][i] = NUL \/ memory'[b][i] = over[i]
    BY <1>12, <1>13
  <2>2. CASE i <= n
    <3>1. i \in 1 .. n /\ over[i] = Received(netReq)[i]
      BY <1>2, <1>8, <2>2
    <3> QED
      BY <1>2, <2>1, <3>1
  <2>3. CASE ~(i <= n)
    BY <1>7, <1>8, <2>1, <2>3
  <2> QED
    BY <2>2, <2>3
<1>15. DOMAIN object = handed
  BY DEF IntakeInv, BuffersOwned
<1>16. /\ DOMAIN object' = DOMAIN object \cup {netReq}
       /\ \A r \in DOMAIN object : object'[r] = object[r]
       /\ object'[netReq] = made.object
  BY <1>5, <1>15
<1>17. Made(netReq)'
  <2>1. \A i \in 1 .. BUFSIZE : \A k \in Nat :
          old[i] = <<netReq.text, k>> => k <= BytesIn(netReq.text, netReq.first - 1)
    BY <1>6, <1>7, <1>9 DEF IntakeInv, MemoryHolds
  <2>2. object'[netReq].buffer = b
    BY <1>12, <1>16
  <2>3. memory'[b] = separateSig(b, over, n).bytes /\ object'[netReq] = separateSig(b, over, n).object
    BY <1>4, <1>13, <1>16
  <2>4. over = [k \in 1 .. BUFSIZE |-> IF k <= Len(Received(netReq)) THEN Received(netReq)[k] ELSE old[k]]
    BY <1>2, <1>8
  <2> QED
    BY <1>2, <1>7, <2>1, <2>2, <2>3, <2>4 DEF Made
<1> QED
  BY <1>1, <1>6, <1>12, <1>13, <1>14, <1>16, <1>17 DEF Constructed

\* The buffer of a new request is none of those that wait for their replies.
LEMMA ConstructKeeps ==
  ASSUME DeviceInv, DeviceInv', IntakeInv, ReadsOn,
         \A c \in Clients : arrived'[c] <= Len(Cuts[c]),
         Recv, NEW netReq \in pending' \ pending, Construct(netReq)
  PROVE  IntakeInv'
<1>1. PICK c \in Clients :
        /\ netReq = [text |-> c, first |-> consumed[c] + 1, last |-> arrived[c],
                     socketID |-> fd, srcAddr |-> remoteAddr]
        /\ pending' = pending \cup {netReq}
        /\ handed' = handed \cup {netReq}
        /\ netReq \notin handed
        /\ consumed' = [consumed EXCEPT ![c] = arrived[c]]
        /\ consumed[c] < arrived[c]
  BY NewRequest DEF IntakeInv
<1>2. /\ netReq.text = c /\ netReq.first = consumed[c] + 1 /\ netReq.last = arrived[c]
      /\ consumed[c] \in Nat /\ arrived[c] \in Nat /\ arrived[c] <= Len(Cuts[c])
      /\ consumed'[c] = arrived[c] /\ Len(Cuts[c]) \in Nat
      /\ pending \subseteq handed
  <2>1. arrived[c] \in 0 .. Segments /\ consumed[c] \in 0 .. arrived[c] /\ Segments \in Nat
    BY DescriptorNotNone DEF DeviceInv, TypeOK
  <2>2. arrived[c] <= Len(Cuts[c]) /\ Len(Cuts[c]) \in Nat
    BY CutsAssumption DEF CutsAssumption, IntakeInv, ReadInOrder
  <2>3. consumed \in [Clients -> 0 .. Segments] /\ pending \subseteq handed
    BY DEF DeviceInv, TypeOK, ReadIsCounted
  <2> QED
    BY <1>1, <2>1, <2>2, <2>3
<1>3. OfSegments(netReq)
  BY <1>1, <1>2 DEF OfSegments
<1>4. consumed[netReq.text] = netReq.first - 1
  BY <1>2
<1>15. PICK b \in Buffers : Constructed(netReq, b)
  BY <1>1, <1>3, <1>4, ConstructMakes
<1>5. /\ b \in free \/ b = used + 1
      /\ memory' \in [Buffers -> Contents]
      /\ memory'[b][BUFSIZE] = NUL
      /\ \A i \in 1 .. BUFSIZE :
           \/ memory'[b][i] \in {NUL, memory[b][i]}
           \/ \E k \in 1 .. Len(Received(netReq)) : memory'[b][i] = Received(netReq)[k]
      /\ \A e \in Buffers \ {b} : memory'[e] = memory[e]
      /\ DOMAIN object' = DOMAIN object \cup {netReq}
      /\ \A r \in DOMAIN object : object'[r] = object[r]
      /\ object'[netReq].buffer = b
      /\ Made(netReq)'
      /\ free' = free \ {b}
      /\ used' = IF b > used THEN b ELSE used
      /\ queued' = Append(queued, netReq)
      /\ UNCHANGED <<accepted, copied, checking, sigFile, sent>>
  BY <1>15 DEF Constructed
<1>6. used \in 0 .. MaxBuffers /\ MaxBuffers \in Nat /\ free \subseteq 1 .. used /\ DOMAIN object = handed
  BY IntakeAssumption DEF IntakeAssumption, IntakeInv, BuffersOwned
<1>7. \A r \in pending : object[r].buffer # b /\ object[r].buffer \in Buffers
  <2> TAKE r \in pending
  <2>1. object[r].buffer \in 1 .. used /\ object[r].buffer \notin free
    BY <1>2 DEF IntakeInv, BuffersOwned
  <2> QED
    BY <1>5, <1>6, <2>1 DEF Buffers
<1>8. \A r \in pending : object'[r] = object[r] /\ memory'[object[r].buffer] = memory[object[r].buffer]
  BY <1>2, <1>5, <1>6, <1>7
<1>9. MemoryHolds'
  <2>1. \A e \in Buffers : memory'[e][BUFSIZE] = NUL
    BY <1>5 DEF IntakeInv, MemoryHolds
  <2>2. \A e \in Buffers : \A i \in 1 .. BUFSIZE : \A d \in Clients : \A k \in Nat :
          memory[e][i] = <<d, k>> => k <= BytesIn(d, consumed'[d])
    BY ReadBytesGrow DEF IntakeInv, MemoryHolds
  <2>3. \A i \in 1 .. BUFSIZE : \A d \in Clients : \A k \in Nat :
          memory'[b][i] = <<d, k>> => k <= BytesIn(d, consumed'[d])
    <3> TAKE i \in 1 .. BUFSIZE
    <3> TAKE d \in Clients
    <3> TAKE k \in Nat
    <3> HAVE memory'[b][i] = <<d, k>>
    <3>1. CASE memory'[b][i] = NUL
      <4>1. k = 0
        BY <3>1 DEF NUL
      <4> QED
        BY <4>1, ReadBytesGrow
    <3>2. CASE memory'[b][i] = memory[b][i]
      BY <2>2, <3>2
    <3>3. CASE \E j \in 1 .. Len(Received(netReq)) : memory'[b][i] = Received(netReq)[j]
      <4>1. PICK j \in 1 .. Len(Received(netReq)) : memory'[b][i] = Received(netReq)[j]
        BY <3>3
      <4>2. PICK from \in Nat : from = BytesIn(netReq.text, netReq.first - 1)
        BY <1>3, ReceivedIs
      <4>3. PICK to \in Nat : to = BytesIn(netReq.text, netReq.last)
        BY <1>3, ReceivedIs
      <4>4. j \in 1 .. to - from
        BY <1>3, <4>1, <4>2, <4>3, ReceivedIs
      <4>5. Received(netReq)[j] = <<c, j + from>>
        BY <1>2, <1>3, <4>2, <4>3, <4>4, ReceivedIs
      <4>6. d = c /\ k = j + from
        BY <4>1, <4>5
      <4>7. k <= to
        BY <4>2, <4>3, <4>4, <4>6
      <4> QED
        BY <1>2, <4>3, <4>6, <4>7
    <3> QED
      BY <1>5, <3>1, <3>2, <3>3
  <2>4. \A e \in Buffers : \A i \in 1 .. BUFSIZE : \A d \in Clients : \A k \in Nat :
          memory'[e][i] = <<d, k>> => k <= BytesIn(d, consumed'[d])
    BY <1>5, <2>2, <2>3
  <2> QED
    BY <1>5, <2>1, <2>4 DEF MemoryHolds
<1>10. BuffersOwned'
  <2>1. used' \in 0 .. MaxBuffers /\ b \in 1 .. used' /\ 1 .. used \subseteq 1 .. used'
    BY <1>5, <1>6 DEF Buffers
  <2>2. free' \subseteq 1 .. used'
    BY <1>5, <1>6, <2>1
  <2>3. \A r \in handed' : object'[r].buffer \in 1 .. used'
    BY <1>1, <1>5, <1>6, <2>1 DEF IntakeInv, BuffersOwned
  <2>4. \A r \in pending' : object'[r].buffer \notin free'
    BY <1>1, <1>5, <1>8 DEF IntakeInv, BuffersOwned
  <2>5. \A r \in pending' : \A q \in pending' : object'[r].buffer = object'[q].buffer => r = q
    BY <1>1, <1>5, <1>7, <1>8 DEF IntakeInv, BuffersOwned
  <2>6. DOMAIN object' = handed'
    BY <1>1, <1>5, <1>6
  <2> QED
    BY <2>1, <2>2, <2>3, <2>4, <2>5, <2>6 DEF BuffersOwned
<1>11. ReadInOrder'
  <2>1. \A r \in handed : r.first <= r.last /\ r.last <= consumed'[r.text]
    <3> TAKE r \in handed
    <3>1. OfSegments(r) /\ r \in NetRequests
      BY HandedOfSegments DEF IntakeInv
    <3>2. r.last \in Nat /\ r.text \in Clients
      BY <3>1, CutsAssumption DEF OfSegments, CutsAssumption
    <3> QED
      BY <3>2 DEF IntakeInv, ReadInOrder, ReadsOn
  <2>2. netReq.first <= netReq.last /\ netReq.last <= consumed'[netReq.text]
    BY <1>1, <1>2
  <2>3. \A r \in handed : r.text = c /\ netReq.first = 1 => r.first # 1
    <3> TAKE r \in handed
    <3>1. OfSegments(r) /\ r.first <= r.last /\ r.last <= consumed[r.text]
      BY HandedOfSegments DEF IntakeInv, ReadInOrder
    <3> QED
      BY <1>2, <3>1 DEF OfSegments
  <2>4. \A r \in handed' : \A q \in handed' : r.text = q.text /\ r.first = 1 /\ q.first = 1 => r = q
    BY <1>1, <1>2, <2>3 DEF IntakeInv, ReadInOrder
  <2> QED
    BY <1>1, <2>1, <2>2, <2>4 DEF ReadInOrder
<1>12. PrimarySees'
  <2>1. queued' \in Seq(handed')
    BY <1>1, <1>5 DEF IntakeInv, PrimarySees
  <2>2. \A h \in Handlers : checking[h] # None => checking[h] \in [netReq : handed', file : FileNames]
    BY <1>1 DEF IntakeInv, PrimarySees
  <2> QED
    BY <1>1, <1>5, <2>1, <2>2 DEF IntakeInv, PrimarySees
<1>13. MadeFromRead'
  <2>1. \A r \in pending : Made(r)'
    BY <1>8, MadeStays DEF IntakeInv, MadeFromRead
  <2> QED
    BY <1>1, <1>5, <2>1 DEF MadeFromRead
<1>14. AcceptedVerified'
  <2>1. netReq \notin accepted
    BY <1>1 DEF IntakeInv, PrimarySees
  <2>2. \A r \in pending : TextOf(r)' = TextOf(r)
    BY <1>8, MadeStays
  <2>3. pending' \cap accepted' = pending \cap accepted
    BY <1>1, <1>5, <2>1
  <2>4. \A r \in pending \cap accepted :
          \E d \in Clients : PrivateKey[d] = getKeyFileName(r.srcAddr) /\ TextOf(r)' = Text(d)
    BY <2>2 DEF IntakeInv, AcceptedVerified
  <2> QED
    BY <2>3, <2>4 DEF AcceptedVerified
<1>16. CopiesVerified' /\ AnswerWasVerified'
  BY <1>5, VerifiedStays DEF IntakeInv
<1> QED
  BY <1>9, <1>10, <1>11, <1>12, <1>13, <1>14, <1>16 DEF IntakeInv

\* A handler takes the oldest request and writes a signature file.
LEMMA PopulateKeeps ==
  ASSUME DeviceInv, IntakeInv, ReadsOn, NEW h \in Handlers, PopulateSigFile(h)
  PROVE  IntakeInv'
<1>1. PICK netReq : netReq = Head(queued)
  OBVIOUS
<1>2. queued \in Seq(handed) /\ queued # << >>
  BY DEF IntakeInv, PrimarySees, PopulateSigFile
<1>3. netReq \in handed /\ Tail(queued) \in Seq(handed)
  BY <1>1, <1>2
<1>4. PICK random \in Randoms :
        /\ populateSigFile(genRandFileName(netReq.srcAddr, random), getSignature(netReq))
        /\ checking' = [checking EXCEPT ![h] = [netReq |-> netReq,
                                                file   |-> genRandFileName(netReq.srcAddr, random)]]
  BY <1>1 DEF PopulateSigFile
<1>5. genRandFileName(netReq.srcAddr, random) \in FileNames
  <2>1. netReq \in NetRequests
    BY <1>3 DEF DeviceInv, TypeOK
  <2>2. netReq.srcAddr \in {Host[c] : c \in Clients}
    BY <2>1 DEF NetRequests
  <2> QED
    BY <2>2 DEF genRandFileName, FileNames
<1>6. /\ UNCHANGED <<memory, used, free, object, accepted, copied, sent>>
      /\ UNCHANGED <<arrived, consumed, pending, handed>>
      /\ queued' = Tail(queued)
  BY DEF PopulateSigFile, vars, clientVars
<1>7. MemoryHolds'
  BY <1>6, MemoryStays DEF IntakeInv
<1>8. BuffersOwned' /\ ReadInOrder'
  BY <1>6 DEF IntakeInv, BuffersOwned, ReadInOrder
<1>9. PrimarySees'
  <2>1. DOMAIN sigFile' = FileNames
    BY <1>4 DEF populateSigFile, IntakeInv, PrimarySees
  <2>2. /\ DOMAIN checking' = Handlers
        /\ \A g \in Handlers : checking'[g] # None => checking'[g] \in [netReq : handed, file : FileNames]
    BY <1>3, <1>4, <1>5 DEF IntakeInv, PrimarySees
  <2> QED
    BY <1>3, <1>6, <2>1, <2>2 DEF IntakeInv, PrimarySees
<1>10. MadeFromRead' /\ AcceptedVerified'
  BY <1>6, MadeStays DEF IntakeInv, MadeFromRead, AcceptedVerified
<1>11. CopiesVerified' /\ AnswerWasVerified'
  BY <1>6, VerifiedStays DEF IntakeInv
<1> QED
  BY <1>7, <1>8, <1>9, <1>10, <1>11 DEF IntakeInv

\* What is accepted has just been verified.
LEMMA VerifyKeeps ==
  ASSUME DeviceInv, IntakeInv, ReadsOn, NEW h \in Handlers, VerifyClient(h)
  PROVE  IntakeInv'
<1>1. PICK netReq : netReq = checking[h].netReq
  OBVIOUS
<1>2. netReq \in handed
  BY <1>1 DEF VerifyClient, IntakeInv, PrimarySees
<1>3. accepted' = IF verifySignature(getKeyFileName(netReq.srcAddr),
                                     sigFile[checking[h].file], TextOf(netReq))
                  THEN accepted \cup {netReq} ELSE accepted
  BY <1>1 DEF VerifyClient
<1>10. \/ UNCHANGED <<accepted, copied>>
       \/ /\ verifySignature(getKeyFileName(netReq.srcAddr),
                              sigFile[checking[h].file], TextOf(netReq))
          /\ accepted' = accepted \cup {netReq}
          /\ copied' = [r \in DOMAIN copied \cup {netReq} |->
                          IF r = netReq THEN TextOf(netReq) ELSE copied[r]]
  BY <1>1 DEF VerifyClient
<1>4. /\ UNCHANGED <<memory, used, free, object, queued, sigFile, sent>>
      /\ UNCHANGED <<arrived, consumed, pending, handed>>
      /\ checking' = [checking EXCEPT ![h] = None]
  BY DEF VerifyClient, vars, clientVars
<1>5. MemoryHolds'
  BY <1>4, MemoryStays DEF IntakeInv
<1>6. BuffersOwned' /\ ReadInOrder'
  BY <1>4 DEF IntakeInv, BuffersOwned, ReadInOrder
<1>7. PrimarySees'
  <2>1. /\ DOMAIN checking' = Handlers
        /\ \A g \in Handlers : checking'[g] # None => checking'[g] \in [netReq : handed, file : FileNames]
    BY <1>4 DEF IntakeInv, PrimarySees
  <2>2. accepted' \subseteq handed
    BY <1>2, <1>3 DEF IntakeInv, PrimarySees
  <2> QED
    BY <1>4, <2>1, <2>2 DEF IntakeInv, PrimarySees
<1>8. MadeFromRead'
  BY <1>4, MadeStays DEF IntakeInv, MadeFromRead
<1>9. AcceptedVerified'
  <2>1. \A r \in pending : TextOf(r)' = TextOf(r)
    BY <1>4, MadeStays
  <2>2. \A r \in accepted' : r \in accepted \/
          \E c \in Clients : PrivateKey[c] = getKeyFileName(r.srcAddr) /\ TextOf(r) = Text(c)
    BY <1>3 DEF verifySignature
  <2>3. \A r \in pending \cap accepted' :
          \E c \in Clients : PrivateKey[c] = getKeyFileName(r.srcAddr) /\ TextOf(r) = Text(c)
    BY <2>2 DEF IntakeInv, AcceptedVerified
  <2> QED
    BY <1>4, <2>1, <2>3 DEF AcceptedVerified
<1>11. CopiesVerified'
  <2>1. CASE UNCHANGED <<accepted, copied>>
    BY <2>1 DEF IntakeInv, CopiesVerified
  <2>2. CASE /\ verifySignature(getKeyFileName(netReq.srcAddr),
                                sigFile[checking[h].file], TextOf(netReq))
            /\ accepted' = accepted \cup {netReq}
            /\ copied' = [r \in DOMAIN copied \cup {netReq} |->
                            IF r = netReq THEN TextOf(netReq) ELSE copied[r]]
    <3>1. \E c \in Clients : PrivateKey[c] = getKeyFileName(netReq.srcAddr) /\ TextOf(netReq) = Text(c)
      BY <2>2 DEF verifySignature
    <3>2. /\ DOMAIN copied' = accepted'
          /\ copied'[netReq] = TextOf(netReq)
          /\ \A r \in accepted : r # netReq => copied'[r] = copied[r]
      BY <2>2 DEF IntakeInv, CopiesVerified
    <3> QED
      BY <2>2, <3>1, <3>2 DEF IntakeInv, CopiesVerified
  <2> QED
    BY <1>10, <2>1, <2>2
<1>12. AnswerWasVerified'
  BY <1>4 DEF IntakeInv, AnswerWasVerified
<1> QED
  BY <1>5, <1>6, <1>7, <1>8, <1>9, <1>11, <1>12 DEF IntakeInv

\* A buffer is deleted with the request it belongs to.
LEMMA AnswerKeeps ==
  ASSUME DeviceInv, IntakeInv, ReadsOn, NEW netReq \in pending, Answer(netReq)
  PROVE  IntakeInv'
<1>1. /\ UNCHANGED <<memory, used, object, queued, accepted, copied, checking, sigFile>>
      /\ UNCHANGED <<arrived, consumed, handed>>
      /\ pending' = pending \ {netReq}
      /\ free' = free \/ free' = free \cup {object[netReq].buffer}
      /\ pending \subseteq handed
  BY DEF Answer, Run, DeviceInv, TypeOK
<1>2. MemoryHolds'
  BY <1>1, MemoryStays DEF IntakeInv
<1>3. BuffersOwned'
  <2>3. netReq \in handed
    BY <1>1
  <2>4. PICK S : S = 1 .. used
    OBVIOUS
  <2>5. free \subseteq S /\ object[netReq].buffer \in S
    BY <2>3, <2>4 DEF IntakeInv, BuffersOwned
  <2>1. free' \subseteq 1 .. used
    BY <1>1, <2>4, <2>5
  <2>2. \A r \in pending' : object[r].buffer \notin free'
    BY <1>1 DEF IntakeInv, BuffersOwned
  <2> QED
    BY <1>1, <2>1, <2>2 DEF IntakeInv, BuffersOwned
<1>4. ReadInOrder' /\ PrimarySees'
  BY <1>1 DEF IntakeInv, ReadInOrder, PrimarySees
<1>5. MadeFromRead' /\ AcceptedVerified'
  BY <1>1, MadeStays DEF IntakeInv, MadeFromRead, AcceptedVerified
<1>6. CopiesVerified'
  BY <1>1 DEF IntakeInv, CopiesVerified
<1>7. AnswerWasVerified'
  <2>1. netReq \in pending \cap accepted
    BY DEF Answer
  <2>2. PICK x \in Clients : PrivateKey[x] = getKeyFileName(netReq.srcAddr) /\ TextOf(netReq) = Text(x)
    BY <2>1 DEF IntakeInv, AcceptedVerified
  <2>3. OfSegments(netReq)
    BY <1>1, HandedOfSegments DEF IntakeInv
  <2>4. Made(netReq)
    BY DEF IntakeInv, MadeFromRead
  <2>5. Reply(netReq) = Text(x) /\ object[netReq].numBytes = TextLength[x]
    BY <2>2, <2>3, <2>4, TextIsReply
  <2>6. PICK y \in Clients : PrivateKey[y] = getKeyFileName(netReq.srcAddr) /\ copied[netReq] = Text(y)
    BY <2>1 DEF IntakeInv, CopiesVerified
  <2>7. \A s \in sent' : s \in sent \/ s = DeviceObject(netReq) \/ s = ReplicaObject(netReq)
    BY DEF Answer
  <2>8. \A s : s = DeviceObject(netReq) =>
           s.netReq = netReq /\ s.text = Text(x) /\ s.numBytes = TextLength[x]
    BY <2>5 DEF DeviceObject
  <2>9. \A s : s = ReplicaObject(netReq) =>
           s.netReq = netReq /\ s.text = Text(y) /\ s.numBytes = None
    BY <2>6 DEF ReplicaObject
  <2> QED
    BY <2>2, <2>6, <2>7, <2>8, <2>9 DEF IntakeInv, AnswerWasVerified
<1> QED
  BY <1>2, <1>3, <1>4, <1>5, <1>6, <1>7 DEF IntakeInv

LEMMA IntakeInvNext ==
  ASSUME DeviceInv, DeviceInv', IntakeInv, [IntakeNext]_<<vars, intakeVars>>
  PROVE  IntakeInv'
<1>1. ReadsOn /\ \A c \in Clients : arrived'[c] <= Len(Cuts[c])
  BY StepReadsOn DEF IntakeInv
<1>2. \A r \in handed : r.text \in Clients /\ r.last \in Nat
  <2> TAKE r \in handed
  <2>1. OfSegments(r)
    BY HandedOfSegments DEF IntakeInv
  <2> QED
    BY <2>1, CutsAssumption DEF OfSegments, CutsAssumption
<1>3. UNCHANGED intakeVars /\ pending' = pending /\ handed' = handed => IntakeInv'
  BY <1>1, <1>2, DeviceKeepsIntake
<1>4. CASE DeviceStep /\ UNCHANGED intakeVars
  BY <1>3, <1>4 DEF DeviceStep, Start, AwaitReady, Listen, SelectFails, Select, Scan, Accept
<1>5. CASE Receive
  <2>1. CASE pending' = pending /\ UNCHANGED intakeVars
    <3>1. handed' = handed
      <4>1. CASE \E c \in Owner(fd) : RecvData(c)
        <5>1. PICK c \in Owner(fd) : RecvData(c)
          BY <4>1
        <5>6. c \in Clients /\ consumed[c] < arrived[c]
          BY <5>1 DEF RecvData, HasData, Owner
        <5>7. PICK netReq : netReq = [text |-> c, first |-> consumed[c] + 1, last |-> arrived[c],
                                      socketID |-> fd, srcAddr |-> remoteAddr]
          OBVIOUS
        <5>8. pending' = pending \cup {netReq}
          BY <5>1, <5>7 DEF RecvData
        <5>2. /\ netReq.text = c /\ netReq.last = arrived[c]
              /\ pending' = pending \cup {netReq}
              /\ c \in Clients /\ consumed[c] < arrived[c]
          BY <5>6, <5>7, <5>8
        <5>3. netReq \in handed
          BY <2>1, <5>2 DEF DeviceInv, TypeOK
        <5>4. arrived[c] \in 0 .. Segments /\ consumed[c] \in 0 .. arrived[c] /\ Segments \in Nat
          BY <5>2, DescriptorNotNone DEF DeviceInv, TypeOK
        <5>5. arrived[c] <= consumed[c]
          BY <5>2, <5>3 DEF IntakeInv, ReadInOrder
        <5> QED
          BY <5>2, <5>4, <5>5
      <4> QED
        BY <1>5, <4>1 DEF Receive, Recv, RecvEOF, RecvError
    <3> QED
      BY <1>3, <2>1, <3>1
  <2>2. CASE \E netReq \in pending' \ pending : Construct(netReq)
    BY <1>1, <1>5, <2>2, ConstructKeeps DEF Receive
  <2> QED
    BY <1>5, <2>1, <2>2 DEF Receive
<1>6. CASE \E h \in Handlers : PopulateSigFile(h) \/ VerifyClient(h)
  BY <1>1, <1>6, PopulateKeeps, VerifyKeeps
<1>7. CASE \E netReq \in pending : Answer(netReq)
  BY <1>1, <1>7, AnswerKeeps
<1>8. CASE \E c \in Clients : ClientStep(c) /\ UNCHANGED intakeVars
  BY <1>3, <1>8 DEF ClientStep, Connect, Arrive, Close
<1>9. CASE UNCHANGED <<vars, intakeVars>>
  BY <1>3, <1>9 DEF vars
<1> QED
  BY <1>4, <1>5, <1>6, <1>7, <1>8, <1>9 DEF IntakeNext

LEMMA IntakeInvHolds == IntakeSpec => [](DeviceInv /\ IntakeInv)
<1>1. IntakeInit => IntakeInv
  BY IntakeInvInit
<1>2. DeviceInv /\ DeviceInv' /\ IntakeInv /\ [IntakeNext]_<<vars, intakeVars>> => IntakeInv'
  BY IntakeInvNext
<1> QED
  BY <1>1, <1>2, IntakeIsDevice, DeviceInvHolds, PTL DEF IntakeSpec

-----------------------------------------------------------------------------
(***************************************************************************)
(* What is sent is what was verified, for every number of clients,         *)
(* segments and buffers, whatever the memory held before: the text in the  *)
(* object given to run(), the device's or a replica's copy, is one that    *)
(* some client signed with the key of the host the request is said to come *)
(* from; the length of the device's object is that of the text, and that   *)
(* of a copy is unassigned.                                                *)
(***************************************************************************)
THEOREM AnswersWereVerified == IntakeSpec => []AnswerWasVerified
<1>1. IntakeInv => AnswerWasVerified
  BY DEF IntakeInv
<1> QED
  BY <1>1, IntakeInvHolds, PTL

-----------------------------------------------------------------------------
(***************************************************************************)
(* Whole requests are accepted.                                            *)
(***************************************************************************)
\* The signature file a handler is about to verify is the one it wrote.
FileFresh ==
  \A h \in Handlers : checking[h] # None /\ checking[h].netReq \in pending =>
    sigFile[checking[h].file] = getSignature(checking[h].netReq)

\* What Legitimate and Terminated say is of constants, the buffer and the object.
LEMMA LegitimateStays ==
  ASSUME NEW r, object'[r] = object[r], memory'[object[r].buffer] = memory[object[r].buffer]
  PROVE  /\ Legitimate(r)' <=> Legitimate(r)
         /\ Terminated(r)' <=> Terminated(r)
         /\ getSignature(r)' = getSignature(r)
BY MadeStays DEF Legitimate, Terminated, Received

\* Who is not judged by a step was judged before or is judged by it.
LEMMA JudgedKeeps ==
  ASSUME TerminatedAccepted, accepted \subseteq accepted',
         NEW S, S \subseteq Judged, Judged' \subseteq S,
         \A r \in S : /\ object'[r] = object[r]
                      /\ memory'[object[r].buffer] = memory[object[r].buffer]
  PROVE  TerminatedAccepted'
<1> SUFFICES ASSUME NEW r \in S, Legitimate(r)', Terminated(r)'
             PROVE  r \in accepted'
  BY DEF TerminatedAccepted
<1>1. Legitimate(r) /\ Terminated(r)
  BY LegitimateStays
<1> QED
  BY <1>1 DEF TerminatedAccepted

\* A new request joins the queue.
LEMMA ConstructJudges ==
  ASSUME DeviceInv, IntakeInv, FileFresh, TerminatedAccepted,
         Recv, NEW netReq \in pending' \ pending, Construct(netReq)
  PROVE  FileFresh' /\ TerminatedAccepted'
<1>1. PICK c \in Clients :
        /\ netReq = [text |-> c, first |-> consumed[c] + 1, last |-> arrived[c],
                     socketID |-> fd, srcAddr |-> remoteAddr]
        /\ pending' = pending \cup {netReq}
        /\ handed' = handed \cup {netReq}
        /\ netReq \notin handed
        /\ consumed' = [consumed EXCEPT ![c] = arrived[c]]
        /\ consumed[c] < arrived[c]
  BY NewRequest DEF IntakeInv
<1>2. /\ netReq.text = c /\ netReq.first = consumed[c] + 1 /\ netReq.last = arrived[c]
      /\ consumed[c] \in Nat /\ arrived[c] \in Nat /\ arrived[c] <= Len(Cuts[c])
      /\ Len(Cuts[c]) \in Nat
      /\ pending \subseteq handed
  <2>1. arrived[c] \in 0 .. Segments /\ consumed[c] \in 0 .. arrived[c] /\ Segments \in Nat
    BY DescriptorNotNone DEF DeviceInv, TypeOK
  <2>2. arrived[c] <= Len(Cuts[c]) /\ Len(Cuts[c]) \in Nat
    BY CutsAssumption DEF CutsAssumption, IntakeInv, ReadInOrder
  <2>3. pending \subseteq handed
    BY DEF DeviceInv, TypeOK
  <2> QED
    BY <1>1, <2>1, <2>2, <2>3
<1>3. OfSegments(netReq)
  BY <1>1, <1>2 DEF OfSegments
<1>4. consumed[netReq.text] = netReq.first - 1
  BY <1>2
<1>5. PICK b \in Buffers : Constructed(netReq, b)
  BY <1>1, <1>3, <1>4, ConstructMakes
<1>6. /\ b \in free \/ b = used + 1
      /\ \A e \in Buffers \ {b} : memory'[e] = memory[e]
      /\ \A r \in DOMAIN object : object'[r] = object[r]
      /\ queued' = Append(queued, netReq)
      /\ UNCHANGED <<accepted, copied, checking, sigFile, sent>>
  BY <1>5 DEF Constructed
<1>7. used \in 0 .. MaxBuffers /\ MaxBuffers \in Nat /\ free \subseteq 1 .. used /\ DOMAIN object = handed
  BY IntakeAssumption DEF IntakeAssumption, IntakeInv, BuffersOwned
<1>8. \A r \in pending : object'[r] = object[r] /\ memory'[object[r].buffer] = memory[object[r].buffer]
  <2> TAKE r \in pending
  <2>1. object[r].buffer \in 1 .. used /\ object[r].buffer \notin free
    BY <1>2 DEF IntakeInv, BuffersOwned
  <2>2. object[r].buffer \in Buffers \ {b}
    BY <1>6, <1>7, <2>1 DEF Buffers
  <2> QED
    BY <1>2, <1>6, <1>7, <2>2
<1>9. queued \in Seq(handed)
  BY DEF IntakeInv, PrimarySees
<1>10. /\ \E i \in DOMAIN queued' : queued'[i] = netReq
       /\ \A i \in DOMAIN queued : i \in DOMAIN queued' /\ queued'[i] = queued[i]
  <2>1. PICK n \in Nat : n = Len(queued)
    BY <1>9
  <2>2. DOMAIN queued = 1 .. n /\ DOMAIN queued' = 1 .. n + 1
    BY <1>6, <1>9, <2>1
  <2>3. queued'[n + 1] = netReq /\ \A i \in 1 .. n : queued'[i] = queued[i]
    BY <1>6, <1>9, <2>1
  <2> QED
    BY <2>2, <2>3
<1>11. Judged' \subseteq Judged
  BY <1>1, <1>6, <1>10 DEF Judged
<1>12. TerminatedAccepted'
  <2>1. Judged \subseteq pending
    BY DEF Judged
  <2>2. \A r \in Judged : /\ object'[r] = object[r]
                         /\ memory'[object[r].buffer] = memory[object[r].buffer]
    BY <1>8, <2>1
  <2>3. accepted \subseteq accepted'
    BY <1>6
  <2> QED
    BY <1>11, <2>2, <2>3, JudgedKeeps
<1>13. FileFresh'
  <2> SUFFICES ASSUME NEW h \in Handlers, checking[h] # None, checking[h].netReq \in pending'
               PROVE  sigFile[checking[h].file] = getSignature(checking[h].netReq)'
    BY <1>6 DEF FileFresh
  <2>1. checking[h].netReq \in handed
    BY DEF IntakeInv, PrimarySees
  <2>2. checking[h].netReq \in pending
    BY <1>1, <2>1
  <2>3. PICK r \in pending : r = checking[h].netReq
    BY <2>2
  <2>4. getSignature(r)' = getSignature(r)
    BY <1>8, MadeStays
  <2>5. checking'[h] = checking[h]
    BY <1>6
  <2> QED
    BY <2>3, <2>4, <2>5 DEF FileFresh
<1> QED
  BY <1>12, <1>13

\* With one handler at a time the file just written is the one verified next.
LEMMA PopulateJudges ==
  ASSUME \A g \in Handlers : \A h \in Handlers : g = h,
         DeviceInv, IntakeInv, FileFresh, TerminatedAccepted,
         NEW h \in Handlers, PopulateSigFile(h)
  PROVE  FileFresh' /\ TerminatedAccepted'
<1>1. PICK netReq : netReq = Head(queued)
  OBVIOUS
<1>2. queued \in Seq(handed) /\ queued # << >> /\ netReq \in handed
  BY <1>1 DEF IntakeInv, PrimarySees, PopulateSigFile
<1>3. PICK random \in Randoms :
        /\ populateSigFile(genRandFileName(netReq.srcAddr, random), getSignature(netReq))
        /\ checking' = [checking EXCEPT ![h] = [netReq |-> netReq,
                                                file   |-> genRandFileName(netReq.srcAddr, random)]]
  BY <1>1 DEF PopulateSigFile
<1>4. PICK name : name = genRandFileName(netReq.srcAddr, random)
  OBVIOUS
<1>5. netReq \in NetRequests /\ name \in FileNames
  <2>1. netReq \in NetRequests
    BY <1>2 DEF DeviceInv, TypeOK
  <2>2. netReq.srcAddr \in {Host[c] : c \in Clients}
    BY <2>1 DEF NetRequests
  <2> QED
    BY <1>4, <2>1, <2>2 DEF genRandFileName, FileNames
<1>6. /\ checking[h] = None
      /\ UNCHANGED <<memory, used, free, object, accepted, pending, handed>>
      /\ queued' = Tail(queued)
  BY DEF PopulateSigFile, vars
<1>7. checking'[h] = [netReq |-> netReq, file |-> name] /\ checking'[h] # None
  <2>1. checking'[h] = [netReq |-> netReq, file |-> name]
    BY <1>3, <1>4 DEF IntakeInv, PrimarySees
  <2>2. [netReq |-> netReq, file |-> name] \in [netReq : NetRequests, file : FileNames]
    BY <1>5
  <2> QED
    BY <2>1, <2>2, NoneAssumption DEF NoneAssumption
<1>8. FileFresh'
  <2>1. sigFile'[name] = getSignature(netReq)
    BY <1>3, <1>4, <1>5 DEF populateSigFile, IntakeInv, PrimarySees
  <2>2. getSignature(netReq)' = getSignature(netReq)
    BY <1>6, MadeStays
  <2>3. checking'[h].file = name /\ checking'[h].netReq = netReq
    BY <1>7
  <2> QED
    BY <2>1, <2>2, <2>3 DEF FileFresh
<1>9. Judged' \subseteq Judged
  <2> SUFFICES ASSUME NEW r \in Judged' PROVE r \in Judged
    OBVIOUS
  <2>1. /\ r \in pending
        /\ \A i \in DOMAIN Tail(queued) : Tail(queued)[i] # r
        /\ checking'[h] # None => checking'[h].netReq # r
    BY <1>6 DEF Judged
  <2>2. r # netReq
    BY <1>7, <2>1
  <2>3. \A i \in DOMAIN queued : queued[i] # r
    <3> TAKE i \in DOMAIN queued
    <3>1. CASE i = 1
      BY <1>1, <1>2, <2>2, <3>1
    <3>2. CASE i # 1
      <4>1. i - 1 \in DOMAIN Tail(queued) /\ Tail(queued)[i - 1] = queued[i]
        BY <1>2, <3>2
      <4> QED
        BY <2>1, <4>1
    <3> QED
      BY <3>1, <3>2
  <2>4. \A g \in Handlers : checking[g] = None
    BY <1>6
  <2> QED
    BY <2>1, <2>3, <2>4 DEF Judged
<1>10. TerminatedAccepted'
  BY <1>6, <1>9, JudgedKeeps
<1> QED
  BY <1>8, <1>10

\* Verification succeeds if text and signature are the client's.
LEMMA VerifyJudges ==
  ASSUME DeviceInv, IntakeInv, FileFresh, TerminatedAccepted,
         NEW h \in Handlers, VerifyClient(h)
  PROVE  FileFresh' /\ TerminatedAccepted'
<1>1. PICK netReq : netReq = checking[h].netReq
  OBVIOUS
<1>2. accepted' = IF verifySignature(getKeyFileName(netReq.srcAddr),
                                     sigFile[checking[h].file], TextOf(netReq))
                  THEN accepted \cup {netReq} ELSE accepted
  BY <1>1 DEF VerifyClient
<1>3. /\ checking[h] # None
      /\ UNCHANGED <<memory, used, free, object, queued, sigFile, pending, handed>>
      /\ checking' = [checking EXCEPT ![h] = None]
  BY DEF VerifyClient, vars
<1>4. \A g \in Handlers : checking'[g] = IF g = h THEN None ELSE checking[g]
  BY <1>3 DEF IntakeInv, PrimarySees
<1>5. FileFresh'
  <2>1. \A r : getSignature(r)' = getSignature(r)
    BY <1>3 DEF getSignature
  <2>2. \A g \in Handlers : checking'[g] # None => checking'[g] = checking[g] /\ checking[g] # None
    BY <1>4
  <2> QED
    BY <1>3, <2>1, <2>2 DEF FileFresh
<1>6. TerminatedAccepted'
  <2> SUFFICES ASSUME NEW r \in Judged', Legitimate(r), Terminated(r)
               PROVE  r \in accepted'
    BY <1>3, LegitimateStays DEF TerminatedAccepted
  <2>1. /\ r \in pending
        /\ \A i \in DOMAIN queued : queued[i] # r
        /\ \A g \in Handlers : g # h /\ checking[g] # None => checking[g].netReq # r
    BY <1>3, <1>4 DEF Judged
  <2>2. CASE netReq # r
    <3>1. r \in Judged
      BY <1>1, <2>1, <2>2 DEF Judged
    <3> QED
      BY <1>2, <3>1 DEF TerminatedAccepted
  <2>3. CASE netReq = r
    <3>1. OfSegments(r) /\ Made(r)
      BY <2>1, HandedOfSegments DEF IntakeInv, MadeFromRead, DeviceInv, TypeOK
    <3>2. PICK c \in Clients : c = r.text
      BY <3>1 DEF OfSegments
    <3>3. Received(r) = Request(r.text) /\ getKeyFileName(r.srcAddr) = PrivateKey[c]
      BY <3>2 DEF Legitimate
    <3>4. TextOf(r) = Text(c) /\ getSignature(r) = Signature(c)
      BY <3>1, <3>2, <3>3, WholeIsCut
    <3>5. sigFile[checking[h].file] = Signature(c)
      BY <1>1, <1>3, <2>1, <2>3, <3>4 DEF FileFresh
    <3>6. PrivateKey[c] # None
      BY IntakeAssumption DEF IntakeAssumption
    <3>7. verifySignature(getKeyFileName(r.srcAddr), sigFile[checking[h].file], TextOf(r))
      BY <3>3, <3>4, <3>5, <3>6, SignatureDecoded DEF verifySignature
    <3> QED
      BY <1>2, <2>3, <3>7
  <2> QED
    BY <2>2, <2>3
<1> QED
  BY <1>5, <1>6

\* Steps that concern neither the primary nor a buffer.
LEMMA OthersJudge ==
  ASSUME FileFresh, TerminatedAccepted, pending' \subseteq pending,
         UNCHANGED <<memory, object, queued, accepted, checking, sigFile>>
  PROVE  FileFresh' /\ TerminatedAccepted'
<1>1. Judged' \subseteq Judged
  BY DEF Judged
<1>2. TerminatedAccepted'
  BY <1>1, JudgedKeeps
<1>3. \A r : getSignature(r)' = getSignature(r)
  BY DEF getSignature
<1>4. FileFresh'
  BY <1>3 DEF FileFresh
<1> QED
  BY <1>2, <1>4

LEMMA JudgesNext ==
  ASSUME \A g \in Handlers : \A h \in Handlers : g = h,
         DeviceInv, IntakeInv, FileFresh, TerminatedAccepted,
         [IntakeNext]_<<vars, intakeVars>>
  PROVE  FileFresh' /\ TerminatedAccepted'
<1>1. CASE DeviceStep /\ UNCHANGED intakeVars
  BY <1>1, OthersJudge
  DEF DeviceStep, Start, AwaitReady, Listen, SelectFails, Select, Scan, Accept,
      intakeVars
<1>2. CASE Receive
  <2>1. CASE pending' = pending /\ UNCHANGED intakeVars
    BY <2>1, OthersJudge DEF intakeVars
  <2>2. CASE \E netReq \in pending' \ pending : Construct(netReq)
    BY <1>2, <2>2, ConstructJudges DEF Receive
  <2> QED
    BY <1>2, <2>1, <2>2 DEF Receive
<1>3. CASE \E h \in Handlers : PopulateSigFile(h) \/ VerifyClient(h)
  BY <1>3, PopulateJudges, VerifyJudges
<1>4. CASE \E netReq \in pending : Answer(netReq)
  BY <1>4, OthersJudge DEF Answer, Run
<1>5. CASE \E c \in Clients : ClientStep(c) /\ UNCHANGED intakeVars
  BY <1>5, OthersJudge DEF ClientStep, Connect, Arrive, Close, intakeVars
<1>6. CASE UNCHANGED <<vars, intakeVars>>
  BY <1>6, OthersJudge DEF vars, intakeVars
<1> QED
  BY <1>1, <1>2, <1>3, <1>4, <1>5, <1>6 DEF IntakeNext

(***************************************************************************)
(* With a single worker the primary accepts every request that arrived in  *)
(* one piece with its sender's address, was signed with the key the        *)
(* primary has for that address, and has a zero behind it in its buffer,   *)
(* for every number of clients and buffers and whatever the buffers and    *)
(* the signature files held before.                                        *)
(***************************************************************************)
THEOREM WholeRequestsAreAccepted ==
  ASSUME \A g \in Handlers : \A h \in Handlers : g = h
  PROVE  IntakeSpec => []TerminatedAccepted
<1>1. IntakeInit => FileFresh /\ TerminatedAccepted
  BY DEF IntakeInit, Init, FileFresh, TerminatedAccepted, Judged
<1>2. /\ DeviceInv /\ IntakeInv
      /\ FileFresh /\ TerminatedAccepted
      /\ [IntakeNext]_<<vars, intakeVars>>
      => FileFresh' /\ TerminatedAccepted'
  BY JudgesNext
<1> QED
  BY <1>1, <1>2, IntakeInvHolds, PTL DEF IntakeSpec

-----------------------------------------------------------------------------
(***************************************************************************)
(* Replies reach their senders.                                            *)
(***************************************************************************)
\* Only accepted requests are answered.
LEMMA AnsweredWasAccepted ==
  ASSUME DeviceInv, [IntakeNext]_<<vars, intakeVars>>, NEW q \in pending, Run(q)
  PROVE  q \in accepted
<1>1. q \notin pending'
  BY DEF Run
<1>2. ~(DeviceStep \/ (\E c \in Clients : ClientStep(c)) \/ UNCHANGED <<vars, intakeVars>>)
  BY <1>1 DEF DeviceStep, Start, AwaitReady, Listen, SelectFails, Select, Scan, Accept,
              ClientStep, Connect, Arrive, Close, vars
<1>3. ~Receive
  BY <1>1 DEF Receive, Recv, RecvData, RecvEOF, RecvError
<1>4. ~(\E h \in Handlers : PopulateSigFile(h) \/ VerifyClient(h))
  BY <1>1 DEF PopulateSigFile, VerifyClient, vars
<1>5. PICK netReq \in pending : Answer(netReq)
  BY <1>2, <1>3, <1>4 DEF IntakeNext
<1>6. netReq \in accepted /\ pending' = pending \ {netReq}
  BY <1>5 DEF Answer, Run
<1> QED
  BY <1>1, <1>6

\* Accepted requests begin where their client's request begins.
LEMMA AcceptedIsFirst ==
  ASSUME \A c \in Clients : TextLength[c] # 0,
         DeviceInv, IntakeInv, NEW q \in pending \cap accepted
  PROVE  q \in Firsts
<1>1. OfSegments(q) /\ Made(q)
  BY HandedOfSegments DEF IntakeInv, MadeFromRead, DeviceInv, TypeOK
<1>2. PICK x \in Clients : TextOf(q) = Text(x)
  BY DEF IntakeInv, AcceptedVerified
<1>3. q.first = 1
  BY <1>1, <1>2, TextIsReply
<1> QED
  BY <1>3 DEF Firsts

(***************************************************************************)
(* A reply reaches the client whose request it answers even if requests    *)
(* come in pieces, if clients wait for their reply and send texts that are *)
(* not empty: of the pieces only the first can be accepted, so that no     *)
(* piece is answered after its client has its reply and has closed.        *)
(***************************************************************************)
THEOREM PiecesReachSenders ==
  ASSUME ~GivingUp, \A c \in Clients : TextLength[c] # 0
  PROVE  IntakeSpec => []ReplyReachesSender
<1>1. IntakeInit => AwaitsReply
  BY DEF IntakeInit, Init, AwaitsReply, Firsts, ReplyReachesSender
<1>2. DeviceInv /\ IntakeInv /\ AwaitsReply /\ [IntakeNext]_<<vars, intakeVars>> => AwaitsReply'
  <2> SUFFICES ASSUME DeviceInv, IntakeInv, AwaitsReply, [IntakeNext]_<<vars, intakeVars>>
               PROVE  AwaitsReply'
    OBVIOUS
  <2>1. [Next]_vars
    BY IntakeStepOfDevice
  <2>2. \A q \in pending : Run(q) => q \in Firsts
    BY AnsweredWasAccepted, AcceptedIsFirst
  <2> QED
    BY <2>1, <2>2, AwaitsReplyNext
<1>3. AwaitsReply => ReplyReachesSender
  BY DEF AwaitsReply
<1> QED
  BY <1>1, <1>2, <1>3, IntakeInvHolds, PTL DEF IntakeSpec
=============================================================================
