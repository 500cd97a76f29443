---------------------------- MODULE SegmentsProofs ----------------------------
(***************************************************************************)
(* Proofs about Segments for every file and segment size that uint32_t     *)
(* holds, with one segment to spare.                                       *)
(***************************************************************************)
EXTENDS Segments, TLAPS

Fits == \A n \in Lengths, m \in Sizes : n + m < Word

\* The first three facts are the arithmetic of the code, without the words.
SegInv == /\ seg.seq > 0
          /\ seg.offset = max * (seg.seq - 1)
          /\ seg.more <=> length > max * seg.seq
          /\ seg.size = IF seg.more THEN max ELSE length - seg.offset
          /\ length > 0 => seg.offset < length
          /\ seg.offset <= length
          /\ sent = 0 .. (seg.offset + seg.size - 1)

IInv == TypeOK /\ length + max < Word /\ SegInv

LEMMA U32Fits ==
  ASSUME NEW x \in Nat, x < Word
  PROVE  U32(x) = x
BY SegmentsOK DEF U32

LEMMA Multiples ==
  ASSUME NEW m \in Nat \ {0}, NEW k \in Nat
  PROVE  /\ m * k \in Nat
         /\ m * (k + 1) = m * k + m
         /\ k * m = m * k
         /\ k <= m * k
OBVIOUS

LEMMA InitInv ==
  ASSUME Fits, Init
  PROVE  IInv
<1>1. length \in Nat /\ max \in Nat \ {0} /\ length + max < Word
  BY SegmentsOK DEF Init, Fits
<1>2. length > max \/ U32(length) = length
  BY <1>1, U32Fits, SegmentsOK
<1>3. seg = [seq |-> 1, offset |-> 0, more |-> length > max,
             size |-> IF length > max THEN max ELSE length]
  BY <1>1, <1>2, U32Fits, SegmentsOK DEF Init, FirstSegment
<1>4. /\ seg.seq = 1 /\ seg.offset = 0 /\ (seg.more <=> length > max)
      /\ seg.size = IF length > max THEN max ELSE length
  BY <1>3
<1>5. Body(seg) = seg.offset .. (seg.offset + seg.size - 1)
  <2>1. CASE length > max
    BY <1>1, <1>4, <2>1 DEF Body
  <2>2. CASE ~(length > max)
    BY <1>1, <1>4, <2>2 DEF Body
  <2>. QED BY <2>1, <2>2
<1>6. sent = 0 .. (seg.offset + seg.size - 1)
  BY <1>4, <1>5 DEF Init
<1>7. max * (seg.seq - 1) = 0 /\ max * seg.seq = max
  BY <1>1, <1>4
<1>8. TypeOK
  BY <1>1, <1>3, <1>6 DEF TypeOK
<1>9. SegInv
  BY <1>1, <1>4, <1>6, <1>7 DEF SegInv
<1>. QED BY <1>1, <1>8, <1>9 DEF IInv

LEMMA NextSegmentIs ==
  ASSUME IInv, seg.more
  PROVE  LET k == seg.seq
             p == max * k
             more == length > max * (k + 1)
         IN  NextSegment(k) = [seq |-> k + 1, offset |-> p, more |-> more,
                               size |-> IF more THEN max ELSE length - p]
<1>. DEFINE k == seg.seq
            p == max * k
<1>1. k \in Nat \ {0} /\ length \in Nat /\ max \in Nat \ {0}
      /\ length + max < Word
  BY DEF IInv, TypeOK, SegInv
<1>2. p \in Nat /\ max * (k + 1) = p + max /\ k * max = p /\ k <= p
  BY <1>1, Multiples
<1>3. p < length
  BY DEF IInv, SegInv
<1>. HIDE DEF k, p
<1>4. U32(k + 1) = k + 1 /\ U32(p) = p /\ U32(length) = length
      /\ U32(p + max) = p + max
  BY <1>1, <1>2, <1>3, U32Fits, SegmentsOK
<1>5. length - p \in Nat /\ length - p < Word
  BY <1>1, <1>2, <1>3, SegmentsOK
<1>6. U32(length - p) = length - p
  BY <1>5, U32Fits
<1>7. NextSegment(k) = [seq |-> k + 1, offset |-> p, more |-> length > p + max,
                        size |-> IF length > p + max THEN max ELSE length - p]
  BY <1>2, <1>4, <1>6 DEF NextSegment, SegmentAfter, p
<1>. QED BY <1>2, <1>7 DEF k, p

LEMMA StepInv ==
  ASSUME IInv, Acknowledged
  PROVE  IInv' /\ sent \cap Body(seg)' = {}
<1>. DEFINE k == seg.seq
            p == max * k
            b == length > p + max
<1>1. /\ k \in Nat \ {0} /\ length \in Nat /\ max \in Nat \ {0}
      /\ length + max < Word
      /\ length' = length /\ max' = max
      /\ p < length
      /\ seg.offset = max * (k - 1) /\ seg.size = max
      /\ sent = 0 .. (seg.offset + seg.size - 1)
  BY DEF IInv, TypeOK, SegInv, Acknowledged
<1>2. /\ p \in Nat
      /\ max * (k + 1) = p + max
      /\ max * (k - 1) + max = p
  BY <1>1, Multiples
<1>3. seg' = [seq |-> k + 1, offset |-> p, more |-> b,
              size |-> IF b THEN max ELSE length - p]
  BY <1>2, NextSegmentIs DEF Acknowledged
<1>4. sent = 0 .. (p - 1)
  BY <1>1, <1>2
<1>5. max' * seg'.seq = p + max /\ max' * (seg'.seq - 1) = p
  BY <1>1, <1>2, <1>3
<1>. HIDE DEF k, p
<1>f. /\ seg'.seq = k + 1 /\ seg'.offset = p /\ (seg'.more <=> b)
      /\ seg'.size = IF b THEN max ELSE length - p
  BY <1>3
<1>6. Body(seg)' = p .. (p + seg'.size - 1) /\ seg'.size \in Nat
      /\ p + seg'.size <= length
  <2>1. Body(seg)' = p .. (p + (IF b THEN max ELSE length - p) - 1)
    BY <1>1, <1>f DEF Body
  <2>. QED BY <1>1, <1>2, <1>f, <2>1
<1>7. sent' = 0 .. (p + seg'.size - 1)
  BY <1>1, <1>2, <1>4, <1>6 DEF Acknowledged
<1>8. IInv'
  <2>1. TypeOK'
    BY <1>1, <1>2, <1>3, <1>6, <1>7 DEF TypeOK
  <2>2. SegInv'
    BY <1>1, <1>2, <1>f, <1>5, <1>6, <1>7 DEF SegInv
  <2>. QED BY <1>1, <2>1, <2>2 DEF IInv
<1>9. sent \cap Body(seg)' = {}
  BY <1>2, <1>4, <1>6
<1>. QED BY <1>8, <1>9

\* The arithmetic of the code does what it means to (sendFileId,
\* sendFileWithTag:2), for files whose length is below 2^32 - uploadFileMaxSize.
THEOREM SegmentArithmetic ==
  ASSUME Fits
  PROVE  Spec => []IInv
<1>1. IInv /\ [Next]_vars => IInv'
  <2>1. ASSUME IInv, UNCHANGED vars
        PROVE  IInv'
    BY <2>1 DEF vars, IInv, TypeOK, SegInv
  <2>. QED BY <2>1, StepInv DEF Next
<1>. QED BY InitInv, <1>1, PTL DEF Spec

\* The numbers in the headers are natural numbers, never the result of a
\* subtraction that went below zero (sendFileWithTag:2).
THEOREM SegmentsTyped ==
  ASSUME Fits
  PROVE  Spec => []TypeOK
<1>1. IInv => TypeOK
  BY DEF IInv
<1>. QED BY <1>1, SegmentArithmetic, PTL

\* What was sent is a prefix of the file, and all of it after the last segment.
THEOREM SegmentsCoverFile ==
  ASSUME Fits
  PROVE  Spec => []Prefix
<1>1. IInv => Prefix
  <2>. SUFFICES ASSUME IInv PROVE Prefix
    OBVIOUS
  <2>1. seg.offset \in Nat /\ length \in Nat /\ max \in Nat \ {0} /\ seg.seq \in Nat
    BY DEF IInv, TypeOK
  <2>2. max * ((seg.seq - 1) + 1) = max * (seg.seq - 1) + max
    BY <2>1, Multiples DEF IInv, SegInv
  <2>3. seg.offset + max = max * seg.seq
    BY <2>1, <2>2 DEF IInv, SegInv
  <2>. QED BY <2>1, <2>3 DEF IInv, SegInv, Prefix
<1>. QED BY <1>1, SegmentArithmetic, PTL

\* Header and bytes agree; no segment is empty or too long.
THEOREM HeadersFit ==
  ASSUME Fits
  PROVE  Spec => []HeaderFits
<1>1. IInv => HeaderFits
  <2>. SUFFICES ASSUME IInv PROVE HeaderFits
    OBVIOUS
  <2>1. seg.offset \in Nat /\ length \in Nat /\ max \in Nat \ {0} /\ seg.seq \in Nat
    BY DEF IInv, TypeOK
  <2>2. max * ((seg.seq - 1) + 1) = max * (seg.seq - 1) + max
    BY <2>1, Multiples DEF IInv, SegInv
  <2>3. seg.offset + max = max * seg.seq
    BY <2>1, <2>2 DEF IInv, SegInv
  <2>. QED BY <2>1, <2>3 DEF IInv, SegInv, TypeOK, HeaderFits, Body
<1>. QED BY <1>1, SegmentArithmetic, PTL

\* No byte of the file is sent in two segments.
THEOREM NoByteIsSentTwice ==
  ASSUME Fits
  PROVE  Spec => NoByteTwice
<1>1. IInv /\ [Next]_vars => [sent \cap Body(seg)' = {}]_vars
  BY StepInv DEF Next
<1>. QED BY <1>1, SegmentArithmetic, PTL DEF Spec, NoByteTwice
=============================================================================
