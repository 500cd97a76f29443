------------------------------- MODULE Segments -------------------------------
(***************************************************************************)
(* The cutting of a file into segments (SocketDataUtil): the first by      *)
(* sendFileId, each later one by sendFileWithTag:2 from the number that    *)
(* the router acknowledged.  FileUpload counts segments; here they are     *)
(* ranges of bytes, computed in the widths of the code: int and uint32_t   *)
(* give uint32_t, the length of an NSData is wider.                        *)
(***************************************************************************)
EXTENDS Integers

CONSTANTS
  Word,      \* 2^32 in the code
  Lengths,   \* lengths of files
  Sizes      \* values of uploadFileMaxSize: 500 KB, or 2 MB when the router was
             \* found on the local network (ReviceRadio)

ASSUME SegmentsOK == /\ Word \in Nat \ {0}
                     /\ Lengths \subseteq Nat
                     /\ Sizes \subseteq 1..(Word - 1)

VARIABLES
  length,    \* fileData.length
  max,       \* sendFileSizeMax
  seg,       \* sendFile: number, size in the header, offset, segmore
  sent       \* the bytes of the file sent so far

vars == <<length, max, seg, sent>>

U32(x) == x % Word

\* The bytes that subdataWithRange takes for segment s.
Body(s) == s.offset .. (s.offset + (IF s.more THEN max ELSE length - s.offset) - 1)

\* sendFileId: at the first segment.
FirstSegment(n, m) ==
  [seq |-> 1, offset |-> 0, more |-> n > m,
   size |-> IF n > m THEN m ELSE U32(n)]

\* The segment behind segment k.
SegmentAfter(k, more) ==
  [seq |-> U32(k + 1), offset |-> U32(k * max), more |-> more,
   size |-> IF more THEN max ELSE U32(U32(length) - U32(max * k))]

\* Mutants: an empty segment follows a file of full segments; the offset is that
\* of the acknowledged segment; the size is what is left behind the next one.
AnnouncesEmpty(k) == SegmentAfter(k, length >= U32(max * U32(k + 1)))
RepeatsOffset(k) ==
  [SegmentAfter(k, length > U32(max * U32(k + 1))) EXCEPT
     !.offset = U32((k - 1) * max)]
NegativeSize(k) ==
  [SegmentAfter(k, length > U32(max * U32(k + 1))) EXCEPT
     !.size = length - max * (k + 1)]

\* sendFileWithTag:2 when segment k is acknowledged.
NextSegment(k) == SegmentAfter(k, length > U32(max * U32(k + 1)))

Init == /\ length \in Lengths /\ max \in Sizes
        /\ seg = FirstSegment(length, max)
        /\ sent = Body(seg)

\* The answer to the current segment; segmore says whether there is another.
Acknowledged == /\ seg.more
                /\ UNCHANGED <<length, max>>
                /\ seg' = NextSegment(seg.seq)
                /\ sent' = sent \cup Body(seg)'

Next == Acknowledged
Spec == Init /\ [][Next]_vars
-----------------------------------------------------------------------------
\* Type correctness.
TypeOK == /\ length \in Nat /\ max \in Nat \ {0}
          /\ seg \in [seq : Nat, offset : Nat, more : BOOLEAN, size : Nat]
          /\ sent \subseteq Nat

\* What was sent is always a prefix of the file and, once a segment says that
\* no other follows, the whole of it.
Prefix == /\ sent = 0 .. (seg.offset + seg.size - 1)
          /\ seg.offset + seg.size <= length
          /\ ~seg.more => sent = 0 .. (length - 1)

\* The size in the header is the number of bytes behind it, at most that of a
\* segment (the router answers 4 to a longer one), and only an empty file has an
\* empty segment.
HeaderFits == /\ Body(seg) = seg.offset .. (seg.offset + seg.size - 1)
              /\ seg.size <= max
              /\ length > 0 => seg.size > 0

\* No byte of the file is sent in two segments.
NoByteTwice == [][sent \cap Body(seg)' = {}]_vars
=============================================================================
