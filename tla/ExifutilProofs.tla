---------------------------- MODULE ExifutilProofs ----------------------------
(***************************************************************************)
(* Proofs about Exifutil, for any set of bytes, any files and options.     *)
(***************************************************************************)
EXTENDS Exifutil, TLAPS

Offsets == 0 .. MaxSize - 1
Segments == [at : Offsets, marker : Bytes]

\* The two bytes of the length field of a segment have been read.
LengthRead(o) ==
  /\ o + 3 < size
  /\ content[o + 2] \in Bytes /\ content[o + 3] \in Bytes

\* The bytes in from .. to - 1 have been read, and no marker begins there.
NoMarker(from, to) ==
  \A o \in from .. to - 1 :
    /\ o < size /\ content[o] \in Bytes
    /\ content[o] = FF => o + 1 < to /\ content[o + 1] \in RST \union {0}

\* What has been read of the file says that segment s ends at e.
EndsAt(s, e) ==
  IF s.marker = SOI THEN e = s.at + 2
  ELSE /\ LengthRead(s.at)
       /\ IF s.marker = SOS
          THEN LET from == s.at + 2 + LengthAt(s.at)
               IN /\ e \in Nat /\ from <= e /\ e + 1 < size
                  /\ NoMarker(from, e)
                  /\ content[e] = FF /\ content[e + 1] \in Bytes \ (RST \union {0})
          ELSE e = s.at + 2 + LengthAt(s.at)

Last == seen[Len(seen)]

\* What a handler of jpeg_walk has read of the segment it was called for.
InSegment(s) ==
  /\ pc \in Handlers => pc = Handler(s.marker) /\ position = s.at + 2
  /\ pc \in {"scan", "scan_ff", "app1_buffer", "app1_data"} => LengthRead(s.at)
  /\ pc \in {"scan", "scan_ff"} =>
       s.marker = SOS /\ s.at + 2 + LengthAt(s.at) <= position
  /\ pc = "scan" => NoMarker(s.at + 2 + LengthAt(s.at), position)
  /\ pc = "scan_ff" =>
       /\ s.at + 2 + LengthAt(s.at) < position /\ position <= size
       /\ NoMarker(s.at + 2 + LengthAt(s.at), position - 1) /\ content[position - 1] = FF
  /\ pc \in {"app1_buffer", "app1_data"} => s.marker # SOS
  /\ pc = "app1_buffer" => len_field = LengthAt(s.at) /\ position = s.at + 4
  /\ pc = "app1_data" => position = s.at + 2 + LengthAt(s.at)

\* The stream is where the last segment ends, or in it, with its handler.
LastInv ==
  /\ pc = "walk" /\ seen # <<>> => EndsAt(Last, position)
  /\ pc \in Walk \ {"walk"} => seen # <<>> /\ Last.marker # SOI /\ InSegment(Last)

\* Of the last two segments, the second begins where the first one ends.
PairInv ==
  Len(seen) = 2 =>
    /\ EndsAt(seen[1], seen[2].at)
    /\ seen[1].marker \notin {SOI, SOS} => LengthAt(seen[1].at) >= 2

\* The option whose stream is lost has been counted.
LoadInv == pc = "load" => lost < options

IInv == TypeOK /\ LoadInv /\ LastInv /\ PairInv

-------------------------------------------------------------------------------
(* The length of a segment. *)

\* Two bytes make a length, and less than two only by the last one.
LEMMA BigEndianBounds ==
  ASSUME NEW b \in Bytes, NEW c \in Bytes
  PROVE  /\ BigEndian(b, c) \in Length
         /\ BigEndian(b, c) < 2 => BigEndian(b, c) = c
<1> DEFINE n == ByteValues
<1>1. n \in Nat /\ n > 1 /\ b \in 0 .. n - 1 /\ c \in 0 .. n - 1
  BY ByteAssumption
<1> HIDE DEF n
<1>2. b * n \in Nat /\ b * n <= n * n - n
  <2>1. (n - 1) * n = n * n - n
    BY <1>1
  <2>2. b * n <= (n - 1) * n
    BY <1>1
  <2> QED
    BY <1>1, <2>1, <2>2
<1>3. b > 0 => b * n >= n
  BY <1>1
<1>4. b * n + c \in 0 .. n * n - 1
  <2>1. n * n \in Nat
    BY <1>1
  <2> QED
    BY <1>1, <1>2, <2>1
<1>5. b * n + c < 2 => b * n + c = c
  <2>1. CASE b > 0
    BY <1>1, <1>2, <1>3, <2>1
  <2>2. CASE b = 0
    BY <1>1, <2>2
  <2> QED
    BY <1>1, <2>1, <2>2
<1> QED
  BY <1>4, <1>5 DEF BigEndian, Length, n

\* The length field that has been read is a length.
LEMMA LengthOfRead ==
  ASSUME NEW o \in Nat, LengthRead(o)
  PROVE  /\ LengthAt(o) \in Length /\ LengthAt(o) \in Nat
         /\ LengthAt(o) < 2 => LengthAt(o) = content[o + 3]
<1>1. LengthAt(o) \in Length /\ (LengthAt(o) < 2 => LengthAt(o) = content[o + 3])
  BY BigEndianBounds DEF LengthRead, LengthAt
<1> QED
  BY <1>1 DEF Length

-------------------------------------------------------------------------------
(* What has been read stays. *)

\* No byte that has been read changes.
Grows ==
  /\ size' = size
  /\ \A o \in Offsets : content[o] # Unread => content'[o] = content[o]

\* A byte is not the mark of one that has not been read.
LEMMA BytesAreRead == Unread \notin Bytes /\ Bytes \subseteq Nat
BY ByteAssumption DEF Unread

\* A byte that has been read in the file stays.
LEMMA ReadStays ==
  ASSUME TypeOK, Grows, NEW o \in Nat, o < size, content[o] \in Bytes
  PROVE  content'[o] = content[o]
<1>1. o \in Offsets
  BY ByteAssumption DEF TypeOK, Offsets
<1> QED
  BY <1>1, BytesAreRead DEF Grows

\* Lengths stay.
LEMMA LengthStays ==
  ASSUME TypeOK, Grows, NEW o \in Nat, LengthRead(o)
  PROVE  LengthRead(o)' /\ LengthAt(o)' = LengthAt(o)
<1>1. /\ size' = size /\ o + 2 \in Nat /\ o + 3 \in Nat /\ size \in Nat
      /\ o + 3 < size /\ content[o + 2] \in Bytes /\ content[o + 3] \in Bytes
  BY DEF TypeOK, Grows, LengthRead
<1>2. content'[o + 2] = content[o + 2] /\ content'[o + 3] = content[o + 3]
  BY <1>1, ReadStays
<1> QED
  BY <1>1, <1>2 DEF LengthRead, LengthAt

\* A marker stays away.
LEMMA NoMarkerStays ==
  ASSUME TypeOK, Grows, NEW from \in Nat, NEW to \in Nat, NoMarker(from, to)
  PROVE  NoMarker(from, to)'
<1>1. ASSUME NEW o \in from .. to - 1
      PROVE  /\ o < size' /\ content'[o] \in Bytes
             /\ content'[o] = FF => o + 1 < to /\ content'[o + 1] \in RST \union {0}
  <2>1. /\ o \in Nat /\ o < size /\ content[o] \in Bytes /\ size' = size
        /\ content[o] = FF => o + 1 < to /\ content[o + 1] \in RST \union {0}
    BY DEF NoMarker, Grows
  <2>2. content'[o] = content[o]
    BY <2>1, ReadStays
  <2>3. ASSUME content[o] = FF
        PROVE  content'[o + 1] = content[o + 1]
    <3>1. o + 1 \in from .. to - 1
      BY <2>1, <2>3
    <3>2. o + 1 \in Nat /\ o + 1 < size /\ content[o + 1] \in Bytes
      BY <3>1 DEF NoMarker
    <3> QED
      BY <3>2, ReadStays
  <2> QED
    BY <2>1, <2>2, <2>3
<1> QED
  BY <1>1 DEF NoMarker

\* So does the end of a segment.
LEMMA EndStays ==
  ASSUME TypeOK, Grows, NEW s \in Segments, NEW e \in Nat, EndsAt(s, e)
  PROVE  EndsAt(s, e)'
<1>1. s.at \in Nat /\ size' = size
  BY DEF Segments, Offsets, Grows
<1>2. CASE s.marker = SOI
  BY <1>2 DEF EndsAt
<1>3. CASE s.marker # SOI
  <2>1. LengthRead(s.at) /\ LengthRead(s.at)' /\ LengthAt(s.at)' = LengthAt(s.at)
    BY <1>1, <1>3, LengthStays DEF EndsAt
  <2>2. CASE s.marker # SOS
    BY <1>3, <2>1, <2>2 DEF EndsAt
  <2>3. CASE s.marker = SOS
    <3> DEFINE from == s.at + 2 + LengthAt(s.at)
    <3>1. /\ from <= e /\ e + 1 < size /\ NoMarker(from, e)
          /\ content[e] = FF /\ content[e + 1] \in Bytes \ (RST \union {0})
      BY <1>3, <2>3 DEF EndsAt
    <3>2. from \in Nat
      BY <1>1, <2>1, LengthOfRead
    <3>3. PICK f \in Nat : f = from
      BY <3>2
    <3>4. NoMarker(f, e)'
      BY <3>1, <3>3, NoMarkerStays
    <3>5. content'[e] = content[e] /\ content'[e + 1] = content[e + 1]
      <4>1. e < size /\ e + 1 \in Nat /\ FF \in Bytes
        BY <3>1, ByteAssumption DEF TypeOK
      <4> QED
        BY <3>1, <4>1, ReadStays
    <3> QED
      BY <1>1, <1>3, <2>1, <2>3, <3>1, <3>3, <3>4, <3>5 DEF EndsAt
  <2> QED
    BY <2>2, <2>3
<1> QED
  BY <1>2, <1>3

\* The last two segments stay one behind the other.
LEMMA PairStays ==
  ASSUME TypeOK, PairInv, Grows, seen' = seen
  PROVE  PairInv'
<1> SUFFICES ASSUME Len(seen) = 2
             PROVE  /\ EndsAt(seen[1], seen[2].at)'
                    /\ seen[1].marker \notin {SOI, SOS} => LengthAt(seen[1].at)' >= 2
  BY DEF PairInv
<1>1. seen[1] \in Segments /\ seen[2] \in Segments
  <2>1. seen \in Seq(Segments)
    BY DEF TypeOK, Segments, Offsets
  <2> QED
    BY <2>1
<1>2. PICK s \in Segments, e \in Nat : s = seen[1] /\ e = seen[2].at
  BY <1>1 DEF Segments, Offsets
<1>3. EndsAt(s, e) /\ (s.marker \notin {SOI, SOS} => LengthAt(s.at) >= 2)
  BY <1>2 DEF PairInv
<1>4. EndsAt(s, e)'
  BY <1>3, EndStays
<1>5. s.marker \notin {SOI, SOS} => LengthAt(s.at)' = LengthAt(s.at)
  BY <1>3, LengthStays DEF EndsAt, Segments, Offsets
<1> QED
  BY <1>2, <1>3, <1>4, <1>5

\* Two bytes are read: nothing that has been read changes.
LEMMA TwoBytesRead ==
  ASSUME TypeOK, NEW b \in Bytes, NEW c \in Bytes,
         position + 1 < size, size' = size,
         content[position] \in {b, Unread}, content[position + 1] \in {c, Unread},
         content' = [content EXCEPT ![position] = b, ![position + 1] = c]
  PROVE  /\ content' \in [Offsets -> Bytes \union {Unread}] /\ Grows
         /\ position \in Offsets /\ content'[position] = b /\ content'[position + 1] = c
<1>1. /\ content \in [Offsets -> Bytes \union {Unread}]
      /\ position \in Offsets /\ position + 1 \in Offsets /\ position # position + 1
  BY ByteAssumption DEF TypeOK, Offsets
<1>2. PICK p \in Offsets, q \in Offsets : p = position /\ q = position + 1 /\ p # q
  BY <1>1
<1>3. content' = [content EXCEPT ![p] = b, ![q] = c]
  BY <1>2
<1>4. /\ content' \in [Offsets -> Bytes \union {Unread}]
      /\ content'[p] = b /\ content'[q] = c
      /\ \A o \in Offsets \ {p, q} : content'[o] = content[o]
  BY <1>1, <1>2, <1>3
<1>5. Grows
  BY <1>2, <1>4 DEF Grows
<1> QED
  BY <1>2, <1>4, <1>5

\* One byte is read.
LEMMA ByteRead ==
  ASSUME TypeOK, NEW b \in Bytes, position < size, size' = size,
         content[position] \in {b, Unread},
         content' = [content EXCEPT ![position] = b]
  PROVE  /\ content' \in [Offsets -> Bytes \union {Unread}] /\ Grows
         /\ position \in Offsets /\ content'[position] = b
<1>1. /\ content \in [Offsets -> Bytes \union {Unread}] /\ position \in Offsets
  BY ByteAssumption DEF TypeOK, Offsets
<1>2. PICK p \in Offsets : p = position
  BY <1>1
<1>3. content' = [content EXCEPT ![p] = b]
  BY <1>2
<1>4. /\ content' \in [Offsets -> Bytes \union {Unread}] /\ content'[p] = b
      /\ \A o \in Offsets \ {p} : content'[o] = content[o]
  BY <1>1, <1>3
<1>5. Grows
  BY <1>2, <1>4 DEF Grows
<1> QED
  BY <1>2, <1>4, <1>5

\* The last segment that was seen is one.
LEMMA LastIsSegment ==
  ASSUME TypeOK, seen # <<>>
  PROVE  Last \in Segments /\ Last.at \in Nat /\ Last.marker \in Bytes
<1>1. seen \in Seq(Segments)
  BY DEF TypeOK, Segments, Offsets
<1>2. Last \in Segments
  BY <1>1 DEF Last
<1> QED
  BY <1>2 DEF Segments, Offsets

-------------------------------------------------------------------------------
(* The invariant. *)

\* The invariant holds when the program starts.
LEMMA InitIInv == Init => IInv
<1> SUFFICES ASSUME Init PROVE IInv
  OBVIOUS
<1>1. TypeOK
  <2>1. 0 \in Length
    BY ByteAssumption, BigEndianBounds, 0 * ByteValues + 0 = 0 DEF BigEndian
  <2>2. seen \in Seq([at : 0 .. MaxSize - 1, marker : Bytes]) /\ Len(seen) <= 2
    BY DEF Init
  <2>3. content \in [0 .. MaxSize - 1 -> Bytes \union {Unread}]
    BY DEF Init, Blank
  <2>4. 0 \in 0 .. MaxSize /\ 0 \in 0 .. MaxOptions /\ 0 \in 0 .. 0
    BY ByteAssumption
  <2>5. pc = "getopt" /\ pc \notin Walk
    BY DEF Init, Walk, Handlers
  <2>6. held \subseteq Resources
    BY DEF Init
  <2> QED
    BY <2>1, <2>2, <2>3, <2>4, <2>5, <2>6 DEF Init, TypeOK
<1>2. LoadInv /\ LastInv /\ PairInv
  BY DEF Init, LoadInv, LastInv, PairInv, Walk, Handlers
<1> QED
  BY <1>1, <1>2 DEF IInv

\* Options and resources: no file is walked over.
LEMMA MainStep ==
  ASSUME IInv,
         \/ OptionFile \/ HandlersFail \/ OptionUnknown \/ EndOfOptions \/ show_usage
         \/ OpenFails \/ CallocFails \/ StrdupFails
  PROVE  IInv'
<1>1. UNCHANGED <<size, content, position, len_field, encount_soi, seen>>
  BY DEF OptionFile, HandlersFail, OptionUnknown, EndOfOptions, show_usage, OpenFails,
         CallocFails, StrdupFails, stream
<1>2. pc' \in {"getopt", "load", "ended", "usage", "crashed"} /\ pc' \notin Walk
  BY DEF OptionFile, HandlersFail, OptionUnknown, EndOfOptions, show_usage, OpenFails,
         CallocFails, StrdupFails, Walk, Handlers
<1>3. /\ options' \in 0 .. MaxOptions /\ lost' \in 0 .. options'
      /\ filepath' \in {"file", "NULL"} /\ held' \subseteq Resources
      /\ LoadInv'
  <2>1. /\ options \in 0 .. MaxOptions /\ lost \in 0 .. options /\ MaxOptions \in Nat
        /\ filepath \in {"file", "NULL"} /\ held \subseteq Resources
        /\ pc = "load" => lost < options
    BY ByteAssumption DEF IInv, TypeOK, LoadInv
  <2>2. CASE OptionFile
    BY <2>1, <2>2 DEF LoadInv, OptionFile, Resources
  <2>3. CASE OptionUnknown
    BY <2>1, <2>3 DEF LoadInv, OptionUnknown
  <2>4. CASE HandlersFail \/ EndOfOptions \/ show_usage
    BY <2>1, <2>4 DEF LoadInv, HandlersFail, EndOfOptions, show_usage
  <2>5. CASE OpenFails \/ StrdupFails
    BY <2>1, <2>5 DEF LoadInv, OpenFails, StrdupFails
  <2>6. CASE CallocFails
    BY <2>1, <2>6 DEF LoadInv, CallocFails
  <2> QED
    BY <2>2, <2>3, <2>4, <2>5, <2>6
<1>4. TypeOK'
  BY <1>1, <1>2, <1>3 DEF IInv, TypeOK
<1>5. LastInv'
  BY <1>2 DEF LastInv, Walk
<1>6. PairInv'
  BY <1>1, PairStays DEF IInv, Grows
<1> QED
  BY <1>3, <1>4, <1>5, <1>6 DEF IInv

\* A file is opened, or given back, with nothing seen of it.
LEMMA FileStep ==
  ASSUME IInv, Load \/ Release
  PROVE  IInv'
<1>1. /\ UNCHANGED <<options, lost>> /\ seen' = <<>> /\ position' = 0
      /\ size' \in 0 .. MaxSize /\ content' = Blank
      /\ (pc' = "walk" /\ held' = Resources) \/ (pc' = "getopt" /\ held' = {})
      /\ filepath' = filepath /\ encount_soi' = FALSE
      /\ len_field' \in {len_field, 0}
  BY ByteAssumption DEF Load, Release
<1>2. 0 \in Length
  BY ByteAssumption, BigEndianBounds, 0 * ByteValues + 0 = 0 DEF BigEndian
<1>3. TypeOK'
  <2>1. seen' \in Seq([at : 0 .. MaxSize - 1, marker : Bytes]) /\ Len(seen') <= 2
    BY <1>1
  <2>2. content' \in [0 .. MaxSize - 1 -> Bytes \union {Unread}]
    BY <1>1 DEF Blank
  <2>3. pc' \in Walk => held' = Resources
    BY <1>1 DEF Walk, Handlers
  <2>4. /\ pc' \in Walk \union {"getopt", "load", "release", "ended", "usage", "crashed"}
        /\ held' \subseteq Resources /\ len_field' \in Length
    BY <1>1, <1>2 DEF IInv, TypeOK, Walk
  <2> QED
    BY <1>1, <2>1, <2>2, <2>3, <2>4 DEF IInv, TypeOK
<1>4. LoadInv' /\ LastInv' /\ PairInv'
  BY <1>1 DEF LoadInv, LastInv, PairInv, Walk, Handlers
<1> QED
  BY <1>3, <1>4 DEF IInv

-------------------------------------------------------------------------------
(* The walk. *)

\* A step of a walk keeps the types when what it sets has them.
LEMMA WalkTypes ==
  ASSUME TypeOK, pc \in Walk, pc' \in Walk \union {"release"}, UNCHANGED mainVars, size' = size,
         content' \in [Offsets -> Bytes \union {Unread}], position' \in Nat,
         len_field' \in Length, encount_soi' \in BOOLEAN,
         seen' \in Seq(Segments), Len(seen') <= 2
  PROVE  TypeOK' /\ LoadInv'
<1>1. /\ pc' \in Walk \union {"getopt", "load", "release", "ended", "usage", "crashed"}
      /\ pc' # "load"
  BY DEF Walk, Handlers
<1>2. UNCHANGED <<options, filepath, held, lost>>
  BY DEF mainVars
<1> QED
  BY <1>1, <1>2 DEF TypeOK, LoadInv, Segments, Offsets

\* The types of what a step may leave alone.
LEMMA OldTypes ==
  ASSUME TypeOK
  PROVE  /\ content \in [Offsets -> Bytes \union {Unread}] /\ position \in Nat
         /\ len_field \in Length /\ encount_soi \in BOOLEAN
         /\ seen \in Seq(Segments) /\ Len(seen) <= 2
BY DEF TypeOK, Segments, Offsets

\* Two bytes are read, and the stream goes on.
LEMMA MarkerRead ==
  ASSUME TypeOK, NEW b \in Bytes, NEW c \in Bytes, Read2(b, c)
  PROVE  /\ size' = size /\ content' \in [Offsets -> Bytes \union {Unread}] /\ Grows
         /\ position' \in Nat /\ position' = position + 2
<1>1. /\ position + 1 < size /\ size' = size
      /\ content[position] \in {b, Unread} /\ content[position + 1] \in {c, Unread}
      /\ content' = [content EXCEPT ![position] = b, ![position + 1] = c]
      /\ position' = position + 2
  BY DEF Read2
<1>2. position' \in Nat
  BY <1>1, OldTypes
<1> QED
  BY <1>1, <1>2, TwoBytesRead

\* A walk returns: from the end of the file, from no marker, from a failure.
LEMMA ReturnStep ==
  ASSUME IInv,
         \/ WalkTruncated \/ HandlerTruncated \/ ScanTruncated \/ App1Fails \/ App1Unsupported
         \/ WalkEnd \/ \E b, c \in Bytes : WalkInvalid(b, c)
  PROVE  IInv'
<1>1. /\ TypeOK /\ pc \in Walk /\ pc' = "release" /\ UNCHANGED mainVars
      /\ UNCHANGED <<len_field, encount_soi, seen>>
  BY DEF IInv, WalkTruncated, HandlerTruncated, ScanTruncated, App1Fails, App1Unsupported,
         WalkEnd, WalkInvalid, Return, Walk, Handlers
<1>2. /\ size' = size /\ content' \in [Offsets -> Bytes \union {Unread}] /\ Grows
      /\ position' \in Nat
  <2>1. CASE UNCHANGED stream
    BY <1>1, <2>1, OldTypes DEF stream, Grows
  <2>2. ASSUME NEW b \in Bytes, NEW c \in Bytes, Read2(b, c)
        PROVE  /\ size' = size /\ content' \in [Offsets -> Bytes \union {Unread}] /\ Grows
               /\ position' \in Nat
    BY <1>1, <2>2, MarkerRead
  <2>3. CASE WalkTruncated \/ HandlerTruncated \/ ScanTruncated \/ App1Fails \/ App1Unsupported
    <3>1. UNCHANGED stream
      BY <2>3 DEF WalkTruncated, HandlerTruncated, ScanTruncated, App1Fails, App1Unsupported
    <3> QED
      BY <2>1, <3>1
  <2>4. CASE WalkEnd
    BY <2>2, <2>4, ByteAssumption DEF WalkEnd
  <2>5. CASE \E b, c \in Bytes : WalkInvalid(b, c)
    BY <2>2, <2>5 DEF WalkInvalid
  <2> QED
    BY <2>3, <2>4, <2>5
<1>3. TypeOK' /\ LoadInv'
  BY <1>1, <1>2, WalkTypes, OldTypes
<1>4. LastInv'
  BY <1>1 DEF LastInv, Walk, Handlers
<1>5. PairInv'
  BY <1>1, <1>2, PairStays DEF IInv
<1> QED
  BY <1>3, <1>4, <1>5 DEF IInv

\* An assertion about EXIF data fails.
LEMMA CrashStep ==
  ASSUME IInv, App1Crashes
  PROVE  IInv'
<1>1. /\ TypeOK /\ pc' = "crashed" /\ pc' \notin Walk /\ held' = {}
      /\ UNCHANGED <<options, filepath, lost, size, content, position, len_field, encount_soi,
                     seen>>
  BY DEF IInv, App1Crashes, stream, Walk, Handlers
<1>2. TypeOK' /\ LoadInv'
  BY <1>1 DEF TypeOK, LoadInv
<1>3. LastInv'
  BY <1>1 DEF LastInv, Walk
<1>4. PairInv'
  BY <1>1, PairStays DEF IInv, Grows
<1> QED
  BY <1>2, <1>3, <1>4 DEF IInv

\* Where a segment ends that is followed by a marker, the format says so.
LEMMA LengthIsValid ==
  ASSUME TypeOK, NEW s \in Segments, NEW e \in Nat, EndsAt(s, e), s.marker \notin {SOI, SOS},
         e < size, content[e] \in {FF, Unread}
  PROVE  LengthAt(s.at) >= 2
<1>1. s.at \in Nat /\ LengthRead(s.at) /\ e = s.at + 2 + LengthAt(s.at)
  BY DEF Segments, Offsets, EndsAt
<1>2. LengthAt(s.at) \in Nat /\ (LengthAt(s.at) < 2 => LengthAt(s.at) = content[s.at + 3])
  BY <1>1, LengthOfRead
<1>3. content[s.at + 2] \in Bytes /\ content[s.at + 3] \in Bytes
  BY <1>1 DEF LengthRead
<1>4. ASSUME LengthAt(s.at) = 1 PROVE FALSE
  <2>1. e = s.at + 3 /\ content[s.at + 3] = 1
    BY <1>1, <1>2, <1>4
  <2> QED
    BY <2>1, ByteAssumption DEF Unread
<1>5. ASSUME LengthAt(s.at) = 0 PROVE FALSE
  <2>1. e = s.at + 2 /\ content[s.at + 3] = 0
    BY <1>1, <1>2, <1>5
  <2>2. content[s.at + 2] * ByteValues + 0 = 0
    BY <1>5, <2>1 DEF LengthAt, BigEndian
  <2>3. content[s.at + 2] = 0
    <3>1. PICK b \in Nat, n \in Nat : b = content[s.at + 2] /\ n = ByteValues /\ n > 1
      BY <1>3, ByteAssumption, BytesAreRead
    <3>2. b * n = 0
      BY <2>2, <3>1
    <3>3. b > 0 => b * n > 0
      BY <3>1
    <3> QED
      BY <3>1, <3>2, <3>3
  <2> QED
    BY <1>3, <2>1, <2>3, ByteAssumption DEF Unread
<1> QED
  BY <1>2, <1>4, <1>5

\* A marker is read where the last segment ends, and only the last two are kept.
LEMMA SeenStep ==
  ASSUME IInv, NEW marker \in Bytes, pc = "walk", Read2(FF, marker), seen' = SeenAlso(marker)
  PROVE  /\ content' \in [Offsets -> Bytes \union {Unread}] /\ size' = size
         /\ position' = position + 2 /\ position' \in Nat
         /\ seen' \in Seq(Segments) /\ Len(seen') <= 2 /\ seen' # <<>>
         /\ Last' = [at |-> position, marker |-> marker]
         /\ PairInv'
<1> DEFINE new == [at |-> position, marker |-> marker]
<1>1. TypeOK /\ FF \in Bytes
  BY ByteAssumption DEF IInv
<1>2. /\ size' = size /\ position' = position + 2 /\ position + 1 < size
      /\ content' \in [Offsets -> Bytes \union {Unread}] /\ Grows
      /\ position \in Offsets
      /\ content[position] \in {FF, Unread}
  BY <1>1, TwoBytesRead DEF Read2
<1>3. new \in Segments /\ position \in Nat
  BY <1>2 DEF Segments, Offsets
<1>4. seen \in Seq(Segments) /\ (Len(seen) = 0 \/ Len(seen) = 1 \/ Len(seen) = 2)
  <2>1. seen \in Seq(Segments) /\ Len(seen) <= 2
    BY <1>1, OldTypes
  <2>2. PICK n \in Nat : n = Len(seen)
    BY <2>1
  <2> QED
    BY <2>1, <2>2
<1> HIDE DEF new
<1>5. /\ seen' \in Seq(Segments) /\ Len(seen') <= 2 /\ Len(seen') > 0
      /\ seen'[Len(seen')] = new
      /\ Len(seen') = 2 => seen # <<>> /\ seen'[1] = Last /\ seen'[2] = new
  <2>1. CASE seen = <<>>
    <3>1. seen' = <<new>>
      BY <2>1 DEF SeenAlso, new
    <3> QED
      BY <1>3, <3>1
  <2>2. CASE seen # <<>>
    <3>1. PICK last \in Segments : last = Last
      BY <1>1, <2>2, LastIsSegment
    <3>2. seen' = <<last, new>>
      BY <2>2, <3>1 DEF SeenAlso, new, Last
    <3>3. /\ <<last, new>> \in Seq(Segments) /\ Len(<<last, new>>) = 2
          /\ <<last, new>>[1] = last /\ <<last, new>>[2] = new
      BY <1>3
    <3> QED
      BY <2>2, <3>1, <3>2, <3>3
  <2> QED
    BY <2>1, <2>2
<1>7. PairInv'
  <2> SUFFICES ASSUME Len(seen') = 2
               PROVE  /\ EndsAt(seen[1], seen[2].at)'
                      /\ (seen[1].marker \notin {SOI, SOS} => LengthAt(seen[1].at) >= 2)'
    BY DEF PairInv
  <2>1. seen # <<>> /\ seen'[1] = Last /\ seen'[2].at = position
    BY <1>5 DEF new
  <2>2. PICK s \in Segments, e \in Nat : s = Last /\ e = position
    BY <1>1, <1>3, <2>1, LastIsSegment
  <2>3. EndsAt(s, e)
    BY <2>1, <2>2 DEF IInv, LastInv
  <2>4. EndsAt(s, e)'
    BY <1>1, <1>2, <2>3, EndStays
  <2>5. s.marker \notin {SOI, SOS} => LengthAt(s.at) >= 2
    <3>1. e < size
      BY <1>1, <1>2, <2>2 DEF TypeOK
    <3> QED
      BY <1>1, <1>2, <2>2, <2>3, <3>1, LengthIsValid
  <2>6. s.marker \notin {SOI, SOS} => LengthAt(s.at)' = LengthAt(s.at)
    BY <1>1, <1>2, <2>3, LengthStays DEF EndsAt, Segments, Offsets
  <2> QED
    BY <2>1, <2>2, <2>4, <2>5, <2>6
<1>8. seen' # <<>>
  BY <1>5
<1>9. Last' = new
  BY <1>5 DEF Last
<1> QED
  BY <1>2, <1>3, <1>5, <1>7, <1>8, <1>9 DEF new

\* SOI, or a segment with a handler, is seen.
LEMMA MarkerStep ==
  ASSUME IInv, WalkStart \/ \E marker \in Bytes : WalkSegment(marker)
  PROVE  IInv'
<1>1. TypeOK /\ SOI \in Bytes
  BY ByteAssumption DEF IInv
<1>2. CASE WalkStart
  <2>1. /\ content' \in [Offsets -> Bytes \union {Unread}] /\ size' = size
        /\ position' = position + 2 /\ position' \in Nat
        /\ seen' \in Seq(Segments) /\ Len(seen') <= 2 /\ seen' # <<>>
        /\ Last' = [at |-> position, marker |-> SOI]
        /\ PairInv'
    BY <1>1, <1>2, SeenStep DEF WalkStart
  <2>2. pc = "walk" /\ pc' = "walk" /\ UNCHANGED <<mainVars, len_field>> /\ encount_soi' = TRUE
    BY <1>2 DEF WalkStart
  <2>3. TypeOK' /\ LoadInv'
    <3>1. "walk" \in Walk
      BY DEF Walk
    <3> QED
      BY <1>1, <2>1, <2>2, <3>1, WalkTypes, OldTypes
  <2>4. LastInv'
    BY <2>1, <2>2 DEF LastInv, EndsAt
  <2> QED
    BY <2>1, <2>3, <2>4 DEF IInv
<1>3. ASSUME NEW marker \in Bytes, WalkSegment(marker)
      PROVE  IInv'
  <2>1. /\ content' \in [Offsets -> Bytes \union {Unread}] /\ size' = size
        /\ position' = position + 2 /\ position' \in Nat
        /\ seen' \in Seq(Segments) /\ Len(seen') <= 2 /\ seen' # <<>>
        /\ Last' = [at |-> position, marker |-> marker]
        /\ PairInv'
    BY <1>3, SeenStep DEF WalkSegment
  <2>2. /\ pc = "walk" /\ pc' = Handler(marker) /\ UNCHANGED <<mainVars, len_field, encount_soi>>
        /\ marker # SOI
    BY <1>3 DEF WalkSegment
  <2>3. pc' \in Handlers /\ pc \in Walk /\ pc' \in Walk
    BY <2>2 DEF Handler, Handlers, Walk
  <2>4. TypeOK' /\ LoadInv'
    BY <1>1, <2>1, <2>2, <2>3, WalkTypes, OldTypes
  <2>5. LastInv'
    BY <2>1, <2>2, <2>3 DEF LastInv, InSegment, Handlers
  <2> QED
    BY <2>1, <2>4, <2>5 DEF IInv
<1> QED
  BY <1>2, <1>3

-------------------------------------------------------------------------------
(* The handlers. *)

\* A handler reads the length of its segment.
LEMMA LengthFieldRead ==
  ASSUME IInv, pc \in Handlers, NEW b \in Bytes, NEW c \in Bytes,
         position + 1 < size, size' = size,
         content[position] \in {b, Unread}, content[position + 1] \in {c, Unread},
         content' = [content EXCEPT ![position] = b, ![position + 1] = c],
         seen' = seen
  PROVE  /\ content' \in [Offsets -> Bytes \union {Unread}] /\ Grows
         /\ seen # <<>> /\ Last \in Segments /\ Last.at \in Nat
         /\ Last.marker # SOI /\ Last' = Last
         /\ pc = Handler(Last.marker) /\ position = Last.at + 2
         /\ LengthRead(Last.at)' /\ LengthAt(Last.at)' = BigEndian(b, c)
         /\ BigEndian(b, c) \in Nat /\ BigEndian(b, c) \in Length
<1>1. TypeOK /\ pc \in Walk \ {"walk"}
  BY DEF IInv, Walk, Handlers
<1>2. /\ seen # <<>> /\ Last.marker # SOI
      /\ pc = Handler(Last.marker) /\ position = Last.at + 2
  BY <1>1 DEF IInv, LastInv, InSegment
<1>3. Last \in Segments /\ Last.at \in Nat
  BY <1>1, <1>2, LastIsSegment
<1>4. /\ content' \in [Offsets -> Bytes \union {Unread}] /\ Grows
      /\ content'[position] = b /\ content'[position + 1] = c
  BY <1>1, TwoBytesRead
<1>5. Last' = Last
  BY DEF Last
<1>6. PICK o \in Nat : o = Last.at
  BY <1>3
<1>7. content'[o + 2] = b /\ content'[o + 3] = c /\ o + 3 < size'
  BY <1>2, <1>4, <1>6
<1>8. LengthRead(o)' /\ LengthAt(o)' = BigEndian(b, c)
  BY <1>7 DEF LengthRead, LengthAt
<1>9. BigEndian(b, c) \in Nat /\ BigEndian(b, c) \in Length
  BY BigEndianBounds DEF Length
<1> QED
  BY <1>2, <1>3, <1>4, <1>5, <1>6, <1>8, <1>9

\* A segment is left out, or its header is when it is SOS.
LEMMA SkipStep ==
  ASSUME IInv, NEW b \in Bytes, NEW c \in Bytes, SkipSegment(b, c)
  PROVE  IInv'
<1> DEFINE length == BigEndian(b, c)
<1>1. /\ TypeOK /\ pc \in Walk /\ UNCHANGED <<mainVars, encount_soi, seen>> /\ size' = size
      /\ pc \in {"default", "skip_sos"} /\ pc' \in {"walk", "scan"}
      /\ pc = "default" => pc' = "walk"
      /\ pc = "skip_sos" => pc' = "scan"
      /\ pc' \in Walk
      /\ position' = position + 2 + Skip(length) /\ len_field' = length
  BY DEF IInv, SkipSegment, Walk, Handlers
<1>2. /\ content' \in [Offsets -> Bytes \union {Unread}] /\ Grows
      /\ seen # <<>> /\ Last \in Segments /\ Last.at \in Nat
      /\ Last.marker # SOI /\ Last' = Last
      /\ pc = Handler(Last.marker) /\ position = Last.at + 2
      /\ LengthRead(Last.at)' /\ LengthAt(Last.at)' = length
      /\ length \in Nat /\ length \in Length
  <2>1. pc \in Handlers
    BY <1>1 DEF Handlers
  <2> QED
    BY <1>1, <2>1, LengthFieldRead DEF SkipSegment
<1> HIDE DEF length
<1>3. position' = Last.at + 2 + length /\ position' \in Nat
  BY <1>1, <1>2 DEF Skip
<1>4. TypeOK' /\ LoadInv'
  <2>1. seen' \in Seq(Segments) /\ Len(seen') <= 2 /\ encount_soi' \in BOOLEAN
    BY <1>1, OldTypes
  <2> QED
    BY <1>1, <1>2, <1>3, <2>1, WalkTypes
<1>5. LastInv'
  <2>1. PICK s \in Segments : s = Last
    BY <1>2
  <2>2. s = Last' /\ LengthRead(s.at)' /\ LengthAt(s.at)' = length /\ s.at \in Nat
    BY <1>2, <2>1
  <2>3. CASE pc = "default"
    <3>1. s.marker \notin {SOI, SOS}
      BY <1>2, <2>1, <2>3 DEF Handler
    <3>2. PICK e \in Nat : e = position'
      BY <1>3
    <3>3. EndsAt(s, e)'
      BY <1>3, <2>1, <2>2, <3>1, <3>2 DEF EndsAt
    <3>4. pc' = "walk"
      BY <1>1, <2>3
    <3> QED
      BY <2>2, <3>2, <3>3, <3>4 DEF LastInv
  <2>4. CASE pc = "skip_sos"
    <3>1. s.marker = SOS /\ pc' = "scan"
      BY <1>1, <1>2, <2>1, <2>4 DEF Handler
    <3>2. PICK e \in Nat : e = s.at + 2 + length
      BY <1>2, <2>2
    <3>3. NoMarker(e, e)'
      BY DEF NoMarker
    <3>4. InSegment(s)'
      BY <1>3, <2>1, <2>2, <3>1, <3>2, <3>3 DEF InSegment, Handlers
    <3> QED
      BY <1>1, <1>2, <2>1, <2>2, <3>1, <3>4 DEF LastInv
  <2> QED
    BY <1>1, <2>3, <2>4
<1>6. PairInv'
  BY <1>1, <1>2, PairStays DEF IInv
<1> QED
  BY <1>4, <1>5, <1>6 DEF IInv

\* What the walk of a segment knows of it stays while its data is read.
LEMMA LengthRemains ==
  ASSUME IInv, pc \in {"scan", "scan_ff", "app1_buffer", "app1_data"}, Grows, seen' = seen
  PROVE  /\ seen # <<>> /\ Last \in Segments /\ Last.at \in Nat /\ Last.marker # SOI
         /\ Last' = Last /\ InSegment(Last)
         /\ LengthRead(Last.at) /\ LengthAt(Last.at) \in Nat
         /\ LengthRead(Last.at)' /\ LengthAt(Last.at)' = LengthAt(Last.at)
<1>1. TypeOK /\ pc \in Walk \ {"walk"}
  BY DEF IInv, Walk
<1>2. seen # <<>> /\ Last.marker # SOI /\ InSegment(Last)
  BY <1>1 DEF IInv, LastInv
<1>3. Last \in Segments /\ Last.at \in Nat /\ Last' = Last
  BY <1>1, <1>2, LastIsSegment DEF Last
<1>4. LengthRead(Last.at)
  BY <1>2 DEF InSegment
<1>5. PICK o \in Nat : o = Last.at
  BY <1>3
<1>6. LengthAt(o) \in Nat /\ LengthRead(o)' /\ LengthAt(o)' = LengthAt(o)
  BY <1>1, <1>4, <1>5, LengthOfRead, LengthStays
<1> QED
  BY <1>2, <1>3, <1>4, <1>5, <1>6

\* The length of APP1 is read.
LEMMA App1LengthStep ==
  ASSUME IInv, NEW b \in Bytes, NEW c \in Bytes, App1Length(b, c)
  PROVE  IInv'
<1> DEFINE length == BigEndian(b, c)
<1>1. /\ TypeOK /\ pc \in Walk /\ pc = "custom_app1" /\ pc \in Handlers
      /\ UNCHANGED <<options, filepath, lost, encount_soi, seen>> /\ size' = size
      /\ len_field' = length /\ position' = position + 2
      /\ \/ pc' = "app1_buffer" /\ held' = held
         \/ pc' = "crashed" /\ held' = {}
  BY DEF IInv, App1Length, Read2, Walk, Handlers
<1>2. /\ content' \in [Offsets -> Bytes \union {Unread}] /\ Grows
      /\ seen # <<>> /\ Last \in Segments /\ Last.at \in Nat
      /\ Last.marker # SOI /\ Last' = Last
      /\ pc = Handler(Last.marker) /\ position = Last.at + 2
      /\ LengthRead(Last.at)' /\ LengthAt(Last.at)' = length
      /\ length \in Nat /\ length \in Length
  BY <1>1, LengthFieldRead DEF App1Length, Read2
<1> HIDE DEF length
<1>3. position' \in Nat /\ position' = Last.at + 4
  BY <1>1, <1>2
<1>4. PairInv'
  BY <1>1, <1>2, PairStays DEF IInv
<1>5. seen' \in Seq(Segments) /\ Len(seen') <= 2 /\ encount_soi' \in BOOLEAN
  BY <1>1, OldTypes
<1>6. CASE pc' = "app1_buffer" /\ held' = held
  <2>1. TypeOK' /\ LoadInv'
    <3>1. pc' \in Walk /\ UNCHANGED mainVars
      BY <1>1, <1>6 DEF Walk, mainVars
    <3> QED
      BY <1>1, <1>2, <1>3, <1>5, <3>1, WalkTypes
  <2>2. PICK s \in Segments : s = Last
    BY <1>2
  <2>3. s.marker # SOS
    <3>1. s.marker = SOS => Handler(s.marker) # "custom_app1"
      BY DEF Handler
    <3> QED
      BY <1>1, <1>2, <2>2, <3>1
  <2>4. InSegment(s)'
    BY <1>1, <1>2, <1>3, <1>6, <2>2, <2>3 DEF InSegment, Handlers
  <2>5. LastInv'
    BY <1>1, <1>2, <1>6, <2>2, <2>4 DEF LastInv
  <2> QED
    BY <1>4, <2>1, <2>5 DEF IInv
<1>7. CASE pc' = "crashed" /\ held' = {}
  <2>1. pc' \notin Walk
    BY <1>7 DEF Walk, Handlers
  <2>2. TypeOK' /\ LoadInv'
    BY <1>1, <1>2, <1>3, <1>5, <1>7, <2>1 DEF TypeOK, LoadInv, Segments, Offsets
  <2>3. LastInv'
    BY <1>7, <2>1 DEF LastInv
  <2> QED
    BY <1>4, <2>2, <2>3 DEF IInv
<1> QED
  BY <1>1, <1>6, <1>7

\* The data of APP1 is read, and then looked at: the stream is behind it.
LEMMA App1DataStep ==
  ASSUME IInv, App1Reads \/ App1Done \/ App1Loops
  PROVE  IInv'
<1>1. /\ TypeOK /\ pc \in {"app1_buffer", "app1_data"} /\ pc \in Walk
      /\ UNCHANGED <<mainVars, size, content, len_field, encount_soi, seen>> /\ Grows
  BY DEF IInv, App1Reads, App1Done, App1Loops, Seek, stream, Walk, Grows
<1>2. /\ seen # <<>> /\ Last \in Segments /\ Last.at \in Nat /\ Last.marker # SOI
      /\ Last' = Last /\ InSegment(Last)
      /\ LengthRead(Last.at) /\ LengthAt(Last.at) \in Nat
      /\ LengthRead(Last.at)' /\ LengthAt(Last.at)' = LengthAt(Last.at)
  BY <1>1, LengthRemains
<1>3. PICK s \in Segments : s = Last
  BY <1>2
<1>4. s.marker \notin {SOI, SOS}
  BY <1>1, <1>2, <1>3 DEF InSegment
<1>5. /\ position' = s.at + 2 + LengthAt(s.at) /\ position' \in Nat
      /\ \/ pc = "app1_buffer" /\ pc' = "app1_data"
         \/ pc = "app1_data" /\ pc' \in {"walk", "exif_loop"}
  <2>1. CASE App1Reads
    <3>1. /\ pc = "app1_buffer" /\ pc' = "app1_data"
          /\ position' = position + (len_field - 2)
      BY <2>1 DEF App1Reads, Seek
    <3>2. len_field = LengthAt(s.at) /\ position = s.at + 4
      BY <1>2, <1>3, <3>1 DEF InSegment
    <3> QED
      BY <1>2, <1>3, <3>1, <3>2
  <2>2. CASE App1Done \/ App1Loops
    <3>1. pc = "app1_data" /\ pc' \in {"walk", "exif_loop"} /\ position' = position
      BY <2>2 DEF App1Done, App1Loops, stream
    <3>2. position = s.at + 2 + LengthAt(s.at)
      BY <1>2, <1>3, <3>1 DEF InSegment
    <3> QED
      BY <1>2, <1>3, <3>1, <3>2
  <2> QED
    BY <2>1, <2>2
<1>6. TypeOK' /\ LoadInv'
  <2>1. pc' \in Walk
    BY <1>5 DEF Walk
  <2>2. /\ size' = size /\ content' \in [Offsets -> Bytes \union {Unread}]
        /\ len_field' \in Length /\ encount_soi' \in BOOLEAN
        /\ seen' \in Seq(Segments) /\ Len(seen') <= 2
    BY <1>1, OldTypes
  <2> QED
    BY <1>1, <1>5, <2>1, <2>2, WalkTypes
<1>7. LastInv'
  <2>1. CASE pc' \in {"app1_data", "exif_loop"}
    <3>1. InSegment(s)'
      BY <1>2, <1>3, <1>4, <1>5, <2>1 DEF InSegment, Handlers
    <3> QED
      BY <1>1, <1>2, <1>3, <2>1, <3>1 DEF LastInv
  <2>2. CASE pc' = "walk"
    <3>1. PICK e \in Nat : e = position'
      BY <1>5
    <3>2. EndsAt(s, e)'
      BY <1>2, <1>3, <1>4, <1>5, <3>1 DEF EndsAt
    <3> QED
      BY <1>2, <1>3, <2>2, <3>1, <3>2 DEF LastInv
  <2> QED
    BY <1>5, <2>1, <2>2
<1>8. PairInv'
  BY <1>1, PairStays DEF IInv
<1> QED
  BY <1>6, <1>7, <1>8 DEF IInv

\* Where the data behind SOS begins.
DataOf(s) == s.at + 2 + LengthAt(s.at)

\* A byte behind SOS is read.
LEMMA ScanByte ==
  ASSUME IInv, pc \in {"scan", "scan_ff"}, NEW b \in Bytes, position < size, size' = size,
         content[position] \in {b, Unread}, content' = [content EXCEPT ![position] = b],
         UNCHANGED <<mainVars, len_field, encount_soi, seen>>,
         pc' \in Walk, position' \in Nat
  PROVE  /\ TypeOK' /\ LoadInv' /\ PairInv' /\ Grows /\ position \in Nat
         /\ content'[position] = b
         /\ seen # <<>> /\ Last \in Segments /\ Last.at \in Nat /\ Last.marker = SOS
         /\ Last.marker # SOI
         /\ Last' = Last /\ InSegment(Last)
         /\ LengthRead(Last.at)' /\ LengthAt(Last.at)' = LengthAt(Last.at)
         /\ DataOf(Last) \in Nat
<1>1. TypeOK /\ pc \in Walk
  BY DEF IInv, Walk
<1>2. /\ content' \in [Offsets -> Bytes \union {Unread}] /\ Grows
      /\ position \in Offsets /\ content'[position] = b
  BY <1>1, ByteRead
<1>3. /\ seen # <<>> /\ Last \in Segments /\ Last.at \in Nat /\ Last.marker # SOI
      /\ Last' = Last /\ InSegment(Last)
      /\ LengthRead(Last.at) /\ LengthAt(Last.at) \in Nat
      /\ LengthRead(Last.at)' /\ LengthAt(Last.at)' = LengthAt(Last.at)
  BY <1>2, LengthRemains
<1>4. Last.marker = SOS
  BY <1>3 DEF InSegment
<1>5. TypeOK' /\ LoadInv'
  <2>1. /\ len_field' \in Length /\ encount_soi' \in BOOLEAN
        /\ seen' \in Seq(Segments) /\ Len(seen') <= 2 /\ UNCHANGED mainVars
    BY <1>1, OldTypes
  <2> QED
    BY <1>1, <1>2, <2>1, WalkTypes
<1>6. PairInv'
  BY <1>1, <1>2, PairStays DEF IInv
<1>7. position \in Nat /\ DataOf(Last) \in Nat
  BY <1>2, <1>3 DEF Offsets, DataOf
<1> QED
  BY <1>2, <1>3, <1>4, <1>5, <1>6, <1>7

\* Up to 0xFF no marker begins in the data.
LEMMA ScanStep ==
  ASSUME IInv, NEW b \in Bytes, Scan(b)
  PROVE  IInv'
<1>1. /\ pc = "scan" /\ pc' \in Walk /\ position < size /\ size' = size
      /\ content[position] \in {b, Unread} /\ content' = [content EXCEPT ![position] = b]
      /\ UNCHANGED <<mainVars, len_field, encount_soi, seen>>
      /\ position' = position + 1 /\ position' \in Nat
      /\ pc' = IF b = FF THEN "scan_ff" ELSE "scan"
  <2>1. position \in Nat
    BY OldTypes DEF IInv
  <2> QED
    BY <2>1 DEF Scan, Read, Walk
<1>2. /\ TypeOK' /\ LoadInv' /\ PairInv' /\ Grows /\ position \in Nat
      /\ content'[position] = b
      /\ seen # <<>> /\ Last \in Segments /\ Last.at \in Nat /\ Last.marker = SOS
      /\ Last.marker # SOI
      /\ Last' = Last /\ InSegment(Last)
      /\ LengthRead(Last.at)' /\ LengthAt(Last.at)' = LengthAt(Last.at)
      /\ DataOf(Last) \in Nat
  BY <1>1, ScanByte
<1>3. PICK s \in Segments, from \in Nat, p \in Nat : s = Last /\ from = DataOf(s) /\ p = position
  BY <1>2
<1>4. DataOf(s)' = from
  BY <1>2, <1>3 DEF DataOf
<1>5. from <= p /\ NoMarker(from, p)
  BY <1>1, <1>2, <1>3 DEF InSegment, DataOf
<1>6. NoMarker(from, p)'
  BY <1>2, <1>5, NoMarkerStays DEF IInv
<1>7. InSegment(s)'
  <2>1. CASE b = FF
    <3>1. pc' = "scan_ff" /\ position' - 1 = p /\ content'[position' - 1] = FF
      BY <1>1, <1>2, <1>3, <2>1
    <3>2. from < position' /\ position' <= size'
      <4>1. size \in Nat /\ p + 1 = position' /\ p < size
        BY <1>1, <1>3 DEF IInv, TypeOK
      <4> QED
        BY <1>1, <1>5, <4>1
    <3>3. (s.at + 2 + LengthAt(s.at))' = from
      BY <1>4 DEF DataOf
    <3>4. s.marker = SOS /\ LengthRead(s.at)'
      BY <1>2, <1>3
    <3>5. NoMarker(s.at + 2 + LengthAt(s.at), position - 1)'
      BY <1>6, <3>1, <3>3 DEF NoMarker
    <3>6. from <= position'
      BY <1>1, <1>3, <1>5
    <3> QED
      BY <3>1, <3>2, <3>3, <3>4, <3>5, <3>6 DEF InSegment, Handlers
  <2>2. CASE b # FF
    <3>1. pc' = "scan"
      BY <1>1, <2>2
    <3>2. NoMarker(from, p + 1)'
      BY <1>1, <1>2, <1>3, <1>5, <1>6, <2>2 DEF NoMarker
    <3>3. (s.at + 2 + LengthAt(s.at))' = from
      BY <1>4 DEF DataOf
    <3>4. s.marker = SOS /\ LengthRead(s.at)'
      BY <1>2, <1>3
    <3>5. from <= position' /\ position' = p + 1
      BY <1>1, <1>3, <1>5
    <3>6. NoMarker(s.at + 2 + LengthAt(s.at), position)'
      BY <3>2, <3>3, <3>5 DEF NoMarker
    <3> QED
      BY <3>1, <3>3, <3>4, <3>5, <3>6 DEF InSegment, Handlers
  <2> QED
    BY <2>1, <2>2
<1>8. LastInv'
  <2>1. pc' # "walk" /\ seen' # <<>> /\ Last' = s /\ s.marker # SOI
    BY <1>1, <1>2, <1>3
  <2> QED
    BY <1>7, <2>1 DEF LastInv
<1> QED
  BY <1>2, <1>8 DEF IInv

\* Nor with an encoded 0xFF or a reset marker.
LEMMA ScanOnStep ==
  ASSUME IInv, NEW b \in Bytes, ScanOn(b)
  PROVE  IInv'
<1>1. /\ pc = "scan_ff" /\ pc' \in Walk /\ position < size /\ size' = size
      /\ content[position] \in {b, Unread} /\ content' = [content EXCEPT ![position] = b]
      /\ UNCHANGED <<mainVars, len_field, encount_soi, seen>>
      /\ position' = position + 1 /\ position' \in Nat
      /\ pc' = "scan" /\ b \in RST \union {0}
  <2>1. position \in Nat
    BY OldTypes DEF IInv
  <2> QED
    BY <2>1 DEF ScanOn, Read, Walk
<1>2. /\ TypeOK' /\ LoadInv' /\ PairInv' /\ Grows /\ position \in Nat
      /\ content'[position] = b
      /\ seen # <<>> /\ Last \in Segments /\ Last.at \in Nat /\ Last.marker = SOS
      /\ Last.marker # SOI
      /\ Last' = Last /\ InSegment(Last)
      /\ LengthRead(Last.at)' /\ LengthAt(Last.at)' = LengthAt(Last.at)
      /\ DataOf(Last) \in Nat
  BY <1>1, ScanByte
<1>3. PICK s \in Segments, from \in Nat, p \in Nat : s = Last /\ from = DataOf(s) /\ p = position
  BY <1>2
<1>4. from < p /\ NoMarker(from, p - 1) /\ content[p - 1] = FF
  BY <1>1, <1>2, <1>3 DEF InSegment, DataOf
<1>5. PICK e \in Nat : e = p - 1 /\ e + 1 = p
  BY <1>4
<1>6. NoMarker(from, e)'
  BY <1>2, <1>4, <1>5, NoMarkerStays DEF IInv
<1>7. content'[e] = FF /\ e < size'
  <2>1. e < size /\ content[e] \in Bytes
    BY <1>1, <1>3, <1>4, <1>5, ByteAssumption DEF IInv, TypeOK
  <2> QED
    BY <1>1, <1>2, <1>4, <1>5, <2>1, ReadStays DEF IInv
<1>8. NoMarker(from, p + 1)'
  <2>1. b # FF /\ content'[p] = b /\ p < size' /\ content'[e] \in Bytes
    BY <1>1, <1>2, <1>3, <1>7, ByteAssumption
  <2>2. ASSUME NEW o \in from .. p
        PROVE  /\ o < size' /\ content'[o] \in Bytes
               /\ content'[o] = FF => o + 1 < p + 1 /\ content'[o + 1] \in RST \union {0}
    <3>1. o \in Nat
      OBVIOUS
    <3>2. CASE o \in from .. e - 1
      BY <1>5, <1>6, <3>1, <3>2 DEF NoMarker
    <3>3. CASE o = e
      BY <1>1, <1>5, <1>7, <2>1, <3>3
    <3>4. CASE o = p
      BY <2>1, <3>4
    <3>5. o \in from .. e - 1 \/ o = e \/ o = p
      BY <1>5
    <3> QED
      BY <3>2, <3>3, <3>4, <3>5
  <2> QED
    BY <2>2 DEF NoMarker
<1>9. InSegment(s)'
  <2>1. (s.at + 2 + LengthAt(s.at))' = from
    BY <1>2, <1>3 DEF DataOf
  <2>2. s.marker = SOS /\ LengthRead(s.at)' /\ from <= position' /\ position' = p + 1
    BY <1>1, <1>2, <1>3, <1>4
  <2>3. NoMarker(s.at + 2 + LengthAt(s.at), position)'
    BY <1>8, <2>1, <2>2 DEF NoMarker
  <2> QED
    BY <1>1, <2>1, <2>2, <2>3 DEF InSegment, Handlers
<1>10. LastInv'
  <2>1. pc' # "walk" /\ seen' # <<>> /\ Last' = s /\ s.marker # SOI
    BY <1>1, <1>2, <1>3
  <2> QED
    BY <1>9, <2>1 DEF LastInv
<1> QED
  BY <1>2, <1>10 DEF IInv

\* The next marker is where the data ends, and the stream is put back to it.
LEMMA ScanFoundStep ==
  ASSUME IInv, NEW b \in Bytes, ScanFound(b)
  PROVE  IInv'
<1>1. /\ pc = "scan_ff" /\ pc' \in Walk /\ position < size /\ size' = size
      /\ content[position] \in {b, Unread} /\ content' = [content EXCEPT ![position] = b]
      /\ UNCHANGED <<mainVars, len_field, encount_soi, seen>>
      /\ position' = position + 1 + (-2) /\ pc' = "walk" /\ b \notin RST \union {0}
  BY DEF ScanFound, Rewind, Walk
<1>2. position \in Nat /\ position' \in Nat /\ position' = position - 1
  <2>1. position \in Nat /\ seen # <<>> /\ Last \in Segments
    <3>1. TypeOK /\ pc \in Walk \ {"walk"}
      BY <1>1 DEF IInv, Walk
    <3> QED
      BY <3>1, OldTypes, LastIsSegment DEF IInv, LastInv
  <2>2. /\ InSegment(Last) /\ Last.at \in Nat
    BY <1>1, <2>1 DEF IInv, LastInv, Walk, Segments, Offsets
  <2>3. LengthAt(Last.at) \in Nat
    BY <1>1, <2>2, LengthOfRead DEF InSegment
  <2>4. Last.at + 2 + LengthAt(Last.at) < position
    BY <1>1, <2>2 DEF InSegment
  <2> QED
    BY <1>1, <2>1, <2>2, <2>3, <2>4
<1>3. /\ TypeOK' /\ LoadInv' /\ PairInv' /\ Grows
      /\ content'[position] = b
      /\ seen # <<>> /\ Last \in Segments /\ Last.at \in Nat /\ Last.marker = SOS
      /\ Last.marker # SOI
      /\ Last' = Last /\ InSegment(Last)
      /\ LengthRead(Last.at)' /\ LengthAt(Last.at)' = LengthAt(Last.at)
      /\ DataOf(Last) \in Nat
  BY <1>1, <1>2, ScanByte
<1>4. PICK s \in Segments, from \in Nat, e \in Nat :
        s = Last /\ from = DataOf(s) /\ e = position' /\ e + 1 = position
  BY <1>2, <1>3
<1>5. from <= e /\ NoMarker(from, e) /\ content[e] = FF
  <2>1. from < position /\ NoMarker(from, position - 1) /\ content[position - 1] = FF
    BY <1>1, <1>3, <1>4 DEF InSegment, DataOf
  <2>2. position - 1 = e
    BY <1>2, <1>4
  <2> QED
    BY <1>2, <1>4, <2>1, <2>2
<1>6. NoMarker(from, e)'
  BY <1>3, <1>5, NoMarkerStays DEF IInv
<1>7. content'[e] = FF
  <2>1. e < size /\ content[e] \in Bytes
    BY <1>1, <1>4, <1>5, ByteAssumption DEF IInv, TypeOK
  <2> QED
    BY <1>3, <1>5, <2>1, ReadStays DEF IInv
<1>8. EndsAt(s, e)'
  <2>1. (s.at + 2 + LengthAt(s.at))' = from
    BY <1>3, <1>4 DEF DataOf
  <2>2. s.marker = SOS /\ s.marker # SOI /\ LengthRead(s.at)'
    BY <1>3, <1>4
  <2>3. e + 1 < size' /\ content'[e + 1] \in Bytes \ (RST \union {0})
    BY <1>1, <1>3, <1>4
  <2> QED
    BY <1>5, <1>6, <1>7, <2>1, <2>2, <2>3 DEF EndsAt
<1>9. LastInv'
  <2>1. pc' = "walk" /\ Last' = s /\ position' = e
    BY <1>1, <1>3, <1>4
  <2> QED
    BY <1>8, <2>1 DEF LastInv
<1> QED
  BY <1>3, <1>9 DEF IInv

-------------------------------------------------------------------------------
(* Theorems. *)

\* Steps that change nothing.
LEMMA StutterStep ==
  ASSUME IInv, UNCHANGED vars
  PROVE  IInv'
<1>1. /\ UNCHANGED <<pc, options, filepath, held, lost, size, content, position, len_field,
                     encount_soi, seen>>
  BY DEF vars, stream
<1>2. TypeOK' /\ LoadInv'
  BY <1>1 DEF IInv, TypeOK, LoadInv
<1>3. PairInv'
  BY <1>1, PairStays DEF IInv, Grows
<1>4. LastInv'
  <2>1. Last' = Last /\ size' = size /\ content' = content
    BY <1>1 DEF Last
  <2>2. ASSUME NEW s, NEW e, EndsAt(s, e) PROVE EndsAt(s, e)'
    BY <1>1, <2>2 DEF EndsAt, LengthRead, LengthAt, NoMarker
  <2>3. ASSUME NEW s, InSegment(s) PROVE InSegment(s)'
    BY <1>1, <2>3 DEF InSegment, LengthRead, LengthAt, NoMarker
  <2>4. PICK p : p = position /\ p = position'
    BY <1>1
  <2>5. PICK s : s = Last /\ s = Last'
    BY <2>1
  <2>6. ASSUME pc' = "walk", seen' # <<>> PROVE EndsAt(Last, position)'
    <3>1. EndsAt(s, p)
      BY <1>1, <2>4, <2>5, <2>6 DEF IInv, LastInv
    <3>2. EndsAt(s, p)'
      BY <2>2, <3>1
    <3> QED
      BY <2>4, <2>5, <3>2
  <2>7. ASSUME pc' \in Walk \ {"walk"}
        PROVE  seen' # <<>> /\ Last'.marker # SOI /\ InSegment(Last)'
    <3>1. seen # <<>> /\ s.marker # SOI /\ InSegment(s)
      BY <1>1, <2>5, <2>7 DEF IInv, LastInv
    <3>2. InSegment(s)'
      BY <2>3, <3>1
    <3> QED
      BY <1>1, <2>5, <3>1, <3>2
  <2> QED
    BY <2>6, <2>7 DEF LastInv
<1> QED
  BY <1>2, <1>3, <1>4 DEF IInv

\* Every step preserves the invariant.
LEMMA StepIInv == IInv /\ [Next]_vars => IInv'
<1> SUFFICES ASSUME IInv, [Next]_vars PROVE IInv'
  OBVIOUS
<1>1. CASE \/ OptionFile \/ HandlersFail \/ OptionUnknown \/ EndOfOptions \/ show_usage
           \/ OpenFails \/ CallocFails \/ StrdupFails
  BY <1>1, MainStep
<1>2. CASE Load \/ Release
  BY <1>2, FileStep
<1>3. CASE \/ WalkTruncated \/ HandlerTruncated \/ ScanTruncated \/ App1Fails
           \/ App1Unsupported \/ WalkEnd \/ \E b, c \in Bytes : WalkInvalid(b, c)
  BY <1>3, ReturnStep
<1>4. CASE WalkStart \/ \E b \in Bytes : WalkSegment(b)
  BY <1>4, MarkerStep
<1>5. CASE \E b, c \in Bytes : SkipSegment(b, c)
  BY <1>5, SkipStep
<1>6. CASE \E b, c \in Bytes : App1Length(b, c)
  BY <1>6, App1LengthStep
<1>7. CASE \E b \in Bytes : Scan(b)
  BY <1>7, ScanStep
<1>8. CASE \E b \in Bytes : ScanOn(b)
  BY <1>8, ScanOnStep
<1>9. CASE \E b \in Bytes : ScanFound(b)
  BY <1>9, ScanFoundStep
<1>10. CASE App1Reads \/ App1Done \/ App1Loops
  BY <1>10, App1DataStep
<1>11. CASE App1Crashes
  BY <1>11, CrashStep
<1>12. CASE UNCHANGED vars
  BY <1>12, StutterStep
<1> QED
  BY <1>1, <1>2, <1>3, <1>4, <1>5, <1>6, <1>7, <1>8, <1>9, <1>10, <1>11, <1>12 DEF Next

\* What has been read is what the position of the stream and the markers that
\* were seen say.
THEOREM Invariance == Spec => []IInv
<1> QED
  BY InitIInv, StepIInv, PTL DEF Spec

\* The last marker of the data behind SOS is the first one in it.
LEMMA EndsAtFirstMarker ==
  ASSUME TypeOK, NEW from \in Nat, NEW e \in Nat, from <= e, e + 1 < size, NoMarker(from, e),
         content[e] = FF, content[e + 1] \notin RST \union {0}
  PROVE  FirstMarker(from) = e
<1> DEFINE markers ==
      {o \in from .. size - 2 : content[o] = FF /\ content[o + 1] \notin RST \union {0}}
<1>1. size \in Nat
  BY DEF TypeOK
<1>2. e \in markers
  BY <1>1
<1>3. ASSUME NEW o \in markers PROVE o >= e /\ o \in Int
  BY <1>1 DEF NoMarker
<1>4. /\ e \in markers /\ \A o \in markers : e <= o
      /\ \A x \in markers : (\A o \in markers : x <= o) => x = e
  BY <1>2, <1>3
<1> HIDE DEF markers
<1>5. (CHOOSE x \in markers : \A o \in markers : x <= o) = e
  BY <1>4
<1> QED
  BY <1>5 DEF FirstMarker, Min, markers

\* The types of what main, the walk and the handlers keep, and that a file is
\* walked over only with its stream, its handlers, its descriptor and its path.
THEOREM TypeCorrect == Spec => []TypeOK
<1>1. IInv => TypeOK
  BY DEF IInv
<1> QED
  BY <1>1, Invariance, PTL

\* In any file, a handler is called for the bytes that follow the segment before,
\* and never for bytes inside a segment, whatever the lengths in it are.
THEOREM HandlersSeeSegmentsAlways == Spec => []HandlersSeeSegments
<1>1. IInv => HandlersSeeSegments
  <2> SUFFICES ASSUME IInv, Len(seen) = 2
               PROVE  seen[2].at = EndOf(seen[1])
    BY DEF HandlersSeeSegments, IInv, PairInv
  <2>1. seen[1] \in Segments /\ seen[2] \in Segments
    <3>1. seen \in Seq(Segments)
      BY DEF IInv, TypeOK, Segments, Offsets
    <3> QED
      BY <3>1
  <2>2. PICK s \in Segments, e \in Nat : s = seen[1] /\ e = seen[2].at
    BY <2>1 DEF Segments, Offsets
  <2>3. EndsAt(s, e) /\ s.at \in Nat
    BY <2>2 DEF IInv, PairInv, Segments, Offsets
  <2>4. CASE s.marker # SOS \/ s.marker = SOI
    <3>1. e = EndOf(s)
      BY <2>3, <2>4 DEF EndsAt, EndOf
    <3> QED
      BY <2>2, <3>1
  <2>5. CASE s.marker = SOS /\ s.marker # SOI
    <3>1. PICK from \in Nat : from = s.at + 2 + LengthAt(s.at)
      BY <2>3, <2>5, LengthOfRead DEF EndsAt
    <3>2. /\ from <= e /\ e + 1 < size /\ NoMarker(from, e)
          /\ content[e] = FF /\ content[e + 1] \notin RST \union {0}
      BY <2>3, <2>5, <3>1 DEF EndsAt
    <3>3. FirstMarker(from) = e
      BY <3>2, EndsAtFirstMarker DEF IInv
    <3> QED
      BY <2>2, <2>5, <3>1, <3>3 DEF EndOf
  <2> QED
    BY <2>4, <2>5
<1> QED
  BY <1>1, Invariance, PTL
===============================================================================
