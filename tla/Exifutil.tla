------------------------------- MODULE Exifutil -------------------------------
(***************************************************************************)
(* The sample program put/exifutil/exifutil.c: for each -f it opens a      *)
(* file, walks over the segments of the JPEG in it with a handler for each *)
(* marker, and releases what it had acquired.  What a handler makes of the *)
(* EXIF data of a segment is left open: it may return, crash or never      *)
(* return.  Files are regular ones, in which fseek() succeeds; a byte of   *)
(* the file is chosen when it is first read.                               *)
(***************************************************************************)
EXTENDS Integers, Sequences, FiniteSetsExt

CONSTANTS
  Bytes,        \* values of a byte that files hold
  FF, SOI, EOI, SOS, APP1,  \* 0xFF and the markers
  RST,          \* 0xD0 to 0xD7
  ByteValues,   \* 256
  HeaderSize,   \* 16: an APP1 segment must be longer than this
  MaxSize,      \* bound: bytes of a file
  MaxOptions    \* bound: options on the command line

ASSUME ByteAssumption ==
  /\ ByteValues \in Nat /\ ByteValues > 1 /\ Bytes \subseteq 0 .. ByteValues - 1
  /\ 0 \in Bytes /\ {FF, SOI, EOI, SOS, APP1} \subseteq Bytes /\ RST \subseteq Bytes
  /\ FF \notin RST \union {0, 1}
  /\ HeaderSize \in Nat /\ MaxSize \in Nat /\ MaxOptions \in Nat

VARIABLES
  pc,           \* the function that the program is in, and how far
  options,      \* options looked at
  filepath,     \* of the last one: whether it is NULL
  held,         \* what has been acquired for this option
  lost,         \* streams that nobody can close any more
  size,         \* of the file
  content,      \* [offset -> its byte, or Unread]
  position,     \* of the stream
  len_field,    \* length field read last
  encount_soi,
  seen          \* history: the last two markers, where and which

stream == <<size, content, position>>
vars == <<pc, options, filepath, held, lost, stream, len_field, encount_soi, seen>>

Unread == -1
Resources == {"ops", "stream", "jpeg", "path"}
Handlers == {"default", "skip_sos", "custom_app1"}
Walk == Handlers \union {"walk", "scan", "scan_ff", "app1_buffer", "app1_data", "exif_loop"}
Length == 0 .. ByteValues * ByteValues - 1

\* In particular a file is walked over only with all that it takes.
TypeOK ==
  /\ pc \in Walk \union {"getopt", "load", "release", "ended", "usage", "crashed"}
  /\ options \in 0 .. MaxOptions
  /\ filepath \in {"file", "NULL"}
  /\ held \subseteq Resources
  /\ pc \in Walk => held = Resources
  /\ lost \in 0 .. options
  /\ size \in 0 .. MaxSize
  /\ content \in [0 .. MaxSize - 1 -> Bytes \union {Unread}]
  /\ position \in Nat
  /\ len_field \in Length
  /\ encount_soi \in BOOLEAN
  /\ seen \in Seq([at : 0 .. MaxSize - 1, marker : Bytes]) /\ Len(seen) <= 2

Blank == [o \in 0 .. MaxSize - 1 |-> Unread]

Init ==
  /\ pc = "getopt" /\ options = 0 /\ filepath = "NULL"
  /\ held = {} /\ lost = 0
  /\ size = 0 /\ content = Blank /\ position = 0
  /\ len_field = 0 /\ encount_soi = FALSE /\ seen = <<>>

-------------------------------------------------------------------------------
(* The stream. *)

\* fread() of one byte, or of two.
Read(b) ==
  /\ position < size
  /\ content[position] \in {b, Unread}
  /\ content' = [content EXCEPT ![position] = b]
  /\ position' = position + 1
  /\ UNCHANGED size

Read2(b, c) ==
  /\ position + 1 < size
  /\ content[position] \in {b, Unread} /\ content[position + 1] \in {c, Unread}
  /\ content' = [content EXCEPT ![position] = b, ![position + 1] = c]
  /\ position' = position + 2
  /\ UNCHANGED size

\* It fails with fewer than n bytes left.
Truncated(n) == position + n > size

\* fseek() from where the stream is, which may lead behind the end of the file.  Its
\* result is not looked at: it is one of a stream that can seek.
Seek(distance) == position' = position + distance /\ UNCHANGED <<size, content>>

\* Mutant: the field taken for four bytes.
SkipFour(len) == len - 4

\* Mutant: the length does not count the field.
SkipAfterField(len) == len

\* len_field - sizeof(len_field), as the offset of fseek(): lengths of 0 and 1
\* lead back.
Skip(len) == len - 2

\* The marker that ends the data is read again by jpeg_walk.
Rewind == -2

-------------------------------------------------------------------------------
(* main, and jpeg_file_load. *)

\* -f: jpeg_handlers_new
OptionFile ==
  /\ pc = "getopt" /\ options < MaxOptions
  /\ options' = options + 1
  /\ filepath' = "file"
  /\ held' = {"ops"}
  /\ pc' = "load"
  /\ UNCHANGED <<lost, stream, len_field, encount_soi, seen>>

\* malloc() fails, and the table is filled before it is tested.
HandlersFail ==
  /\ pc = "getopt" /\ options < MaxOptions
  /\ pc' = "crashed" /\ held' = {}
  /\ UNCHANGED <<options, filepath, lost, stream, len_field, encount_soi, seen>>

\* Any other option, or -f without a path.
OptionUnknown ==
  /\ pc = "getopt" /\ options < MaxOptions
  /\ options' = options + 1
  /\ filepath' = "NULL"
  /\ UNCHANGED <<pc, held, lost, stream, len_field, encount_soi, seen>>

\* The last option was a file, whatever became of it: the exit status is 0.
EndOfOptions ==
  /\ pc = "getopt" /\ filepath = "file"
  /\ pc' = "ended"
  /\ UNCHANGED <<options, filepath, held, lost, stream, len_field, encount_soi, seen>>

\* The last option was no file, though earlier ones may have been: main ends here,
\* with an exit status of 0, too.
show_usage ==
  /\ pc = "getopt" /\ filepath = "NULL"
  /\ pc' = "usage"
  /\ UNCHANGED <<options, filepath, held, lost, stream, len_field, encount_soi, seen>>

\* fopen() fails.
OpenFails ==
  /\ pc = "load"
  /\ pc' = "getopt" /\ held' = {}
  /\ UNCHANGED <<options, filepath, lost, stream, len_field, encount_soi, seen>>

\* calloc() fails: the stream stays open.
CallocFails ==
  /\ pc = "load"
  /\ pc' = "getopt" /\ held' = {} /\ lost' = lost + 1
  /\ UNCHANGED <<options, filepath, stream, len_field, encount_soi, seen>>

Load ==
  /\ pc = "load"
  /\ size' \in 0 .. MaxSize /\ content' = Blank
  /\ held' = Resources
  /\ position' = 0 /\ encount_soi' = FALSE /\ seen' = <<>>
  /\ pc' = "walk"
  /\ UNCHANGED <<options, filepath, lost, len_field>>

\* Mutant: strdup() is not tested.
StrdupUntested ==
  /\ pc = "load"
  /\ size' \in 0 .. MaxSize /\ content' = Blank
  /\ held' = Resources \ {"path"}
  /\ position' = 0 /\ encount_soi' = FALSE /\ seen' = <<>>
  /\ pc' = "walk"
  /\ UNCHANGED <<options, filepath, lost, len_field>>

\* strdup() fails, and jpeg_file_release takes back the rest.
StrdupFails ==
  /\ pc = "load"
  /\ pc' = "getopt" /\ held' = {}
  /\ UNCHANGED <<options, filepath, lost, stream, len_field, encount_soi, seen>>

\* jpeg_file_release and jpeg_handlers_release
Release ==
  /\ pc = "release"
  /\ held' = {}
  /\ size' = 0 /\ content' = Blank /\ position' = 0
  /\ len_field' = 0 /\ encount_soi' = FALSE /\ seen' = <<>>
  /\ pc' = "getopt"
  /\ UNCHANGED <<options, filepath, lost>>

-------------------------------------------------------------------------------
(* jpeg_walk.  Its result is not used, and feof() never ends it: whoever meets
   the end of the file returns. *)

mainVars == <<options, filepath, held, lost>>

Return == pc' = "release" /\ UNCHANGED <<mainVars, len_field, encount_soi, seen>>

Handler(marker) ==
  IF marker = SOS THEN "skip_sos" ELSE IF marker = APP1 THEN "custom_app1" ELSE "default"

SeenAlso(marker) ==
  LET this == [at |-> position, marker |-> marker]
  IN IF seen = <<>> THEN <<this>> ELSE <<seen[Len(seen)], this>>

WalkTruncated == pc = "walk" /\ Truncated(2) /\ Return /\ UNCHANGED stream

\* No marker, or a first segment other than SOI.
WalkInvalid(b, c) ==
  /\ pc = "walk"
  /\ b # FF \/ (c # SOI /\ ~encount_soi)
  /\ Read2(b, c)
  /\ Return

\* SOI, wherever it is.
WalkStart ==
  /\ pc = "walk"
  /\ Read2(FF, SOI)
  /\ encount_soi' = TRUE
  /\ seen' = SeenAlso(SOI)
  /\ UNCHANGED <<pc, mainVars, len_field>>

WalkEnd == pc = "walk" /\ encount_soi /\ Read2(FF, EOI) /\ Return

WalkSegment(marker) ==
  /\ pc = "walk" /\ encount_soi
  /\ marker \notin {SOI, EOI}
  /\ Read2(FF, marker)
  /\ seen' = SeenAlso(marker)
  /\ pc' = Handler(marker)
  /\ UNCHANGED <<mainVars, len_field, encount_soi>>

-------------------------------------------------------------------------------
(* The handlers. *)

\* Each of them reads the length first, most significant byte first.
HandlerTruncated == pc \in Handlers /\ Truncated(2) /\ Return /\ UNCHANGED stream

BigEndian(b, c) == b * ByteValues + c

\* The seek is done at once.
SkipSegment(b, c) ==
  /\ pc \in {"default", "skip_sos"}
  /\ position + 1 < size
  /\ content[position] \in {b, Unread} /\ content[position + 1] \in {c, Unread}
  /\ content' = [content EXCEPT ![position] = b, ![position + 1] = c]
  /\ position' = position + 2 + Skip(BigEndian(b, c))
  /\ len_field' = BigEndian(b, c)
  /\ pc' = IF pc = "default" THEN "walk" ELSE "scan"
  /\ UNCHANGED <<size, mainVars, encount_soi, seen>>

\* The data behind SOS, up to 0xFF ...
Scan(b) ==
  /\ pc = "scan"
  /\ Read(b)
  /\ pc' = IF b = FF THEN "scan_ff" ELSE "scan"
  /\ UNCHANGED <<mainVars, len_field, encount_soi, seen>>

\* ... that is an encoded one or a reset marker
ScanOn(b) ==
  /\ pc = "scan_ff"
  /\ b \in RST \union {0}
  /\ Read(b)
  /\ pc' = "scan"
  /\ UNCHANGED <<mainVars, len_field, encount_soi, seen>>

\* ... or the next marker.
ScanFound(b) ==
  /\ pc = "scan_ff"
  /\ b \notin RST \union {0}
  /\ position < size /\ content[position] \in {b, Unread}
  /\ content' = [content EXCEPT ![position] = b]
  /\ position' = position + 1 + Rewind
  /\ pc' = "walk"
  /\ UNCHANGED <<size, mainVars, len_field, encount_soi, seen>>

ScanTruncated == pc \in {"scan", "scan_ff"} /\ Truncated(1) /\ Return /\ UNCHANGED stream

\* The length of APP1, and an assertion about it.
App1Length(b, c) ==
  /\ pc = "custom_app1"
  /\ Read2(b, c)
  /\ len_field' = BigEndian(b, c)
  /\ IF len_field' > HeaderSize THEN pc' = "app1_buffer" /\ UNCHANGED held
                                ELSE pc' = "crashed" /\ held' = {}
  /\ UNCHANGED <<options, filepath, lost, encount_soi, seen>>

\* malloc() or fread() of the segment fails.
App1Fails == pc = "app1_buffer" /\ Return /\ UNCHANGED stream

App1Reads ==
  /\ pc = "app1_buffer" /\ ~Truncated(len_field - 2)
  /\ Seek(len_field - 2)
  /\ pc' = "app1_data"
  /\ UNCHANGED <<mainVars, len_field, encount_soi, seen>>

\* Not EXIF, or EXIF that has been read, whatever came of it.
App1Done ==
  /\ pc = "app1_data"
  /\ pc' = "walk"
  /\ UNCHANGED <<mainVars, stream, len_field, encount_soi, seen>>

\* BIGTIFF
App1Unsupported == pc = "app1_data" /\ Return /\ UNCHANGED stream

\* Assertions and the like in jpeg_exif_read_ifd.
App1Crashes ==
  /\ pc = "app1_data"
  /\ pc' = "crashed" /\ held' = {}
  /\ UNCHANGED <<options, filepath, lost, stream, len_field, encount_soi, seen>>

\* A chain of IFDs leads back into itself: jpeg_exif_read_ifd goes to the next one by
\* a tail call, a jump as the program is built, and stays here for ever.
App1Loops ==
  /\ pc = "app1_data"
  /\ pc' = "exif_loop"
  /\ UNCHANGED <<mainVars, stream, len_field, encount_soi, seen>>

Next ==
  \/ OptionFile \/ HandlersFail \/ OptionUnknown \/ EndOfOptions \/ show_usage
  \/ OpenFails \/ CallocFails \/ Load \/ StrdupFails \/ Release
  \/ WalkTruncated \/ WalkStart \/ WalkEnd
  \/ \E b, c \in Bytes : WalkInvalid(b, c) \/ SkipSegment(b, c) \/ App1Length(b, c)
  \/ \E b \in Bytes : WalkSegment(b) \/ Scan(b) \/ ScanOn(b) \/ ScanFound(b)
  \/ HandlerTruncated \/ ScanTruncated
  \/ App1Fails \/ App1Reads \/ App1Done \/ App1Unsupported \/ App1Crashes \/ App1Loops

\* The program runs.
Spec == Init /\ [][Next]_vars /\ WF_vars(Next)

-------------------------------------------------------------------------------
(* What must hold. *)

LengthAt(o) == BigEndian(content[o + 2], content[o + 3])

FirstMarker(from) ==
  Min({o \in from .. size - 2 : content[o] = FF /\ content[o + 1] \notin RST \union {0}})

\* Where the segment at s.at ends, by the format of the file.
EndOf(s) ==
  IF s.marker = SOI THEN s.at + 2
  ELSE IF s.marker = SOS THEN FirstMarker(s.at + 2 + LengthAt(s.at))
  ELSE s.at + 2 + LengthAt(s.at)

\* A handler is called for the bytes that follow the segment before, and for no
\* bytes inside a segment: not after a length of 0 or 1 either, whose difference
\* wraps around and leads back.
HandlersSeeSegments ==
  Len(seen) = 2 =>
    /\ seen[2].at = EndOf(seen[1])
    /\ seen[1].marker \notin {SOI, SOS} => LengthAt(seen[1].at) >= 2

\* Unless a chain of IFDs is followed for ever, a walk ends, though it may be led back
\* in the file, and then everything that was acquired for it is given back before the
\* next option is looked at.
WalkEnds == pc = "walk" ~> (pc \in {"getopt", "crashed"} /\ held = {}) \/ pc = "exif_loop"
===============================================================================
