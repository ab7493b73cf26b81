----------------------------- MODULE Converters -----------------------------
(***************************************************************************)
(* The converters of task.imgio: each opens a picture, turns its rows gray *)
(* and writes it in another format; io_png_tiff only probes its PNG.  They *)
(* differ in what they hold while they do so, in what each failure exit    *)
(* gives back, in rounding, and in how they index their buffers.           *)
(*                                                                         *)
(* The codecs are external: rows come out of them as they are, or fail to. *)
(* Buffers and files are counted in pixels, since the three samples of a   *)
(* gray pixel are the same.  A source is RGB or gray.  A picture that the  *)
(* target format or its encoder refuses counts as one it cannot write.     *)
(***************************************************************************)
EXTENDS Integers

CONSTANTS
  Programs,
  Sizes,         \* widths and heights
  Pixels,        \* triples of samples
  Pictures(_),   \* the pictures of a size
  FaultSets,     \* what may go wrong in a run, several sets of kinds
  Word,          \* 2^32, the number of values of a uint32
  MaxInt,        \* 2^31 - 1, the largest int
  Noise,         \* no pixel of the source, as in memory nobody has written
  NoFile

ASSUME ConvertersAssumption ==
  /\ Programs \subseteq {"jpeg_tiff", "tiff_jpeg", "tiff_png", "tiff_webp", "jpeg_webp", "png_tiff"}
  /\ Sizes \subseteq (Nat \ {0}) \X (Nat \ {0})
  /\ \A s \in Sizes : s[1] * s[2] < Word /\ 3 * s[1] < Word
  /\ Pixels \subseteq Nat \X Nat \X Nat
  /\ \A s \in Sizes : Pictures(s) \subseteq [0 .. s[2] - 1 -> [0 .. s[1] - 1 -> Pixels]]
  /\ \A f \in FaultSets : f \subseteq {"source", "decode", "target", "write", "memory"}
  /\ Word \in Nat \ {0} /\ MaxInt \in Nat
  /\ Noise \notin Nat \cup Pixels
  /\ \A s \in Sizes : NoFile \notin [(0 .. s[2] - 1) \X (0 .. s[1] - 1) -> Nat \cup {Noise}]

VARIABLES
  program, size, channels, source, faults,
  pc,
  held,        \* what the conversion has opened or allocated and not given back
  misfreed,    \* it gave back what it did not hold
  row,         \* next row to be read
  line,        \* the row buffer
  result,      \* the gray picture in memory
  output,      \* the target file: gray values by row and column
  status       \* what main returns (what read_png_file does), -1 before

input == <<program, size, channels, source, faults>>

vars == <<input, pc, held, misfreed, row, line, result, output, status>>

width == size[1]
height == size[2]
Rows == 0 .. height - 1
Cols == 0 .. width - 1

Sum3(p) == p[1] + p[2] + p[3]

\* sum / 3 + 0.5 against sum / 3, cut to a byte.
Gray(p) ==
  IF p = Noise THEN Noise
  ELSE IF program \in {"jpeg_tiff", "tiff_jpeg", "tiff_webp"} THEN (2 * Sum3(p) + 3) \div 6
  ELSE Sum3(p) \div 3

Grays == {Noise} \cup UNION {{Sum3(p) \div 3, (2 * Sum3(p) + 3) \div 6} : p \in Pixels}

TypeOK ==
  /\ program \in Programs /\ size \in Sizes /\ channels \in {1, 3} /\ faults \in FaultSets
  /\ source \in [Rows -> [Cols -> Pixels]]
  /\ pc \in {"open", "header", "start", "rows", "write", "returned", "crashed"}
  /\ held \subseteq {"infile", "decoder", "outfile", "bufrow", "tif", "raster", "gray_data", "encoder",
                     "buf", "result", "fp", "png_ptr", "info_ptr", "row_pointers",
                     "jpeg_data", "webp_data", "output", "op_file"}
  /\ misfreed \in BOOLEAN
  /\ row \in 0 .. height
  /\ line \in [Cols -> Pixels \cup {Noise}]
  /\ result \in [0 .. width * height - 1 -> Grays]
  /\ output # NoFile => DOMAIN output \subseteq Rows \X Cols /\ \A p \in DOMAIN output : output[p] \in Grays
  /\ status \in {-1, 0, 1, 2, 4}

Init ==
  /\ program \in Programs /\ size \in Sizes /\ channels \in {1, 3} /\ faults \in FaultSets
  /\ source \in Pictures(size)
  /\ channels = 1 => \A r \in Rows, c \in Cols :
       LET p == source[r][c] IN p[1] = p[2] /\ p[2] = p[3]
  /\ pc = "open"
  /\ held = {} /\ misfreed = FALSE
  /\ row = 0
  /\ line = [c \in Cols |-> Noise]
  /\ result = [k \in 0 .. width * height - 1 |-> Noise]
  /\ output = NoFile
  /\ status = -1

-----------------------------------------------------------------------------

Frees(what, got) ==
  /\ held' = (held \cup got) \ what
  /\ misfreed' = (misfreed \/ ~ (what \subseteq held \cup got))

Returns(code) == pc' = "returned" /\ status' = code

\* Does one of these kinds of faults occur?
May(kinds) == kinds \cap faults # {}

\* Beyond a buffer, or through a null pointer, nothing is defined any more.
Crashes ==
  /\ pc' = "crashed"
  /\ UNCHANGED <<input, held, misfreed, row, line, result, output, status>>

\* What is held once the source is open, and for TIFFs the buffers made.
\* jpeg_webp makes its decoder first.
Opened ==
  CASE program = "jpeg_tiff" -> {"infile", "decoder"}
    [] program = "jpeg_webp" -> {"infile", "decoder"}
    [] program = "tiff_jpeg" -> {"tif", "raster", "gray_data"}
    [] program \in {"tiff_png", "tiff_webp"} -> {"tif", "buf", "result"}
    [] program = "png_tiff" -> {"fp"}

OpenSource ==
  /\ pc = "open"
  /\ Frees({}, Opened)
  /\ pc' = IF program \in {"jpeg_tiff", "jpeg_webp", "png_tiff"} THEN "header" ELSE "rows"
  /\ UNCHANGED <<input, row, line, result, output, status>>

SourceMissing ==
  /\ pc = "open" /\ May({"source", "memory"})
  /\ Frees({}, IF program = "jpeg_webp" THEN {"decoder"} ELSE {})
  /\ Returns(IF program = "png_tiff" THEN 4 ELSE 0)
  /\ UNCHANGED <<input, row, line, result, output>>

\* A buffer of malloc or _TIFFmalloc is used as it comes, null or not.
NullBuffer ==
  /\ May({"memory"})
  /\ \/ pc = "open" /\ program \in {"tiff_jpeg", "tiff_png", "tiff_webp"}
     \/ pc = "header" /\ program = "jpeg_webp"
  /\ Crashes

\* The bad_alloc of a new is caught in main (in task_main), when what the
\* function had made until then is out of reach.
NewThrows ==
  /\ May({"memory"})
  /\ \/ /\ pc = "start"
        /\ Frees({}, {"outfile"})
        /\ output' = [p \in {} |-> Noise]
     \/ /\ pc = "open" /\ program = "tiff_jpeg"
        /\ Frees({}, {"tif", "raster"})
        /\ output' = output
  /\ Returns(0)
  /\ UNCHANGED <<input, row, line, result>>

\* jpeg_read_header and jpeg_start_decompress; jpeg_webp then makes its two
\* buffers.
ReadHeader ==
  /\ pc = "header" /\ program \in {"jpeg_tiff", "jpeg_webp"}
  /\ Frees({}, IF program = "jpeg_webp" THEN {"jpeg_data", "webp_data"} ELSE {})
  /\ pc' = IF program = "jpeg_tiff" THEN "start" ELSE "rows"
  /\ UNCHANGED <<input, row, line, result, output, status>>

JpegError_ClosesTarget ==
  /\ program = "jpeg_tiff" /\ pc \in {"header", "rows"} /\ May({"decode", "memory"})
  /\ Frees({"decoder", "infile", "outfile", "bufrow"}, {})
  /\ Returns(0)
  /\ UNCHANGED <<input, row, line, result, output>>

\* The error exit of the decoder, at any of its calls.  jpeg_tiff longjmps back
\* and throws; the default exit of jpeg_webp destroys the decoder and exits.
JpegError ==
  /\ program \in {"jpeg_tiff", "jpeg_webp"} /\ pc \in {"header", "rows"} /\ May({"decode", "memory"})
  /\ IF program = "jpeg_tiff"
       THEN Frees({"decoder", "infile"}, {}) /\ Returns(0)
       ELSE Frees({"decoder"}, {}) /\ Returns(1)
  /\ UNCHANGED <<input, row, line, result, output>>

-----------------------------------------------------------------------------

\* io_jpeg_tiff

OpenTiff ==
  /\ pc = "start"
  /\ Frees({}, {"outfile", "bufrow"})
  /\ output' = [p \in {} |-> Noise]
  /\ pc' = "rows"
  /\ UNCHANGED <<input, row, line, result, status>>

OpenTiffFails ==
  /\ pc = "start" /\ May({"target", "memory"})
  /\ Frees({"infile"}, {})
  /\ Returns(0)
  /\ UNCHANGED <<input, row, line, result, output>>

ConvertRow_NextIndex ==
  /\ program = "jpeg_tiff" /\ pc = "rows" /\ row < height
  /\ line' = source[row]
  /\ row' = row + 1
  /\ output' = [p \in DOMAIN output \cup ({row'} \X Cols) |->
                  IF p[1] = row' THEN Gray(line'[p[2]]) ELSE output[p]]
  /\ UNCHANGED <<input, pc, held, misfreed, result, status>>

\* Read, gray and write one row; jpeg_read_scanlines has moved on when it is
\* written, hence output_scanline - 1.
ConvertRow ==
  /\ program = "jpeg_tiff" /\ pc = "rows" /\ row < height
  /\ line' = source[row]
  /\ row' = row + 1
  /\ output' = [p \in DOMAIN output \cup ({row' - 1} \X Cols) |->
                  IF p[1] = row' - 1 THEN Gray(line'[p[2]]) ELSE output[p]]
  /\ UNCHANGED <<input, pc, held, misfreed, result, status>>

WriteRowFails ==
  /\ program = "jpeg_tiff" /\ pc = "rows" /\ row < height /\ May({"write", "memory"})
  /\ line' = source[row]
  /\ row' = row + 1
  /\ Frees({"infile", "outfile", "bufrow"}, {})
  /\ Returns(0)
  /\ UNCHANGED <<input, result, output>>

CloseTiff ==
  /\ program = "jpeg_tiff" /\ pc = "rows" /\ row = height
  /\ Frees({"decoder", "infile", "outfile", "bufrow"}, {})
  /\ Returns(0)
  /\ UNCHANGED <<input, row, line, result, output>>

-----------------------------------------------------------------------------

\* The programs that collect the picture first.
Collects == program \in {"tiff_jpeg", "tiff_png", "tiff_webp", "jpeg_webp"}

\* What the decoder may give for the row.  Nobody looks at what
\* TIFFReadScanline returns: after a failure the buffer holds the row before.
\* The raster of TIFFReadRGBAImage is bottom up, and RGB whatever the file is.
\* Of a gray source the others take three neighbours for a pixel.
Lines ==
  LET noise == [c \in Cols |-> Noise]
      Failed(l) == IF May({"decode", "memory"}) THEN {l} ELSE {}
  IN  CASE program = "tiff_jpeg" -> {source[height - 1 - row]} \cup Failed(noise)
        [] program # "tiff_jpeg" /\ channels = 1 -> {noise}
        [] program = "jpeg_webp" /\ channels = 3 -> {source[row]}
        [] OTHER -> {source[row]} \cup Failed(line)

\* io_tiff_webp reads three samples for a pixel from a buffer of one.
Overreads == program = "tiff_webp" /\ channels = 1

TIFFScanlineSize == channels * width

\* The pixels of a row of the target: io_tiff_png takes a third of the bytes.
OutWidth == IF program = "tiff_png" THEN TIFFScanlineSize \div 3 ELSE width

\* Where the first pixel of the row goes.
Target_TopDown ==
  CASE program = "tiff_jpeg" -> row * width
    [] program = "tiff_png" -> (row * TIFFScanlineSize) \div 3
    [] OTHER -> row * width

Target ==
  CASE program = "tiff_jpeg" -> (height - 1 - row) * width
    [] program = "tiff_png" -> (row * TIFFScanlineSize) \div 3
    [] OTHER -> row * width

Room_NoSamples ==
  CASE program = "tiff_jpeg" -> ((width * height) % Word) \div 3
    [] program = "tiff_webp" -> ((3 * width * height + 1) % Word) \div 3
    [] OTHER -> width * height

\* The room in the buffer: two sizes are computed in 32 bits.
Room ==
  CASE program = "tiff_jpeg" -> ((3 * width * height) % Word) \div 3
    [] program = "tiff_webp" -> ((3 * width * height + 1) % Word) \div 3
    [] OTHER -> OutWidth * height

WebP == program \in {"tiff_webp", "jpeg_webp"}

\* A row that has no pixel needs no room.  The WebP converters count the bytes
\* in an int.  (Where the size of tiff_jpeg wraps, its indices do as well, and
\* between them hit every value of a word: one row or another is outside.)
Fits ==
  /\ OutWidth = 0 \/ Target + OutWidth <= Room
  /\ WebP => 3 * (Target + width) <= MaxInt

GrayRow ==
  /\ Collects /\ pc = "rows" /\ row < height
  /\ Fits
  /\ line' \in Lines
  /\ result' = [k \in DOMAIN result |->
                  IF k - Target \in 0 .. OutWidth - 1 THEN Gray(line'[k - Target]) ELSE result[k]]
  /\ row' = row + 1
  /\ UNCHANGED <<input, pc, held, misfreed, output, status>>

GrayRowOutside ==
  /\ Collects /\ pc = "rows" /\ row < height
  /\ Overreads \/ ~ Fits
  /\ Crashes

\* jpeg_finish_decompress, where there is one.
RowsDone ==
  /\ Collects /\ pc = "rows" /\ row = height
  /\ pc' = "write"
  /\ UNCHANGED <<input, held, misfreed, row, line, result, output, status>>

\* The target file with its first n rows.
Picture(n) == [p \in (0 .. n - 1) \X (0 .. OutWidth - 1) |-> result[p[1] * OutWidth + p[2]]]

\* io_tiff_webp and io_jpeg_webp.  They return what they allocated as little as
\* the file and the output of the encoder; jpeg_webp frees nothing at all.
WriteWebP ==
  /\ pc = "write" /\ WebP
  /\ output' \in {Picture(height)} \cup IF May({"write", "memory"}) THEN {Picture(0)} ELSE {}
  /\ Frees(IF program = "tiff_webp" THEN {"tif", "buf", "result"} ELSE {}, {"output", "op_file"})
  /\ Returns(0)
  /\ UNCHANGED <<input, row, line, result>>

OpenWebPFails == pc = "write" /\ WebP /\ May({"target", "memory"}) /\ Crashes

\* io_tiff_jpeg.
OpenJpegFails ==
  /\ pc = "write" /\ program = "tiff_jpeg" /\ May({"target", "memory"})
  /\ Frees({"gray_data"}, {"encoder"})
  /\ Returns(0)
  /\ UNCHANGED <<input, row, line, result, output>>

WriteJpeg ==
  /\ pc = "write" /\ program = "tiff_jpeg"
  /\ output' = Picture(height)
  /\ Frees({"fp", "encoder", "raster", "tif", "gray_data"}, {"fp", "encoder"})
  /\ Returns(0)
  /\ UNCHANGED <<input, row, line, result>>

\* The default error exit of the encoder, while it writes.
WriteJpegFails ==
  /\ pc = "write" /\ program = "tiff_jpeg" /\ May({"write", "memory"})
  /\ \E n \in Rows : output' = Picture(n)
  /\ Frees({"encoder"}, {"fp", "encoder"})
  /\ Returns(1)
  /\ UNCHANGED <<input, row, line, result>>

\* The same exit, when there is no encoder yet, and no file.
CreateCompressFails ==
  /\ pc = "write" /\ program = "tiff_jpeg" /\ May({"memory"})
  /\ Frees({}, {})
  /\ Returns(1)
  /\ UNCHANGED <<input, row, line, result, output>>

\* io_tiff_png: write_to_png gets this far, and main gives back the rest
\* whatever it returns.
Png(left, given) ==
  /\ pc = "write" /\ program = "tiff_png"
  /\ Frees({"tif", "buf", "result"} \cup given, left \cup given)
  /\ Returns(0)
  /\ UNCHANGED <<input, row, line, result>>

OpenPngFails == May({"target", "memory"}) /\ Png({}, {}) /\ output' = output

CreateWriteStructFails == May({"memory"}) /\ Png({"fp"}, {}) /\ output' = Picture(0)

CreateInfoFails == May({"memory"}) /\ Png({"fp", "png_ptr"}, {}) /\ output' = Picture(0)

\* png_set_IHDR refuses a picture without columns; png_malloc may fail before
\* the row pointers are there and after.
SetupFails ==
  /\ \/ OutWidth = 0 /\ Png({"fp", "png_ptr", "info_ptr"}, {})
     \/ /\ OutWidth # 0 /\ May({"memory"})
        /\ \E some \in SUBSET {"row_pointers"} : Png({"fp", "png_ptr", "info_ptr"} \cup some, {})
  /\ output' = Picture(0)

WritePngFails ==
  /\ OutWidth # 0 /\ May({"write", "memory"})
  /\ Png({"fp", "png_ptr", "info_ptr", "row_pointers"}, {})
  /\ \E n \in Rows : output' = Picture(n)

WritePng ==
  /\ OutWidth # 0
  /\ Png({}, {"fp", "png_ptr", "info_ptr", "row_pointers"})
  /\ output' = Picture(height)

-----------------------------------------------------------------------------

\* io_png_tiff.  The read of the signature is commented out, the call that
\* tells the decoder of it is not; libpng then takes the signature for a chunk.
SignatureRead == 0

SignatureTold == 8

ProbeStructFails ==
  /\ pc = "header" /\ program = "png_tiff" /\ May({"memory"})
  /\ Frees({}, {})
  /\ Returns(4)
  /\ UNCHANGED <<input, row, line, result, output>>

ReadsInfo == SignatureRead = SignatureTold /\ ~ May({"decode"})

\* On success the function ends without a return; 0 stands for what is printed.
Probe ==
  /\ pc = "header" /\ program = "png_tiff"
  /\ Frees(IF ReadsInfo THEN {} ELSE {"png_ptr", "info_ptr"}, {"png_ptr", "info_ptr"})
  /\ Returns(IF ReadsInfo THEN 0 ELSE 2)
  /\ UNCHANGED <<input, row, line, result, output>>

Ended == pc \in {"returned", "crashed"} /\ UNCHANGED vars

Next ==
  \/ OpenSource \/ SourceMissing \/ NullBuffer \/ NewThrows \/ ReadHeader \/ JpegError
  \/ OpenTiff \/ OpenTiffFails \/ ConvertRow \/ WriteRowFails \/ CloseTiff
  \/ GrayRow \/ GrayRowOutside \/ RowsDone
  \/ WriteWebP \/ OpenWebPFails
  \/ WriteJpeg \/ OpenJpegFails \/ WriteJpegFails \/ CreateCompressFails
  \/ OpenPngFails \/ CreateWriteStructFails \/ CreateInfoFails \/ SetupFails \/ WritePngFails \/ WritePng
  \/ ProbeStructFails \/ Probe
  \/ Ended

\* Safety only: nothing below needs a converter to go on.
Spec == Init /\ [][Next]_vars

-----------------------------------------------------------------------------

Complete == pc = "returned" /\ output # NoFile /\ DOMAIN output = Rows \X Cols

\* A gray value less than one away from the mean of the samples.
IsGrayOf(g, p) == 3 * g - Sum3(p) \in -2 .. 2

\* The others take a gray source for an RGB one.
InReach == channels = 3 \/ program \in {"jpeg_tiff", "tiff_jpeg"}

\* Without a fault in the environment a converter finishes its file, and each
\* pixel of a file that is complete is the gray of the source pixel
\* at its place: no row is dropped, doubled, shifted or turned upside down, in
\* any of the ways the converters index their buffers.  Where a row of a TIFF
\* could not be read, there is an earlier one or noise instead, and nobody is
\* told.  A gray source is beyond three of them.
OutputIsGray ==
  InReach =>
    /\ faults = {} /\ pc = "returned" /\ program # "png_tiff" => Complete
    /\ Complete => \A r \in Rows, c \in Cols :
         LET g == output[<<r, c>>] IN
         \/ g # Noise /\ IsGrayOf(g, source[r][c])
         \/ /\ May({"decode", "memory"})
            /\ g = Noise \/ \E q \in 0 .. r - 1 : IsGrayOf(g, source[q][c])

\* The rows of io_tiff_png lie a scanline divided by three apart, which is
\* rounded for each of them but once for their buffer: with one or two samples
\* too many in a row, the last rows drift out of it.
Drifts == channels = 1 /\ width >= 3 /\ (height - 1) * (width % 3) >= 3

\* A converter leaves what is defined only when memory is short and it does not
\* look, when a WebP file cannot be made, when its bytes outnumber a word or an
\* int, or on a gray source it takes for an RGB one; io_jpeg_tiff never does.
CrashesExplained ==
  pc = "crashed" =>
    \/ program # "jpeg_tiff" /\ May({"memory"})
    \/ WebP /\ (May({"target"}) \/ 3 * width * height > MaxInt)
    \/ program \in {"tiff_jpeg", "tiff_webp"} /\ 3 * width * height + 1 >= Word
    \/ program = "tiff_png" /\ Drifts
    \/ Overreads

\* The exits of a function and of its caller do not overlap: none gives back
\* what is not held any more, or not yet.  The converters to TIFF, JPEG and PNG
\* leave something open only after a fault, or when a gray TIFF gives a PNG
\* without columns.  io_jpeg_tiff gives back its source on whichever exit it
\* takes, the longjmp included, but for the one exit it does not know: when its
\* row buffer cannot be made.  io_tiff_png gives back what its main has made
\* whatever write_to_png does.
ExitsGiveBack ==
  /\ ~ misfreed
  /\ pc = "returned" =>
       /\ held # {} => \/ faults # {} \/ WebP \/ program = "png_tiff"
                       \/ program = "tiff_png" /\ OutWidth = 0
       /\ program = "jpeg_tiff" /\ "infile" \in held => May({"memory"}) /\ "bufrow" \notin held
       /\ program = "tiff_png" => held \cap {"tif", "buf", "result"} = {}
=============================================================================
