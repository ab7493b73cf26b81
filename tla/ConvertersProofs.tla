-------------------------- MODULE ConvertersProofs --------------------------
(***************************************************************************)
(* Theorems about Converters, for pictures of every size, every word       *)
(* length, and whatever goes wrong in a run.                               *)
(***************************************************************************)
EXTENDS Converters, TLAPS

-----------------------------------------------------------------------------
(* Rows of a picture in a buffer.                                          *)

\* A row ends before the next one begins.
LEMMA RowsFollow ==
  ASSUME NEW w \in Nat, NEW a \in Nat, NEW b \in Nat, a < b
  PROVE  a * w + w <= b * w
<1>1. PICK d \in Nat : b = a + 1 + d
  <2>1. b - a - 1 \in Nat /\ b = a + 1 + (b - a - 1)
    OBVIOUS
  <2>. QED  BY <2>1
<1>2. b * w = a * w + w + d * w
  BY <1>1
<1>3. d * w >= 0 /\ a * w \in Nat /\ d * w \in Nat
  OBVIOUS
<1>. QED  BY <1>2, <1>3

\* A longer row takes no less room.
LEMMA Monotone ==
  ASSUME NEW k \in Nat, NEW a \in Nat, NEW b \in Nat, a <= b
  PROVE  k * a <= k * b
<1>1. PICK d \in Nat : b = a + d
  <2>1. b - a \in Nat /\ b = a + (b - a)
    OBVIOUS
  <2>. QED  BY <2>1
<1>2. k * b = k * a + k * d /\ k * d \in Nat /\ k * a \in Nat
  BY <1>1
<1>. QED  BY <1>2

LEMMA SizeFacts ==
  ASSUME TypeOK
  PROVE  /\ width \in Nat \ {0} /\ height \in Nat \ {0}
         /\ width * height \in Nat /\ width * height < Word /\ height * width = width * height
<1>1. size \in (Nat \ {0}) \X (Nat \ {0}) /\ size[1] * size[2] < Word
  BY ConvertersAssumption DEF TypeOK
<1>2. width \in Nat \ {0} /\ height \in Nat \ {0}
  BY <1>1 DEF width, height
<1>3. width * height \in Nat /\ height * width = width * height
  BY <1>2
<1>. QED  BY <1>1, <1>2, <1>3 DEF width, height

\* The place of a pixel in a buffer is inside the buffer, and in no other row.
LEMMA Places ==
  ASSUME TypeOK, NEW r \in Rows
  PROVE  /\ r * width \in Nat /\ r * width + width <= width * height
         /\ \A c \in Cols : r * width + c \in 0 .. width * height - 1
         /\ \A q \in Rows : \A c \in Cols :
              (r * width + c) - q * width \in Cols => q = r
<1>1. width \in Nat \ {0} /\ height \in Nat \ {0} /\ width * height \in Nat
      /\ height * width = width * height
  BY SizeFacts
<1>2. r \in Nat /\ r < height
  BY <1>1 DEF Rows
<1>3. r * width \in Nat /\ r * width + width <= height * width
  BY <1>1, <1>2, RowsFollow
<1>4. \A c \in Cols : r * width + c \in 0 .. width * height - 1
  BY <1>1, <1>3 DEF Cols
<1>5. ASSUME NEW q \in Rows, NEW c \in Cols, (r * width + c) - q * width \in Cols
      PROVE  q = r
  <2>1. q \in Nat /\ q * width \in Nat
    BY <1>1 DEF Rows
  <2>2. q < r => q * width + width <= r * width
    BY <1>1, <1>2, <2>1, RowsFollow
  <2>3. r < q => r * width + width <= q * width
    BY <1>1, <1>2, <2>1, RowsFollow
  <2>4. c \in 0 .. width - 1 /\ (r * width + c) - q * width \in 0 .. width - 1
    BY <1>5 DEF Cols
  <2>. DEFINE rw == r * width
              qw == q * width
  <2>5. rw \in Nat /\ qw \in Nat /\ (q < r => qw + width <= rw) /\ (r < q => rw + width <= qw)
        /\ (rw + c) - qw \in 0 .. width - 1
    BY <1>3, <2>1, <2>2, <2>3, <2>4
  <2>. HIDE DEF rw, qw
  <2>. QED  BY <1>1, <1>2, <2>1, <2>4, <2>5
<1>. QED  BY <1>1, <1>3, <1>4, <1>5

\* A converter never makes its rows longer, and keeps their length unless it
\* is io_tiff_png with a gray source.
LEMMA OutWidthFacts ==
  ASSUME TypeOK
  PROVE  /\ OutWidth \in 0 .. width
         /\ InReach \/ program # "tiff_png" => OutWidth = width
         /\ \A r \in Rows : \A c \in 0 .. OutWidth - 1 : r * OutWidth + c \in 0 .. width * height - 1
<1>1. width \in Nat \ {0} /\ height \in Nat \ {0} /\ channels \in {1, 3}
      /\ width * height \in Nat /\ height * width = width * height
  BY SizeFacts DEF TypeOK
<1>2. (3 * width) \div 3 = width /\ (1 * width) \div 3 \in 0 .. width
  BY <1>1
<1>3. OutWidth \in 0 .. width
  BY <1>1, <1>2 DEF OutWidth, TIFFScanlineSize
<1>4. InReach \/ program # "tiff_png" => OutWidth = width
  BY <1>1, <1>2 DEF OutWidth, TIFFScanlineSize, InReach
<1>5. ASSUME NEW r \in Rows, NEW c \in 0 .. OutWidth - 1
      PROVE  r * OutWidth + c \in 0 .. width * height - 1
  <2>1. r \in Nat /\ r < height /\ OutWidth \in Nat /\ OutWidth <= width
    BY <1>1, <1>3 DEF Rows
  <2>2. r * OutWidth + OutWidth <= height * OutWidth /\ r * OutWidth \in Nat
    BY <1>1, <2>1, RowsFollow
  <2>3. height * OutWidth <= height * width
    BY <1>1, <2>1, Monotone
  <2>. QED  BY <1>1, <2>1, <2>2, <2>3
<1>. QED  BY <1>3, <1>4, <1>5

\* The row of the picture that is collected next.
Place == IF program = "tiff_jpeg" THEN height - 1 - row ELSE row

LEMMA PlaceIsARow ==
  ASSUME TypeOK, row < height
  PROVE  Place \in Rows
BY SizeFacts DEF TypeOK, Place, Rows

LEMMA TargetIsPlace ==
  ASSUME TypeOK, row < height, InReach \/ program # "tiff_png"
  PROVE  Target = Place * width
<1>1. width \in Nat /\ height \in Nat /\ row \in Nat
  BY SizeFacts DEF TypeOK
<1>3. (row * (3 * width)) \div 3 = row * width
  <2>1. row * (3 * width) = 3 * (row * width) /\ row * width \in Nat
    BY <1>1
  <2>2. \A m \in Nat : (3 * m) \div 3 = m
    OBVIOUS
  <2>. QED  BY <2>1, <2>2
<1>. QED  BY <1>3 DEF Target, Place, TIFFScanlineSize, InReach

\* How far a row of io_tiff_png is from where it should be, a gray one included:
\* the place of a row is rounded down.
LEMMA PngTarget ==
  ASSUME TypeOK, row < height, program = "tiff_png", OutWidth # 0, ~ Drifts
  PROVE  Target = row * OutWidth
<1>1. width \in Nat \ {0} /\ height \in Nat \ {0} /\ row \in Nat /\ channels \in {1, 3}
  BY SizeFacts DEF TypeOK
<1>2. CASE channels = 3
  BY <1>2, TargetIsPlace, OutWidthFacts DEF InReach, Place
<1>3. CASE channels = 1
  <2>. DEFINE q == width \div 3
              m == width % 3
              l == height - 1
  <2>1. q \in Nat /\ m \in 0 .. 2 /\ width = 3 * q + m /\ q = OutWidth
    BY <1>1, <1>3 DEF OutWidth, TIFFScanlineSize
  <2>2. width >= 3
    BY <2>1
  <2>3. l * m < 3 /\ l \in Nat /\ row <= l /\ l * m \in Nat
    <3>1. l \in Nat /\ row <= l
      BY <1>1
    <3>2. ~ (l * m >= 3)
      BY <1>3, <2>2 DEF Drifts
    <3>. HIDE DEF l, m
    <3>. QED  BY <2>1, <3>1, <3>2
  <2>4. Target = (row * width) \div 3
    BY <1>1, <1>3 DEF Target, TIFFScanlineSize
  <2>. HIDE DEF q, m, l
  <2>5. row * m \in 0 .. 2
    <3>1. m * row <= m * l
      BY <1>1, <2>1, <2>3, Monotone
    <3>. QED  BY <1>1, <2>1, <2>3, <3>1
  <2>6. row * width = 3 * (row * q) + row * m /\ row * q \in Nat
    BY <1>1, <2>1
  <2>7. \A a \in Nat, b \in 0 .. 2 : (3 * a + b) \div 3 = a
    OBVIOUS
  <2>. QED  BY <2>1, <2>4, <2>5, <2>6, <2>7
<1>. QED  BY <1>1, <1>2, <1>3

\* Where no size of a buffer and no count of its bytes wraps, every row fits.
LEMMA RowsFit ==
  ASSUME TypeOK, row < height, Collects,
         program \in {"tiff_jpeg", "tiff_webp"} => 3 * width * height + 1 < Word,
         WebP => 3 * width * height <= MaxInt,
         program = "tiff_png" => ~ Drifts
  PROVE  Fits
<1>1. width \in Nat /\ height \in Nat /\ width * height \in Nat /\ height * width = width * height
      /\ row \in Nat
  BY SizeFacts DEF TypeOK
<1>. DEFINE a == width * height
<1>2. 3 * width * height = 3 * a /\ a \in Nat /\ Word \in Nat \ {0} /\ MaxInt \in Nat
  BY <1>1, ConvertersAssumption
<1>3. \A x \in Nat : x < Word => x % Word = x
  BY ConvertersAssumption
<1>. HIDE DEF a
<1>4. CASE program = "tiff_png"
  <2>. SUFFICES ASSUME OutWidth # 0 PROVE Target + OutWidth <= Room
    BY <1>4 DEF Fits, WebP
  <2>1. Target = row * OutWidth /\ OutWidth \in Nat
    BY <1>4, OutWidthFacts, PngTarget
  <2>2. row * OutWidth + OutWidth <= height * OutWidth
    BY <1>1, <2>1, RowsFollow
  <2>3. height * OutWidth = OutWidth * height
    BY <1>1, <2>1
  <2>. QED  BY <1>4, <2>1, <2>2, <2>3 DEF Room
<1>5. CASE program # "tiff_png"
  <2>1. OutWidth = width /\ Target = Place * width /\ Place \in Rows
    BY <1>5, OutWidthFacts, TargetIsPlace, PlaceIsARow
  <2>2. Target \in Nat /\ Target + width <= a
    BY <2>1, Places DEF a
  <2>3. Room = a
    <3>1. CASE program = "tiff_jpeg"
      <4>1. (3 * a) % Word = 3 * a
        BY <1>2, <1>3, <3>1
      <4>. QED  BY <1>2, <3>1, <4>1 DEF Room
    <3>2. CASE program = "tiff_webp"
      <4>1. (3 * a + 1) % Word = 3 * a + 1
        BY <1>2, <1>3, <3>2
      <4>2. (3 * a + 1) \div 3 = a
        BY <1>2
      <4>. QED  BY <1>2, <3>2, <4>1, <4>2 DEF Room
    <3>3. CASE program = "jpeg_webp"
      BY <2>1, <3>3 DEF Room, a
    <3>. QED  BY <1>5, <3>1, <3>2, <3>3 DEF Collects
  <2>4. WebP => 3 * (Target + width) <= MaxInt
    BY <1>1, <1>2, <2>2
  <2>. QED  BY <2>1, <2>2, <2>3, <2>4 DEF Fits
<1>. QED  BY <1>4, <1>5

-----------------------------------------------------------------------------
(* What is held, and how a conversion ends.                                *)

\* What a conversion has in its hands while it goes through the rows.
Working ==
  Opened \cup CASE program = "jpeg_tiff" -> {"outfile", "bufrow"}
                [] program = "jpeg_webp" -> {"jpeg_data", "webp_data"}
                [] OTHER -> {}

\* Until it returns, a conversion holds exactly what it has made so far.
HoldsExactly ==
  /\ pc = "open" => held = {}
  /\ pc = "header" => program \in {"jpeg_tiff", "jpeg_webp", "png_tiff"} /\ held = Opened
  /\ pc = "start" => program = "jpeg_tiff" /\ held = Opened
  /\ pc = "rows" => program # "png_tiff" /\ held = Working
  /\ pc = "write" => Collects /\ held = Working

BookInv == HoldsExactly /\ ExitsGiveBack /\ CrashesExplained

LEMMA InputKept == [Next]_vars => UNCHANGED input
BY DEF Next, OpenSource, SourceMissing, ReadHeader, JpegError, OpenTiff, OpenTiffFails, ConvertRow,
       WriteRowFails, CloseTiff, GrayRow, GrayRowOutside, RowsDone, WriteWebP, OpenWebPFails,
       WriteJpeg, OpenJpegFails, WriteJpegFails, OpenPngFails, CreateWriteStructFails,
       CreateInfoFails, SetupFails, WritePngFails, WritePng, ProbeStructFails, Probe, Ended, Crashes, Png,
       NullBuffer, NewThrows, CreateCompressFails, vars

LEMMA BookInit == Init => BookInv
BY DEF Init, BookInv, HoldsExactly, ExitsGiveBack, CrashesExplained

LEMMA BookStep ==
  ASSUME TypeOK, BookInv, [Next]_vars
  PROVE  BookInv'
<1>. USE DEF BookInv, HoldsExactly, ExitsGiveBack, CrashesExplained, input, Frees, Returns,
             Opened, Working, Collects, WebP, May
<1>1. program' = program /\ faults' = faults /\ width' = width /\ height' = height
      /\ OutWidth' = OutWidth /\ Overreads' = Overreads /\ Drifts' = Drifts
  BY InputKept DEF width, height, OutWidth, TIFFScanlineSize, Overreads, Drifts
<1>2. program \in {"jpeg_tiff", "tiff_jpeg", "tiff_png", "tiff_webp", "jpeg_webp", "png_tiff"}
  BY ConvertersAssumption DEF TypeOK
<1>3. CASE OpenSource
  BY <1>1, <1>2, <1>3 DEF OpenSource
<1>4. CASE SourceMissing
  BY <1>1, <1>2, <1>4 DEF SourceMissing
<1>5. CASE ReadHeader
  BY <1>1, <1>2, <1>5 DEF ReadHeader
<1>6. CASE JpegError
  BY <1>1, <1>2, <1>6 DEF JpegError
<1>7. CASE OpenTiff
  BY <1>1, <1>2, <1>7 DEF OpenTiff
<1>8. CASE OpenTiffFails
  BY <1>1, <1>2, <1>8 DEF OpenTiffFails
<1>9. CASE ConvertRow
  BY <1>1, <1>2, <1>9 DEF ConvertRow
<1>10. CASE WriteRowFails
  BY <1>1, <1>2, <1>10 DEF WriteRowFails
<1>11. CASE CloseTiff
  BY <1>1, <1>2, <1>11 DEF CloseTiff
<1>12. CASE GrayRow
  BY <1>1, <1>2, <1>12 DEF GrayRow
<1>13. CASE GrayRowOutside
  <2>1. \/ program \in {"tiff_jpeg", "tiff_webp"} /\ ~ (3 * width * height + 1 < Word)
        \/ WebP /\ ~ (3 * width * height <= MaxInt)
        \/ program = "tiff_png" /\ Drifts
        \/ Overreads
    BY <1>13, RowsFit DEF GrayRowOutside
  <2>2. width \in Nat /\ height \in Nat /\ Word \in Nat /\ MaxInt \in Nat
    BY SizeFacts, ConvertersAssumption
  <2>3. 3 * width * height \in Nat
    BY <2>2
  <2>4. \/ program \in {"tiff_jpeg", "tiff_webp"} /\ 3 * width * height + 1 >= Word
        \/ WebP /\ 3 * width * height > MaxInt
        \/ program = "tiff_png" /\ Drifts
        \/ Overreads
    BY <2>1, <2>2, <2>3
  <2>5. CrashesExplained'
    BY <1>1, <2>4
  <2>. QED  BY <1>1, <1>13, <2>5 DEF GrayRowOutside, Crashes
<1>14. CASE RowsDone
  BY <1>1, <1>2, <1>14 DEF RowsDone
<1>15. CASE WriteWebP
  BY <1>1, <1>2, <1>15 DEF WriteWebP
<1>16. CASE OpenWebPFails
  BY <1>1, <1>2, <1>16 DEF OpenWebPFails, Crashes
<1>17. CASE WriteJpeg
  BY <1>1, <1>2, <1>17 DEF WriteJpeg
<1>18. CASE OpenJpegFails
  BY <1>1, <1>2, <1>18 DEF OpenJpegFails
<1>19. CASE WriteJpegFails
  BY <1>1, <1>2, <1>19 DEF WriteJpegFails
<1>28. CASE CreateCompressFails
  BY <1>1, <1>2, <1>28 DEF CreateCompressFails
<1>20. CASE OpenPngFails \/ CreateWriteStructFails \/ CreateInfoFails
  BY <1>1, <1>2, <1>20 DEF OpenPngFails, CreateWriteStructFails, CreateInfoFails, Png
<1>25. CASE NullBuffer
  BY <1>1, <1>2, <1>25 DEF NullBuffer, Crashes
<1>26. CASE NewThrows
  BY <1>1, <1>2, <1>26 DEF NewThrows
<1>27. CASE SetupFails
  BY <1>1, <1>2, <1>27 DEF SetupFails, Png
<1>21. CASE WritePngFails \/ WritePng
  BY <1>1, <1>2, <1>21 DEF WritePngFails, WritePng, Png
<1>22. CASE ProbeStructFails
  BY <1>1, <1>2, <1>22 DEF ProbeStructFails
<1>23. CASE Probe
  BY <1>1, <1>2, <1>23 DEF Probe
<1>24. CASE UNCHANGED vars
  BY <1>1, <1>24 DEF vars
<1>. QED
  BY <1>3, <1>4, <1>5, <1>6, <1>7, <1>8, <1>9, <1>10, <1>11, <1>12, <1>13, <1>14, <1>15, <1>16,
     <1>17, <1>18, <1>19, <1>20, <1>21, <1>22, <1>23, <1>24, <1>25, <1>26, <1>27,
     <1>28
  DEF Next, Ended

-----------------------------------------------------------------------------
(* What comes out.                                                         *)

\* What a pixel of the target file may be.
Faithful(g, r, c) ==
  \/ g # Noise /\ IsGrayOf(g, source[r][c])
  \/ May({"decode", "memory"}) /\ (g = Noise \/ \E q \in 0 .. r - 1 : IsGrayOf(g, source[q][c]))

RowState ==
  /\ pc \in {"open", "header", "start"} => row = 0
  /\ pc = "write" => row = height
  /\ pc \in {"open", "header", "start"} \/ (Collects /\ pc \in {"rows", "write"}) => output = NoFile

\* The line holds an earlier row of the source, or nothing.
LineState ==
  pc \in {"open", "header", "start", "rows"} /\ program # "tiff_jpeg" =>
    \A c \in Cols : line[c] = Noise \/ \E q \in 0 .. row - 1 : line[c] = source[q][c]

\* Has row r of the picture been collected?
Filled(r) == IF program = "tiff_jpeg" THEN height - 1 - r < row ELSE r < row

BufferState ==
  Collects /\ pc \in {"rows", "write"} /\ InReach =>
    \A r \in Rows : Filled(r) => \A c \in Cols : Faithful(result[r * width + c], r, c)

TiffState ==
  program = "jpeg_tiff" /\ pc = "rows" =>
    output = [p \in (0 .. row - 1) \X Cols |-> Gray(source[p[1]][p[2]])]

OutputState ==
  output # NoFile =>
    /\ DOMAIN output \subseteq Rows \X Cols
    /\ InReach => \A p \in DOMAIN output : Faithful(output[p], p[1], p[2])

FinishedState == InReach /\ faults = {} /\ pc = "returned" /\ program # "png_tiff" => Complete

DataInv == RowState /\ LineState /\ BufferState /\ TiffState /\ OutputState /\ FinishedState

IInv == TypeOK /\ BookInv /\ DataInv

\* The gray of a pixel is one of its two roundings; of memory nobody wrote,
\* it is no gray.
LEMMA GrayFacts ==
  /\ Gray(Noise) = Noise /\ Noise \in Grays
  /\ \A p \in Pixels : Gray(p) \in Grays /\ Gray(p) \in Nat /\ Gray(p) # Noise /\ IsGrayOf(Gray(p), p)
<1>1. ASSUME NEW p \in Pixels
      PROVE  Gray(p) \in Grays /\ Gray(p) \in Nat /\ Gray(p) # Noise /\ IsGrayOf(Gray(p), p)
  <2>1. Sum3(p) \in Nat /\ p # Noise /\ Noise \notin Nat
    BY ConvertersAssumption DEF Sum3
  <2>2. Gray(p) \in {Sum3(p) \div 3, (2 * Sum3(p) + 3) \div 6}
    BY <2>1 DEF Gray
  <2>3. Gray(p) \in Grays
    BY <2>2 DEF Grays
  <2>4. Gray(p) \in Nat /\ 3 * Gray(p) - Sum3(p) \in -2 .. 2
    BY <2>1, <2>2
  <2>. QED  BY <2>1, <2>3, <2>4 DEF IsGrayOf
<1>2. Gray(Noise) = Noise
  BY DEF Gray
<1>3. Noise \in Grays
  BY DEF Grays
<1>. QED  BY <1>1, <1>2, <1>3

\* The target file, as far as it was written, is what the buffer holds.
LEMMA PictureTyped ==
  ASSUME TypeOK, NEW n \in 0 .. height
  PROVE  /\ DOMAIN Picture(n) = (0 .. n - 1) \X (0 .. OutWidth - 1)
         /\ \A r \in 0 .. n - 1, c \in 0 .. OutWidth - 1 :
              /\ r \in Rows /\ c \in Cols /\ Picture(n)[<<r, c>>] \in Grays
              /\ Picture(n)[<<r, c>>] = result[r * OutWidth + c]
         /\ DOMAIN Picture(n) \subseteq Rows \X Cols
         /\ \A p \in DOMAIN Picture(n) : Picture(n)[p] \in Grays
<1>1. 0 .. n - 1 \subseteq Rows /\ 0 .. OutWidth - 1 \subseteq Cols
  BY SizeFacts, OutWidthFacts DEF Rows, Cols
<1>2. DOMAIN Picture(n) = (0 .. n - 1) \X (0 .. OutWidth - 1)
  BY DEF Picture
<1>3. ASSUME NEW r \in 0 .. n - 1, NEW c \in 0 .. OutWidth - 1
      PROVE  Picture(n)[<<r, c>>] = result[r * OutWidth + c] /\ Picture(n)[<<r, c>>] \in Grays
  <2>1. r * OutWidth + c \in 0 .. width * height - 1
    BY <1>1, OutWidthFacts
  <2>2. result[r * OutWidth + c] \in Grays
    BY <2>1 DEF TypeOK
  <2>3. Picture(n)[<<r, c>>] = result[r * OutWidth + c]
    BY DEF Picture
  <2>. QED  BY <2>2, <2>3
<1>. QED  BY <1>1, <1>2, <1>3

\* What a step of the conversion of rows puts into the line.
LEMMA LinesHold ==
  ASSUME TypeOK, LineState, Collects, pc = "rows", row < height, NEW new \in Lines
  PROVE  /\ new \in [Cols -> Pixels \cup {Noise}]
         /\ program # "tiff_jpeg" =>
              \A c \in Cols : new[c] = Noise \/ \E q \in 0 .. row : new[c] = source[q][c]
         /\ InReach => \A c \in Cols :
              \/ new[c] = source[Place][c]
              \/ May({"decode", "memory"}) /\ (new[c] = Noise \/ \E q \in 0 .. Place - 1 : new[c] = source[q][c])
<1>. DEFINE noise == [c \in Cols |-> Noise]
<1>1. row \in Rows /\ row \in 0 .. row
  BY SizeFacts DEF TypeOK, Rows
<1>2. source[row] \in [Cols -> Pixels] /\ line \in [Cols -> Pixels \cup {Noise}]
  BY <1>1 DEF TypeOK
<1>6. Place \in Rows
  BY PlaceIsARow
<1>3. CASE program = "tiff_jpeg"
  <2>1. new = source[height - 1 - row] \/ (new = noise /\ May({"decode", "memory"}))
    BY <1>3 DEF Lines
  <2>2. height - 1 - row \in Rows /\ Place = height - 1 - row
    BY <1>3, <1>6 DEF Place
  <2>3. source[height - 1 - row] \in [Cols -> Pixels]
    BY <2>2 DEF TypeOK
  <2>. QED  BY <1>3, <2>1, <2>2, <2>3
<1>4. CASE program # "tiff_jpeg" /\ channels = 1
  <2>1. new = noise
    BY <1>4 DEF Lines
  <2>2. ~ InReach
    BY <1>4 DEF InReach, Collects
  <2>. QED  BY <2>1, <2>2
<1>5. CASE program # "tiff_jpeg" /\ channels = 3
  <2>1. new = source[row] \/ (new = line /\ May({"decode", "memory"}))
    BY <1>5 DEF Lines
  <2>2. Place = row
    BY <1>5 DEF Place
  <2>3. \A c \in Cols : line[c] = Noise \/ \E q \in 0 .. row - 1 : line[c] = source[q][c]
    BY <1>5 DEF LineState
  <2>4. 0 .. row - 1 \subseteq 0 .. row
    BY DEF TypeOK
  <2>. QED  BY <1>1, <1>2, <1>5, <2>1, <2>2, <2>3, <2>4
<1>. QED  BY <1>3, <1>4, <1>5 DEF TypeOK

\* Nothing but the size and the source decides what a place of the file may hold.
LEMMA Fixed ==
  ASSUME UNCHANGED input
  PROVE  /\ width' = width /\ height' = height /\ Rows' = Rows /\ Cols' = Cols
         /\ Collects' = Collects /\ InReach' = InReach /\ WebP' = WebP
         /\ OutWidth' = OutWidth /\ (May({"decode", "memory"}) <=> May({"decode", "memory"})')
         /\ \A g, r, c : Faithful(g, r, c)' = Faithful(g, r, c)
         /\ \A p : Gray(p)' = Gray(p)
BY DEF input, width, height, Rows, Cols, Collects, InReach, WebP, Faithful, Gray, May,
       OutWidth, TIFFScanlineSize

\* One more row in the buffer.
LEMMA GrayRowInv ==
  ASSUME IInv, GrayRow
  PROVE  TypeOK' /\ DataInv'
<1>. USE DEF IInv
<1>1. UNCHANGED <<input, pc, held, misfreed, output, status>> /\ row' = row + 1
      /\ row < height /\ pc = "rows" /\ Collects
  BY DEF GrayRow
<1>2. row \in Nat /\ height \in Nat /\ width \in Nat /\ height' = height /\ width' = width
      /\ Rows' = Rows /\ Cols' = Cols
  BY <1>1, SizeFacts, Fixed DEF TypeOK
<1>3. Place \in Rows /\ Place * width \in Nat /\ OutWidth \in 0 .. width
      /\ (InReach => OutWidth = width /\ Target = Place * width)
  BY <1>1, PlaceIsARow, TargetIsPlace, Places, OutWidthFacts
<1>14. 0 .. OutWidth - 1 \subseteq Cols
  BY <1>2, <1>3 DEF Cols
<1>4. line' \in Lines
  BY DEF GrayRow
<1>5. /\ line' \in [Cols -> Pixels \cup {Noise}]
      /\ program # "tiff_jpeg" =>
           \A c \in Cols : line'[c] = Noise \/ \E q \in 0 .. row : line'[c] = source[q][c]
      /\ InReach => \A c \in Cols :
           \/ line'[c] = source[Place][c]
           \/ May({"decode", "memory"}) /\ (line'[c] = Noise \/ \E q \in 0 .. Place - 1 : line'[c] = source[q][c])
  BY <1>1, <1>4, LinesHold DEF DataInv
<1>6. result' = [k \in 0 .. width * height - 1 |->
                   IF k - Target \in 0 .. OutWidth - 1 THEN Gray(line'[k - Target]) ELSE result[k]]
  BY DEF GrayRow, TypeOK
<1>7. \A c \in Cols : Gray(line'[c]) \in Grays
  BY <1>5, GrayFacts
<1>8. result' \in [0 .. width * height - 1 -> Grays]
  BY <1>6, <1>7, <1>14 DEF TypeOK
<1>9. TypeOK'
  <2>1. row' \in 0 .. height
    BY <1>1, <1>2
  <2>. QED  BY <1>1, <1>2, <1>5, <1>8, <2>1 DEF TypeOK, input
<1>10. RowState' /\ TiffState'
  BY <1>1, <1>2 DEF RowState, TiffState, Collects, input, DataInv
<1>11. LineState'
  <2>1. 0 .. row' - 1 = 0 .. row
    BY <1>1, <1>2
  <2>. QED  BY <1>1, <1>2, <1>5, <2>1 DEF LineState, input
<1>12. OutputState' /\ FinishedState'
  BY <1>1, Fixed DEF DataInv, OutputState, FinishedState
<1>13. BufferState'
  <2>. SUFFICES ASSUME InReach, NEW r \in Rows, Filled(r)', NEW c \in Cols
                PROVE  Faithful(result'[r * width + c], r, c)
    BY <1>1, <1>2, Fixed DEF BufferState, Faithful, input
  <2>1. r * width + c \in 0 .. width * height - 1
    BY Places
  <2>4. Target = Place * width /\ 0 .. OutWidth - 1 = Cols
    BY <1>3 DEF Cols
  <2>2. CASE r = Place
    <3>1. (r * width + c) - Target = c
      BY <1>2, <1>3, <2>2, <2>4 DEF Cols
    <3>2. result'[r * width + c] = Gray(line'[c])
      BY <1>6, <2>1, <2>4, <3>1
    <3>3. source[Place] \in [Cols -> Pixels] /\ \A q \in 0 .. Place - 1 : source[q] \in [Cols -> Pixels]
      <4>1. \A q \in Rows : source[q] \in [Cols -> Pixels]
        BY DEF TypeOK
      <4>2. 0 .. Place - 1 \subseteq Rows
        BY <1>2, <1>3 DEF Rows
      <4>. QED  BY <1>3, <4>1, <4>2
    <3>4. CASE line'[c] = source[Place][c]
      BY <2>2, <3>2, <3>3, <3>4, GrayFacts DEF Faithful
    <3>5. CASE May({"decode", "memory"}) /\ line'[c] = Noise
      BY <2>2, <3>2, <3>5, GrayFacts DEF Faithful
    <3>6. CASE May({"decode", "memory"}) /\ \E q \in 0 .. Place - 1 : line'[c] = source[q][c]
      <4>1. PICK q \in 0 .. Place - 1 : line'[c] = source[q][c]
        BY <3>6
      <4>2. IsGrayOf(Gray(line'[c]), source[q][c])
        BY <3>3, <4>1, GrayFacts
      <4>. QED  BY <2>2, <3>2, <3>6, <4>2 DEF Faithful
    <3>. QED  BY <1>5, <3>4, <3>5, <3>6
  <2>3. CASE r # Place
    <3>1. (r * width + c) - Target \notin Cols
      BY <1>3, <2>3, <2>4, Places
    <3>2. result'[r * width + c] = result[r * width + c]
      BY <1>6, <2>1, <2>4, <3>1
    <3>3. Filled(r)
      <4>1. program' = program /\ r \in Nat
        BY <1>1, <1>2 DEF input, Rows
      <4>. QED  BY <1>1, <1>2, <2>3, <4>1 DEF Filled, Place
    <3>. QED  BY <1>1, <3>2, <3>3 DEF DataInv, BufferState
  <2>. QED  BY <2>2, <2>3
<1>. QED  BY <1>9, <1>10, <1>11, <1>12, <1>13 DEF DataInv

\* One more row in a TIFF, or the failure to write it.
LEMMA ConvertRowInv ==
  ASSUME IInv, ConvertRow \/ WriteRowFails
  PROVE  TypeOK' /\ DataInv'
<1>. USE DEF IInv
<1>1. UNCHANGED <<input, result>> /\ row' = row + 1 /\ line' = source[row]
      /\ row < height /\ pc = "rows" /\ program = "jpeg_tiff"
      /\ width' = width /\ height' = height /\ Rows' = Rows /\ Cols' = Cols
  BY Fixed DEF ConvertRow, WriteRowFails
<1>2. row \in Nat /\ height \in Nat /\ row \in Rows /\ row + 1 \in 0 .. height
  BY <1>1, SizeFacts DEF TypeOK, Rows
<1>3. line' \in [Cols -> Pixels]
  BY <1>1, <1>2 DEF TypeOK
<1>4. output = [p \in (0 .. row - 1) \X Cols |-> Gray(source[p[1]][p[2]])]
  BY <1>1 DEF DataInv, TiffState
<1>5. held' \subseteq held \/ held' = held
  BY DEF ConvertRow, WriteRowFails, Frees
<1>6. misfreed' \in BOOLEAN
  BY DEF ConvertRow, WriteRowFails, Frees, TypeOK
<1>7. RowState' /\ BufferState'
  BY <1>1 DEF RowState, BufferState, Collects, input, ConvertRow, WriteRowFails, Returns
<1>8. LineState'
  <2>1. row \in 0 .. row' - 1
    BY <1>1, <1>2
  <2>2. source' = source
    BY <1>1 DEF input
  <2>. QED  BY <1>1, <2>1, <2>2 DEF LineState
<1>9. CASE ConvertRow
  <2>1. output' = [p \in (0 .. row' - 1) \X Cols |-> Gray(source[p[1]][p[2]])]
    <3>1. output' = [p \in DOMAIN output \cup ({row} \X Cols) |->
                       IF p[1] = row THEN Gray(source[row][p[2]]) ELSE output[p]]
      BY <1>1, <1>2, <1>9 DEF ConvertRow
    <3>2. DOMAIN output \cup ({row} \X Cols) = (0 .. row' - 1) \X Cols
      <4>1. 0 .. row' - 1 = (0 .. row - 1) \cup {row}
        BY <1>1, <1>2
      <4>2. DOMAIN output = (0 .. row - 1) \X Cols
        BY <1>4
      <4>. QED  BY <4>1, <4>2
    <3>3. ASSUME NEW p \in (0 .. row' - 1) \X Cols, p[1] # row
          PROVE  output[p] = Gray(source[p[1]][p[2]])
      <4>1. p \in (0 .. row - 1) \X Cols
        BY <1>1, <1>2, <3>3
      <4>. QED  BY <1>4, <4>1
    <3>. QED  BY <3>1, <3>2, <3>3
  <2>2. TiffState'
    <3>1. \A p : Gray(p)' = Gray(p)
      BY <1>1 DEF Gray, input
    <3>2. source' = source
      BY <1>1 DEF input
    <3>. QED  BY <1>1, <2>1, <3>2 DEF TiffState, Gray, input
  <2>3. OutputState' /\ \A p \in DOMAIN output' : output'[p] \in Grays
    <3>. DEFINE n == row'
    <3>1. n \in 0 .. height /\ n = row + 1
      BY <1>1, <1>2
    <3>2. ASSUME NEW p \in DOMAIN output'
          PROVE  p \in Rows \X Cols /\ output'[p] \in Grays /\ Faithful(output'[p], p[1], p[2])
      <4>1. p[1] \in Rows /\ p[2] \in Cols /\ p \in Rows \X Cols
        BY <1>2, <2>1, <3>1 DEF Rows
      <4>2. source[p[1]][p[2]] \in Pixels
        BY <4>1 DEF TypeOK
      <4>3. output'[p] = Gray(source[p[1]][p[2]])
        BY <2>1
      <4>. QED  BY <4>1, <4>2, <4>3, GrayFacts DEF Faithful
    <3>. QED  BY <1>1, <3>2, Fixed DEF OutputState, Faithful, input
  <2>4. FinishedState'
    BY <1>1, <1>9 DEF FinishedState, ConvertRow
  <2>5. TypeOK'
    <3>1. line' \in [Cols' -> Pixels \cup {Noise}] /\ row' \in 0 .. height'
      BY <1>1, <1>2, <1>3
    <3>2. DOMAIN output' \subseteq Rows' \X Cols'
      BY <1>1, <1>2, <2>1 DEF Rows
    <3>. QED  BY <1>1, <1>9, <2>3, <3>1, <3>2 DEF TypeOK, input, ConvertRow
  <2>. QED  BY <1>7, <1>8, <2>2, <2>3, <2>4, <2>5 DEF DataInv
<1>10. CASE WriteRowFails
  <2>1. output' = output /\ pc' = "returned" /\ status' = 0 /\ faults # {} /\ faults' = faults
    BY <1>1, <1>10 DEF WriteRowFails, Returns, May, input
  <2>2. OutputState' /\ FinishedState' /\ TiffState'
    BY <1>1, <2>1 DEF DataInv, OutputState, FinishedState, TiffState, Faithful, InReach, May, input
  <2>3. line' \in [Cols' -> Pixels \cup {Noise}] /\ row' \in 0 .. height'
    BY <1>1, <1>2, <1>3
  <2>4. TypeOK'
    BY <1>1, <1>5, <1>6, <2>1, <2>3 DEF TypeOK, input
  <2>. QED  BY <1>7, <1>8, <2>2, <2>4 DEF DataInv
<1>. QED  BY <1>9, <1>10

\* A file is complete when it holds all rows.
LEMMA AllRowsComplete ==
  ASSUME TypeOK, NEW f, f = [p \in Rows \X Cols |-> f[p]], \A p \in Rows \X Cols : f[p] \in Grays
  PROVE  f # NoFile
<1>1. size \in Sizes /\ Rows \X Cols = (0 .. size[2] - 1) \X (0 .. size[1] - 1)
  BY DEF TypeOK, Rows, Cols, width, height
<1>2. Grays \subseteq Nat \cup {Noise}
  <2>1. \A p \in Pixels : Sum3(p) \in Nat
    BY ConvertersAssumption DEF Sum3
  <2>2. \A p \in Pixels : Sum3(p) \div 3 \in Nat /\ (2 * Sum3(p) + 3) \div 6 \in Nat
    BY <2>1
  <2>. QED  BY <2>2 DEF Grays
<1>3. f \in [(0 .. size[2] - 1) \X (0 .. size[1] - 1) -> Nat \cup {Noise}]
  BY <1>1, <1>2
<1>4. \A s \in Sizes : NoFile \notin [(0 .. s[2] - 1) \X (0 .. s[1] - 1) -> Nat \cup {Noise}]
  BY ConvertersAssumption
<1>. QED  BY <1>1, <1>3, <1>4

Writes ==
  \/ WriteWebP \/ WriteJpeg \/ WriteJpegFails
  \/ CreateWriteStructFails \/ CreateInfoFails \/ SetupFails \/ WritePngFails \/ WritePng

\* The actions that write the target file from the buffer: as much of it as
\* they get written, and all of it if nothing fails.
LEMMA WritesInv ==
  ASSUME IInv, Writes
  PROVE  TypeOK' /\ DataInv'
<1>. USE DEF IInv
<1>1. UNCHANGED <<input, row, line, result>> /\ pc = "write" /\ pc' = "returned"
      /\ status' \in {0, 1} /\ Collects
  BY DEF Writes, WriteWebP, WriteJpeg, WriteJpegFails, CreateWriteStructFails, CreateInfoFails,
         SetupFails, WritePngFails, WritePng, Png, Returns, WebP, Collects
<1>2. held' \subseteq held \cup {"output", "op_file", "fp", "encoder", "png_ptr", "info_ptr", "row_pointers"}
      /\ misfreed' \in BOOLEAN
  BY DEF Writes, WriteWebP, WriteJpeg, WriteJpegFails, CreateWriteStructFails, CreateInfoFails,
         SetupFails, WritePngFails, WritePng, Png, Frees, TypeOK
<1>3. height \in Nat \ {0} /\ Rows \subseteq 0 .. height /\ 0 \in 0 .. height /\ height \in 0 .. height
  BY SizeFacts DEF Rows
<1>4. PICK n \in 0 .. height : output' = Picture(n) /\ (faults = {} /\ InReach => n = height)
  BY <1>3, OutWidthFacts, SizeFacts DEF Writes, WriteWebP, WriteJpeg, WriteJpegFails, CreateWriteStructFails, CreateInfoFails,
              SetupFails, WritePngFails, WritePng, May, OutWidth
<1>5. /\ DOMAIN output' = (0 .. n - 1) \X (0 .. OutWidth - 1)
      /\ DOMAIN output' \subseteq Rows \X Cols
      /\ \A p \in DOMAIN output' : output'[p] \in Grays
      /\ \A r \in 0 .. n - 1, c \in 0 .. OutWidth - 1 :
           r \in Rows /\ c \in Cols /\ output'[<<r, c>>] = result[r * OutWidth + c]
  BY <1>4, PictureTyped
<1>6. TypeOK'
  BY <1>1, <1>2, <1>5, Fixed DEF TypeOK, input
<1>7. OutputState'
  <2>1. ASSUME InReach, NEW p \in DOMAIN output'
        PROVE  Faithful(output'[p], p[1], p[2])
    <3>1. p[1] \in 0 .. n - 1 /\ p[2] \in 0 .. OutWidth - 1 /\ p[2] \in Cols /\ p = <<p[1], p[2]>>
          /\ OutWidth = width
      BY <1>5, <2>1, OutWidthFacts
    <3>2. p[1] \in Rows /\ output'[p] = result[p[1] * width + p[2]]
      BY <1>5, <3>1
    <3>3. Filled(p[1])
      BY <1>1, <1>3, <3>2 DEF Filled, Rows, DataInv, RowState
    <3>. QED  BY <1>1, <2>1, <3>1, <3>2, <3>3 DEF DataInv, BufferState
  <2>. QED  BY <1>1, <1>5, <2>1, Fixed DEF OutputState, Faithful, input
<1>8. FinishedState'
  <2>. SUFFICES ASSUME InReach, faults = {} PROVE Complete'
    BY <1>1, Fixed DEF FinishedState, input
  <2>1. DOMAIN output' = Rows \X Cols /\ OutWidth = width
    BY <1>4, <1>5, OutWidthFacts DEF Rows, Cols
  <2>2. output' = [p \in Rows \X Cols |-> output'[p]]
    BY <1>4, <2>1 DEF Picture
  <2>3. output' # NoFile
    <3>1. \A p \in Rows \X Cols : output'[p] \in Grays
      BY <1>5, <2>1
    <3>. QED  BY <2>2, <3>1, AllRowsComplete
  <2>. QED  BY <1>1, <2>1, <2>3, Fixed DEF Complete
<1>9. RowState' /\ LineState' /\ BufferState' /\ TiffState'
  BY <1>1 DEF RowState, LineState, BufferState, TiffState
<1>. QED  BY <1>6, <1>7, <1>8, <1>9 DEF DataInv

Quiet ==
  \/ OpenSource \/ SourceMissing \/ ReadHeader \/ JpegError \/ OpenTiffFails \/ CloseTiff
  \/ GrayRowOutside \/ RowsDone \/ OpenWebPFails \/ OpenJpegFails \/ OpenPngFails \/ CreateCompressFails \/ NullBuffer
  \/ ProbeStructFails \/ Probe

\* The actions that leave the picture alone.
LEMMA QuietInv ==
  ASSUME IInv, Quiet
  PROVE  TypeOK' /\ DataInv'
<1>. USE DEF IInv
<1>1. UNCHANGED <<input, row, line, result, output>>
  BY DEF Quiet, OpenSource, SourceMissing, ReadHeader, JpegError, OpenTiffFails, CloseTiff,
         GrayRowOutside, RowsDone, OpenWebPFails, OpenJpegFails, OpenPngFails, ProbeStructFails,
         NullBuffer, CreateCompressFails, Probe, Crashes, Png
<1>2. pc' \in {"header", "start", "rows", "write", "returned", "crashed"} /\ status' \in {-1, 0, 1, 2, 4}
  BY DEF Quiet, OpenSource, SourceMissing, ReadHeader, JpegError, OpenTiffFails, CloseTiff,
         GrayRowOutside, RowsDone, OpenWebPFails, OpenJpegFails, OpenPngFails, ProbeStructFails,
         NullBuffer, CreateCompressFails, Probe, Crashes, Png, Returns, TypeOK
<1>3. program \in {"jpeg_tiff", "tiff_jpeg", "tiff_png", "tiff_webp", "jpeg_webp", "png_tiff"}
  BY ConvertersAssumption DEF TypeOK
<1>4. misfreed' \in BOOLEAN
  BY DEF Quiet, OpenSource, SourceMissing, ReadHeader, JpegError, OpenTiffFails, CloseTiff,
         GrayRowOutside, RowsDone, OpenWebPFails, OpenJpegFails, OpenPngFails, ProbeStructFails,
         NullBuffer, CreateCompressFails, Probe, Crashes, Png, Frees, TypeOK
<1>5. held' \subseteq held \cup Opened \cup {"decoder", "jpeg_data", "webp_data", "encoder", "png_ptr", "info_ptr"}
  BY DEF Quiet, OpenSource, SourceMissing, ReadHeader, JpegError, OpenTiffFails, CloseTiff,
         GrayRowOutside, RowsDone, OpenWebPFails, OpenJpegFails, OpenPngFails, ProbeStructFails,
         NullBuffer, CreateCompressFails, Probe, Crashes, Png, Frees
<1>6. Opened \subseteq {"infile", "decoder", "tif", "raster", "gray_data", "buf", "result", "fp"}
  BY <1>3 DEF Opened
<1>7. TypeOK'
  BY <1>1, <1>2, <1>4, <1>5, <1>6, Fixed DEF TypeOK, input
<1>8. pc' \in {"header", "start", "rows"} =>
        /\ pc \in {"open", "header"}
        /\ pc' = "rows" => program # "jpeg_tiff"
  BY <1>3 DEF Quiet, OpenSource, SourceMissing, ReadHeader, JpegError, OpenTiffFails, CloseTiff,
         GrayRowOutside, RowsDone, OpenWebPFails, OpenJpegFails, OpenPngFails, ProbeStructFails,
         NullBuffer, CreateCompressFails, Probe, Crashes, Png, Returns, BookInv, HoldsExactly
<1>9. pc' = "write" => pc = "rows" /\ row = height /\ Collects
  BY <1>3 DEF Quiet, OpenSource, SourceMissing, ReadHeader, JpegError, OpenTiffFails, CloseTiff,
         GrayRowOutside, RowsDone, OpenWebPFails, OpenJpegFails, OpenPngFails, ProbeStructFails,
         NullBuffer, CreateCompressFails, Probe, Crashes, Png, Returns
<1>10. faults = {} /\ InReach /\ pc' = "returned" => program = "png_tiff" \/ CloseTiff
  BY DEF Quiet, OpenSource, SourceMissing, ReadHeader, JpegError, OpenTiffFails, CloseTiff,
         GrayRowOutside, RowsDone, OpenWebPFails, OpenJpegFails, OpenPngFails, ProbeStructFails,
         NullBuffer, CreateCompressFails, Probe, Crashes, Png, Returns, May
<1>11. RowState' /\ TiffState'
  BY <1>1, <1>2, <1>8, <1>9, Fixed DEF DataInv, RowState, TiffState, input
<1>12. LineState'
  BY <1>1, <1>2, <1>8, Fixed DEF DataInv, LineState, input
<1>13. BufferState'
  <2>1. CASE pc' = "rows"
    <3>1. row = 0 /\ height \in Nat
      BY <1>8, <2>1, SizeFacts DEF DataInv, RowState
    <3>2. \A r \in Rows : ~ Filled(r)
      BY <3>1 DEF Filled, Rows
    <3>3. \A r \in Rows : ~ Filled(r)'
      BY <1>1, <3>2, Fixed DEF Filled, input
    <3>. QED  BY <1>1, <3>3, Fixed DEF BufferState
  <2>2. CASE pc' = "write"
    BY <1>1, <1>9, <2>2, Fixed DEF DataInv, BufferState, Filled, Faithful, input
  <2>. QED  BY <2>1, <2>2 DEF BufferState
<1>14. OutputState'
  BY <1>1, Fixed DEF DataInv, OutputState, Faithful, input
<1>15. FinishedState'
  <2>. SUFFICES ASSUME InReach, faults = {}, pc' = "returned", program # "png_tiff" PROVE Complete'
    BY <1>1, Fixed DEF FinishedState, input
  <2>1. program = "jpeg_tiff" /\ pc = "rows" /\ row = height
    BY <1>10 DEF CloseTiff
  <2>2. output = [p \in Rows \X Cols |-> Gray(source[p[1]][p[2]])]
    BY <2>1 DEF DataInv, TiffState, Rows
  <2>3. \A p \in DOMAIN output : output[p] \in Grays
    <3>. SUFFICES ASSUME NEW p \in Rows \X Cols PROVE Gray(source[p[1]][p[2]]) \in Grays
      BY <2>2
    <3>1. source[p[1]][p[2]] \in Pixels
      BY DEF TypeOK
    <3>. QED  BY <3>1, GrayFacts
  <2>4. output # NoFile
    BY <2>2, <2>3, AllRowsComplete
  <2>. QED  BY <1>1, <2>2, <2>4, Fixed DEF Complete
<1>. QED  BY <1>7, <1>11, <1>12, <1>13, <1>14, <1>15 DEF DataInv

LEMMA DataInit == Init => TypeOK /\ DataInv
<1>. SUFFICES ASSUME Init PROVE TypeOK /\ DataInv
  OBVIOUS
<1>1. size \in (Nat \ {0}) \X (Nat \ {0}) /\ height \in Nat \ {0}
  BY ConvertersAssumption DEF Init, height
<1>2. source \in [Rows -> [Cols -> Pixels]]
  BY ConvertersAssumption DEF Init, Rows, Cols, width, height
<1>3. TypeOK
  <2>1. row \in 0 .. height
    BY <1>1 DEF Init
  <2>2. line \in [Cols -> Pixels \cup {Noise}]
    BY DEF Init
  <2>3. result \in [0 .. width * height - 1 -> Grays]
    BY DEF Init, Grays
  <2>. QED  BY <1>2, <2>1, <2>2, <2>3 DEF Init, TypeOK
<1>4. RowState /\ LineState /\ BufferState /\ TiffState /\ OutputState /\ FinishedState
  BY DEF Init, RowState, LineState, BufferState, TiffState, OutputState, FinishedState
<1>. QED  BY <1>3, <1>4 DEF DataInv

\* A new TIFF has no rows.
LEMMA OpenTiffInv ==
  ASSUME IInv, OpenTiff
  PROVE  TypeOK' /\ DataInv'
<1>. USE DEF IInv
<1>1. UNCHANGED <<input, row, line, result, status>> /\ pc = "start" /\ pc' = "rows"
      /\ output' = [p \in {} |-> Noise] /\ program = "jpeg_tiff" /\ row = 0
  BY DEF OpenTiff, BookInv, HoldsExactly, DataInv, RowState
<1>2. held' \subseteq held \cup {"outfile", "bufrow"} /\ misfreed' \in BOOLEAN
  BY DEF OpenTiff, Frees, TypeOK
<1>3. TypeOK'
  BY <1>1, <1>2, Fixed DEF TypeOK, input
<1>4. OutputState'
  BY <1>1 DEF OutputState
<1>5. TiffState'
  <2>1. (0 .. row' - 1) \X Cols' = {}
    BY <1>1
  <2>2. output' = [p \in (0 .. row' - 1) \X Cols' |-> Gray(source[p[1]][p[2]])']
    BY <1>1, <2>1
  <2>. QED  BY <2>2 DEF TiffState
<1>6. RowState' /\ LineState' /\ BufferState' /\ FinishedState'
  BY <1>1, Fixed DEF DataInv, RowState, LineState, BufferState, FinishedState, Collects, input
<1>. QED  BY <1>3, <1>4, <1>5, <1>6 DEF DataInv

\* What new could not make is missing, and an empty TIFF may be left.
LEMMA NewThrowsInv ==
  ASSUME IInv, NewThrows
  PROVE  TypeOK' /\ DataInv'
<1>. USE DEF IInv
<1>1. UNCHANGED <<input, row, line, result>> /\ pc' = "returned" /\ status' = 0 /\ faults # {}
      /\ (output' = [p \in {} |-> Noise] \/ output' = output)
  BY DEF NewThrows, Returns, May
<1>2. held' \subseteq held \cup {"outfile", "tif", "raster"} /\ misfreed' \in BOOLEAN
  BY DEF NewThrows, Frees, TypeOK
<1>3. TypeOK'
  BY <1>1, <1>2, Fixed DEF TypeOK, input
<1>4. OutputState'
  <2>1. CASE output' = output
    BY <1>1, <2>1, Fixed DEF DataInv, OutputState, Faithful, input
  <2>2. CASE output' = [p \in {} |-> Noise]
    BY <2>2 DEF OutputState
  <2>. QED  BY <1>1, <2>1, <2>2
<1>5. RowState' /\ LineState' /\ BufferState' /\ TiffState' /\ FinishedState'
  BY <1>1, Fixed DEF RowState, LineState, BufferState, TiffState, FinishedState, input
<1>. QED  BY <1>3, <1>4, <1>5 DEF DataInv

LEMMA InitInv == Init => IInv
BY BookInit, DataInit DEF IInv

LEMMA NextInv == IInv /\ [Next]_vars => IInv'
<1>. SUFFICES ASSUME IInv, [Next]_vars PROVE IInv'
  OBVIOUS
<1>1. BookInv'
  BY BookStep DEF IInv
<1>2. TypeOK' /\ DataInv'
  <2>1. CASE UNCHANGED vars
    BY <2>1, Fixed
    DEF vars, input, IInv, TypeOK, DataInv, RowState, LineState, BufferState, TiffState, OutputState,
        FinishedState, Filled, Faithful, Complete, Gray, May, InReach
  <2>2. CASE Quiet
    BY <2>2, QuietInv
  <2>3. CASE Writes
    BY <2>3, WritesInv
  <2>4. CASE OpenTiff \/ ConvertRow \/ WriteRowFails \/ GrayRow
    BY <2>4, OpenTiffInv, ConvertRowInv, GrayRowInv
  <2>5. CASE NewThrows
    BY <2>5, NewThrowsInv
  <2>. QED  BY <2>1, <2>2, <2>3, <2>4, <2>5 DEF Next, Ended, Quiet, Writes
<1>. QED  BY <1>1, <1>2 DEF IInv

LEMMA Invariance == Spec => []IInv
BY InitInv, NextInv, PTL DEF Spec

-----------------------------------------------------------------------------

\* Every variable keeps its type: no row is put outside its buffer or its file.
THEOREM TypeCorrect == Spec => []TypeOK
BY Invariance, PTL DEF IInv

\* Without a fault a converter finishes its file, unless it crashes, and every
\* pixel of a complete file is the gray of the source pixel at its place,
\* whatever the size of the picture and however the converter indexes its
\* buffers.
THEOREM ConvertersAreFaithful == Spec => []OutputIsGray
<1>1. IInv => OutputIsGray
  <2>. SUFFICES ASSUME IInv, InReach, Complete, NEW r \in Rows, NEW c \in Cols
                PROVE  Faithful(output[<<r, c>>], r, c)
    BY DEF IInv, DataInv, FinishedState, OutputIsGray, Faithful
  <2>1. <<r, c>> \in DOMAIN output /\ output # NoFile
    BY DEF Complete
  <2>2. \A p \in DOMAIN output : Faithful(output[p], p[1], p[2])
    BY <2>1 DEF IInv, DataInv, OutputState
  <2>3. Faithful(output[<<r, c>>], <<r, c>>[1], <<r, c>>[2])
    <3>. DEFINE p == <<r, c>>
    <3>1. p \in DOMAIN output
      BY <2>1
    <3>. HIDE DEF p
    <3>2. Faithful(output[p], p[1], p[2])
      BY <2>2, <3>1
    <3>. QED  BY <3>2 DEF p
  <2>. QED  BY <2>3
<1>. QED  BY <1>1, Invariance, PTL

\* The causes of a crash are memory that is short, a WebP file that cannot be
\* made, more bytes than a word or an int counts, and gray sources: in
\* particular no row index leaves a buffer otherwise.
THEOREM OnlyExplainedCrashes == Spec => []CrashesExplained
BY Invariance, PTL DEF IInv, BookInv

\* No exit of any converter gives back what is not held.  io_tiff_png always
\* gives back its buffers, and io_jpeg_tiff its source, unless the row buffer
\* could not be made; the others leave things open only where the property
\* says so.
THEOREM NothingFreedTwice == Spec => []ExitsGiveBack
BY Invariance, PTL DEF IInv, BookInv
=============================================================================
