# Verification of rsdt-students

TLA+ models of the programs in this repository, model-checked with TLC on
small instances and, where it pays, proved with TLAPS for every instance.

The repository is a students' workshop: about thirty small C++ programs (and
some Python twins) over OpenCV, FANN and the image codecs, built by one CMake
tree. None of them is large and few talk to each other; what they share is a
shape: a loop over pixels, frames, files or angles with a hand-written exit
condition, a cache or a sentinel, and an external library that throws when its
precondition is broken. That is where the properties are.

## Inventory

### prj.first (library)

| component | state | operations | what makes it correct |
|---|---|---|---|
| `protovis/tsplot` TimeSeriesPlot | canvas, last_frame_no, last_y, origin_frame_no (all start at -1), last_pre_cursor_image | `set_canvas`, `push_value` | every region it takes stays inside the canvas; exactly one cursor; the trace of the current sweep has no holes |
| `protovis/canvas`, `lineplot` | origin, scale, pen position, y flip | `set_scale`, `shift_origin`, `flip_y_axis`, `move_to`, `line_to`, `line_plot`, `multiline_surface_plot` | what is drawn is the data at its height; curves of an earlier plot are gone; a caller can tell which way up the next plot comes |
| `include/utils/ocv-interop.h`, `minerrutils.h` | destination image header | `minImgFromCvMat`, `minImgToCvMat`, `THROW_ON_MINERR` | round trip, no partial write on an unsupported type |

### task.docproc (document scans)

| component | state | what makes it correct |
|---|---|---|
| docproc_TCS, docproc_KBS | image and skelet of the peeling loop, two output files | the loop ends, the file is the morphological skeleton, ink never vanishes |
| docproc_KBR, docproc_TBR, docproc_TCR, docproc_KCS (and Python twins) | best angle so far, its score, sentinels | the angle is the arg max (arg min for KCS) of the scores tried, first one on ties |

### task.keypoints

| component | state | what makes it correct |
|---|---|---|
| pashevich/touristless | list of images, per-image person rectangles, the output | a person's rectangle is replaced by a piece without persons, and nothing else is replaced |
| pashevich/imagecutter.py | the corners heard of, the callbacks that wait for a key, coordinates.txt (opened for writing, never written to) | each drag is printed with its own corners, however callbacks nest |
| mastov/flareless | list of good images, `std::cin` | the minimum is over accepted images only; answers are read once each |
| koryagin/pano.py | panorama so far | each image is placed once |

### task.sample

| component | state | what makes it correct |
|---|---|---|
| camshift (copy in task.imgio/io_jpeg_webp) | trackObject, selectObject, selection, paused, trackWindow, windows | handlers and loop agree on the selection; the tracker is never called on an empty window |
| demo_filters | orig, eroded, skeleton, the window | saturating sums never saturate; the loop ends; what is shown is the result |
| protovis_sample | erosion_w, one image for all canvases, two windows | the windows show the same picture; every erosion is shown again and again |
| fann_xor, fann_digits_cascade, errors | none of their own | |

### task.imgio and task.ml

| component | state | what makes it correct |
|---|---|---|
| io_jpeg_tiff, io_tiff_jpeg, io_tiff_png, io_tiff_webp, io_png_tiff, io_webp_png | open handles, scanline buffers | handles released on every path, indices inside the buffers, failures reported |
| char_rec/task3 (= char_another/task_fann) | data files, network, error rates | header counts match rows, rates go to the right files |

### Left aside

prj.third (leptonica, libjpeg, libpng, libtiff, libwebp, log4cplus, json-cpp,
zlib) is vendored; cmake, config, include/compat, doc and testdata hold no
logic of the programs; cpp-example-stitching_detailed is OpenCV's example.

### How the parts interact

- The command-line programs share files only: each deskewing or
  skeletonization program reads and writes images by path. Nothing runs
  concurrently.
- imagecutter.py and touristless meet in coordinates.txt, by way of the user:
  the script prints the rectangles dragged on a photo, and the user copies them
  into the file touristless reads, the number of rectangles of each photo
  before its list. The script itself opens coordinates.txt for writing when it
  starts, which empties it, and never writes to it.
- Two programs have callbacks. HighGUI calls camshift's `onMouse` inside
  `waitKey`, on the same thread, any number of times before `waitKey` returns.
  The callback of imagecutter.py calls `waitKey` itself, so that it can be
  called again before it has returned. The demo of the skeleton and the pause
  of camshift wait for keys.
- All canvases of protovis_sample draw on one image; the constructor of a
  `Canvas` paints it white.
- `TimeSeriesPlot` shares its canvas with its caller by reference, and keeps a
  copy of the pixels it draws the cursor over.
- Flareless reads its answers from `std::cin`, whose fail bit outlives the read
  that set it.
- OpenCV throws on a region outside an image, an empty image, an empty tracker
  window or a negative size. Some programs catch it in `main`, others end on it.

### What is hard here

The list with its lines is `hazards` in PROJECT.json. In short: hand-written
loop exits that depend on what erosion does at the border; images updated in
place between two uses; copies and sentinels that must survive an exception
thrown halfway; mouse events between two frames; collapsed tracker windows;
callbacks inside callbacks; two coordinate systems for one rectangle; a stream
that has failed; a counter that changes its meaning in the middle of `main`; a
conversion to int that rounds positive numbers only.

## Modules

Every module names the source lines of its actions in comments, and
`map` in PROJECT.json gives the lines of every definition.

| module | what it is |
|---|---|
| `Morphology` | erosion, dilation, opening, residue of a set of pixels under a footprint `Nbr`; external (OpenCV) |
| `Peeling` | what a skeleton loop promises; implemented by `Skeletonization` and `DemoSkeletonize` |
| `Skeletonization` | docproc_TCS and docproc_KBS, `main` to exit |
| `DemoSkeletonize` | demo_filters: `main`, `save_filtered_images`, `skeletonize`, in gray levels |
| `TimeSeriesPlot` | `protovis::TimeSeriesPlot::push_value` |
| `CamshiftDemo` | the camshift demo: mouse handler, frame loop, keys |
| `Canvas` | `protovis::Canvas`: its fields as a record, its methods as operators |
| `SurfacePlot` | `line_plot`, `multiline_surface_plot` and protovis_sample; extends `Canvas` |
| `Touristless` | pashevich/touristless |
| `ImageCutter` | pashevich/imagecutter.py; a part of `Retouching` |
| `Retouching` | imagecutter.py for each photo, the user's copying, and touristless on the result: `ImageCutter` and `Touristless` composed |
| `Flareless` | mastov/flareless |
| `AngleSearch` | docproc_KBR, docproc_TBR, docproc_TCR, docproc_KCS and three Python twins, one `program` each |
| `Converters` | the five converters of task.imgio and the PNG probe, one `program` each |
| `CharRec` | task.ml: task3 and its copy task_fann |
| `NumberFacts` | lemmas about numbers the proofs share: least and greatest members, induction, iteration, recursion |
| `DocprocProofs` | the theorems about `Skeletonization` and `AngleSearch` |
| `SampleProofs` | the theorems about `DemoSkeletonize` and `CamshiftDemo` |
| `ProtovisProofs` | the theorems about `TimeSeriesPlot` and `SurfacePlot` |
| `FlarelessCharRecProofs` | the theorems about `Flareless` and `CharRec` |
| `TouristlessProofs`, `ConvertersProofs`, `RetouchingProofs` | the theorems about the module of that name |
| `MC*` | its instance for TLC; the .cfg files of one MC module are its runs |

Four proof modules extend two components each, which have nothing to do with
one another but would clash by name; the second has names of its own therefore
(`AngleInit`, `AngleNext`, `AngleSpec`, `angleVars` and the like in `AngleSearch`,
`Camshift...` in `CamshiftDemo`, `Surface...` in `SurfacePlot`, `CharRec...` in
`CharRec`).

Definitions called `Name_Variant` beside a definition `Name` are that
definition with a plausible slip in it (an off-by-one, a dropped reset, a
swapped order). Nothing uses them; each shows that some property would notice
the slip.

One pair of programs shares state, and `Retouching` composes their modules;
`SurfacePlot` composes a canvas with its callers. Two modules implement an
abstract one: `Skeletonization` and `DemoSkeletonize` implement `Peeling`.

### Skeletonization

State: the file read (`source`), the two files written (`firstFile`,
`skeletFile`), `image` and `skelet` as the sets of their white pixels, and
`phase`, where `main` is. `FirstStage` is the call of `autocontrast` (TCS) or
`binarization` (KBS), of which only "writes its file, or throws" is kept;
`Binarize` is everything from `imread` to the threshold, with any background a
median can give (each value a value of the scan) and any threshold Otsu's
method could choose; `Peel` is one turn of the while loop; `Write` is the
`imwrite` of the negative. The failure actions end in the `catch` of `main`.
`input` and `reach` are history: the image the loop started from, and for each
pixel what as many dilations as layers are gone make of it. `SkeletonIsNear`
compares them with the program's own `skelet` and `image`, and with the file: a
residue the loop dropped would leave ink with nothing near enough.

The loop stops when the eroded image is empty. OpenCV's erosion ignores what
is outside the image, so an all-white image would never get there:
`NeverAllWhite` shows that the subtraction of the scan from its median cannot
produce one, since the brightest pixel of the scan is never darker than its
background.

### Peeling

Both skeleton loops peel: a set is loaded, each turn but the last takes
something off it and adds nothing, and afterwards it is left alone until the
next is loaded. This is what their ends rest on, and what a loop that forgets to
update its picture, or is fed a picture erosion cannot shrink, no longer does.
`Skeletonization` maps the white pixels of its image to `left`, and the phase
"peel" to `busy`. `DemoSkeletonize` maps the umbra of its layer, the pairs of a
pixel and a level below its gray.

### DemoSkeletonize

The same idea in gray levels, with different exits: the loop leaves on the
first layer that loses nothing (so an image that is its own opening gives an
empty skeleton at once), or on q. `StartRound` is lines 122-127, `Turn` and
`Finish` the two outcomes of one pass, `NoKey`, `KeyQ` and `AnyKey` what
`waitKey` returns. Two rounds: the image, then its negative. `skeletonize`
works on the negative of what it is given. The code after `return` in line 157
is dead and left out.

### TimeSeriesPlot

A column of the canvas is the set of frames whose line has left ink in it, or
`Cursor`. `Push` and `PushThrows` are the whole of `push_value`; which one applies is
decided by whether the region of line 36 lies on the canvas. When it does not,
everything before that line has been done and stays done. Values are given by
the height they scale to; heights above `Rows` are off the scale, and height 0,
the smallest value, lies one row below the canvas (line 10). `cv::line` clips
what it draws, so `Inked` says where ink can be: in all columns crossed if both
ends of the line are on the canvas, in none if both are above or both below,
and otherwise in any run of columns with the end that is on it. `visible`
remembers whether all points were on the canvas. A wrap clears nothing left of
the new column, which is column `f - last_frame_no` and not 0: the line from the
last point then crosses columns that still show the sweep before, which
`StaleOnlyAtEdge` confines to those. The canvas is set once, in `Init`.

### CamshiftDemo

`at` is "top" at the head of the frame loop and "wait" inside `waitKey`. The
mouse actions are possible in "wait" only and leave it there. Selections and
windows are rectangles; the clipping of `Rect & Rect` and the reseeding of a
collapsed window, whose far corner is passed where a size is expected, are
arithmetic as in the code. CamShift may find any rectangle in the image, and
throws on an empty one. Trackbars change what `calcHist` sees, which no
property is about. `disturbed` and `cornered` are history.

### Touristless

`ReadLocations` is the reading of the coordinates file, `ObjectPhoto` and
`ScenePhoto` the two calls that find keypoints and transform rectangles, `Paste`, `PasteThrows`
and `LeavePerson` the three outcomes for a rectangle of the object photo. One
axis stands for two (all tests on rectangles are the same on both and joined by
and/or), the homography is a translation, and coordinates are already
multiplied by the scale the file is written in. Rectangles come as they were
drawn: forwards, backwards or over the edge. `MatchingFails` is the exception of
`findHomography` when fewer than four matches are good; which photos match that
badly is not modelled, so any can. The aligned photos written to the output
folder on the way (lines 183 and 186) are left out, since nothing reads them.
`ResultOrReason` says how a run ends: which rectangles are cut first, which are
blocked and which cannot be cut together decide between a result and an
exception. Where the coordinates file is shorter than the folder, the count and
the corners are uninitialized variables: the model takes any list of rectangles
of the instance, up to `MaxGarbage` of them. The properties about persons speak
of complete files, which say where the persons are.

### ImageCutter and Retouching

`Load` and `NoKey` are a turn of the main loop, `Press`, `Release` and
`DoubleClick` what the mouse can do in one of its waits. `Release` is the
callback up to its own `waitKey`; `callbacks` counts those that wait there, one
inside another. They go on with `InnerKey` (the innermost wait gets the key)
or `KeyForAll` (the key ends all pending waits): which of the two happens is up
to the window system, so both can. The second press of a double click is an
event the callback does not listen to, so a release can come without its press
(`DoubleClick`, then `Release`); with one corner only there is no `boxes[-2]`,
and with an empty piece `imshow` throws, both inside the callback, which the
main loop survives. `SliceEnd` is how Python reads the ends of a slice. The
files in which pieces are saved are left out: the piece is a local variable of
its callback, and nothing reads the files.

`Retouching` starts the script once for each photo, lets the user note down what
was printed and copy the notes into the file after each photo or later, and runs
touristless on the file, with coordinates in the window a fraction (`Zoom`) of
those in the photo. `file` of `Touristless` is an operator there: the contents
of coordinates.txt, scaled. `marks` are the drags themselves. The file may differ
from them in two ways, and the properties say by how much: `strays` are the
photos on which a release came without its press, whose lists may hold more than
the drags, and `lost` counts the lists that were in the file when a start of the
script emptied it, by which the others have moved to earlier photos.

### Canvas and SurfacePlot

User coordinates are in tenths, which the sample's z scale of 0.1 makes exact:
the conversion to int happens on the same side of every integer as in floating
point. `Truncated` drops the fraction towards zero, as `static_cast<int>` does.
`Erode` is the sample's turn up to the constructor of its canvas, `StartPlot`
and `PlotRow` are `multiline_surface_plot`, and a row is drawn by the whole of
`line_plot`. The image of a canvas is the set of the segments drawn on it,
before they are clipped to the image. Beside the sample there is a client, which
no program of the repository is: it calls the methods of one canvas in any
order, for the parity of the flips.

### Flareless

`Align` is one turn of the alignment loop, `Select(a)` one turn of the
selection with the answer `a` typed, `Minimum` the loop over the photos for
one sample (a pixel and channel). The photos are aligned already: the warp is
OpenCV's. `ReadBool` is `operator>>` for bool: a number other than 0 and 1
reads as true and sets the fail bit, a word reads as false and sets it, and a
failed or ended stream leaves the variable alone. `is_good` has no value before
the first read. `AlignThrows` is a photo without keypoints, or one with fewer than
four good matches, at which `findHomography` throws.

### AngleSearch

A page, its size, and what is measured at each angle are chosen in `Init`; the
measure, a mean over filtered pixels, is any function of the angle. `turn` numbers
the turns of the for loop and `AngleOf` gives the angle of a turn; the one
baseline TBR measures before its loop is turn -1. `StartFromNothing` and
`StartFromFirst` are what stands for the best before the loop, `Improve` and
`Keep` the two outcomes of a turn, `Rotate` the output. The exceptions are
actions too: `FirstStageThrows`, `StartThrows`, `TurnThrows` and `RotateThrows`
end in the `catch` of KBR, or end the program, which the others do not catch.
`trouble`, chosen in `Init`, is what a program cannot know beforehand: a page that
cannot be decoded, a name without an encoder, a page that is gone when TBR reads
it again. `PageOrReason` says that this and the size of the page decide whether
there is output, and what `main` returns.

Facts the model carries that no property is about. The twin of TBR rotates the
page by the best *mean*, not by the angle it belongs to. The twin of KCS
measures an empty slice on some page formats and then leaves the page alone. On
a blank page all means are equal, so KBR, TCR and KCS rotate it by the first
angle they try (330, -45 and -80 degrees), and TBR, which has its baseline,
leaves it as it is. `pydocproc_TCR.py` fails at line 57 on an option its parser
does not have, before any search.

### Converters

What can go wrong is chosen in `Init` as a set of `faults`: the source is
missing, cannot be decoded, the target cannot be opened, cannot be written,
memory is short. Every failure exit is an action: `JpegError` is the `longjmp`
of libjpeg and the error status of its default handler, and each exit gives
back through `Frees` what the code gives back there. `held` is what is open or
allocated and `misfreed` remembers a release of something that was not held.

Short memory is met wherever a program allocates. Where it looks, or the library
does, there is a failure exit (`OpenTiffFails`, `CreateInfoFails`, `SetupFails`,
`CreateCompressFails` and the like). Where it does not look, `NullBuffer` writes
through a null pointer, and nothing is defined after that. Where `new` throws,
`NewThrows` ends in the catch of `main`: io_jpeg_tiff then leaves its source, its
target and its decoder open, io_tiff_jpeg its TIFF and its raster.

Buffers and indices count pixels. `Room` is the size the code computes, in 32
bits and so modulo `Word` for two programs; the WebP converters count bytes in an
`int`, which `Fits` keeps below `MaxInt`. `GrayRow` reads one row into the
picture in memory, `GrayRowOutside` is the row that would leave the buffer. A
TIFF row that cannot be read leaves the row buffer as it was, because nobody
looks at the result of `TIFFReadScanline`.

A source is RGB or gray (`channels`). libtiff's RGBA raster and io_jpeg_tiff's
decoder setting make RGB of either; the other three take three neighbours of a
gray row for a pixel. io_jpeg_webp writes nonsense then, io_tiff_webp reads past
its row (`Overreads`), and io_tiff_png takes a third of the scanline for the
width (`OutWidth`): if that is not whole, its rows, which it places at
`row * scanline / 3`, drift out of the buffer (`Drifts`). These cases are excused
from `OutputIsGray` and named in `CrashesExplained`.

The probe (io_png_tiff) tells libpng that it has read the signature
(`SignatureTold`), while the read is commented out (`SignatureRead`), so libpng
meets the signature where it expects a chunk and `Probe` fails on every sound
PNG. Failures the converters notice are printed and main still returns 0, as it
does after a success. io_webp_png is not modelled: its first call into the
codec writes through two pointers that were never set.

### CharRec

`CreateData` writes a data file for each of the two sets: a header with the
number of pictures and then the pixels and the label of each, in shuffled
order. FANN reads numbers, not lines, so a file is a flat sequence and `Parsed`
cuts it again into rows, or gives a null pointer if it ends early. A number
keeps the picture and the place it comes from. `Epoch` learns (any answer) and
counts the wrong answers on both sets; `EpochCrashes` follows a null pointer.
`WriteRates` writes the training errors to output_test.txt and the test errors
to output_train.txt, as lines 114-115 do.

## Runs

| run | instance | what it shows |
|---|---|---|
| `skeletonization` | 4x2 pixels, 2 gray levels, clipped 3x3 box; all scans, backgrounds, thresholds, unreadable files | the loop ends; no ink of the scan is further from the skeleton and the image than layers are gone; the file is the skeleton of the textbook formula; the loop implements `Peeling` |
| `demo_skeletonize` | 3x2 pixels, 3 gray levels, cross; all images, any keys | no sum saturates; each round implements `Peeling`; a finished round is the sum of all layer losses and is what the window shows; each round ends |
| `tsplot` | 4x2 canvas, band of 1, frames 0-6, gaps up to 4, back by up to 1, values one row below the canvas and in its top row | as long as the frame numbers have been regular: no exception, no hole in the trace while all values are on the canvas, and ink of the sweep before only left of where the new one began; in any case, after pushes that threw too: the restored column is on the canvas, at most one cursor, lines join |
| `camshift` | 3x2 frame; all mouse, key and frame interleavings | histogram and tracker agree, exceptions have two causes only, a selection is taken up |
| `touristless_aligned` | 3 photos of 5 pixels, up to 2 rectangles each that overlap, touch, lie apart, were drawn backwards or over the edge; complete and short coordinates files (with at most one rectangle where there is no list); any object photo, any blank photo, with and without the output folder inside the input folder | pasted pieces show nobody, the rest stays, a person stays only if no photo is free; a run ends with a result or for a reason found in the photos and rectangles |
| `retouching` | 2 photos of 3 columns, mouse at -1, 0 and 1, up to 3 corners in one run of the script and 3 rectangles in all, 2 turns without a key, zoom 2 | every drag is printed with its own corners; touristless reads what was drawn on each photo, after stray releases with more rectangles on that photo, after starts that emptied the file moved by as many photos as lists were lost; it replaces by photos on which nothing was drawn, and, without stray releases on the photo, nothing else |
| `surface_plot` | photos of 3x2 with 4 gray levels, a curve every 2 rows, 3 erosions, up to 3 calls on one canvas | both windows show the same picture and no curve of an earlier turn; a curve is upright exactly after an odd number of flips; every erosion comes again |
| `flareless` | up to 3 photos of 2 samples, 2 values, 5 kinds of answer, a blank photo, a folder name without its slash | the output is the minimum of the accepted photos; these are the photos answered with 1, as long as every answer could be read |
| `angle_search` | all seven programs, 3 to 9 angles, means -1, 0 and 1, pages of 4x4, 3x4, 1x8 and 8x1, unreadable pages, bad names, a page that goes away | the page is rotated by the first of the best angles tried; a program that has ended without a page has a reason in its files or in the size of the page, and returns 0 exactly if it has written one |
| `converters` | all six programs; pictures of 1x2, 2x2, 3x2 and 5x3, RGB and gray, three colors, words of 32 values, ints up to 15, eight sets of faults | what is written is the gray of the source at its place, and without a fault all of it; crashes are explained by an allocation nobody checks, a missing WebP file, the 32-bit products, the int, or a gray source taken for RGB; each exit gives back what it should, once |
| `char_rec` | two inputs; up to 3 training pictures and 1 test picture of 0 to 3 pixels, in every order; 0 or 2 epochs; a folder that cannot be written to | FANN reads back whole pictures with their labels or nothing, unless one is too large; null pointers have two causes |
| `touristless_displaced` | 2 photos, displaced by 2 | violated: pasted pieces show nobody |

Why these bounds are enough to be interesting. Skeletonization: 4x2 holds
images that take two turns, residues in both, and open and closed ends; every
image of the grid is tried. Demo: three levels are the fewest with which a
pixel can lose grayness in two turns, which saturation needs. Chart: 7 frames
are a 4-column canvas, the wrap, and the columns of a second sweep; a gap of 2
keeps within what the band clears, 3 outruns it, 4 is a canvas, and a step back
can cross the origin. Of two heights one is below the canvas, so lines of all
kinds occur: on it, off it, and with one end on it. A history variable, `widest`,
tells the regular behaviours of this one run from the others. Camshift: in 3x2 a selection can be empty, a
point, a line or the whole, and a window can collapse away from both edges.
Touristless: three photos are the fewest with a choice among free ones, two
rectangles the fewest that can be pasted over each other. Retouching: two
photos are the fewest with a list for another photo to be confused with; -1 is
off the window, three corners are the fewest that can be paired wrongly, two
callbacks can wait at once, and a list can be lost before the second start.
Surface plot: gray levels 14 and 15 are the two sides of the place where the rounding of negative heights changes, 0 and 255 the
ends; with three rows and a step of two there are two curves, and erosions by
one and by two pixels differ from none. Flareless: three
answers are the fewest with one before and one after a bad one. Angle search:
three means give ties and both signs, every order of scores over the angles is
tried, and the ranges keep the shapes of the real ones (odd and even counts,
half open and closed); a page of 3x4 misses the square of TCR by one column, one
of 1x8 the region of KCS. Converters: two rows tell a turned picture from an
upright one, two columns a row from a pixel, three colors rounding from
cutting; 3x2 has more bytes than an int of 15 counts, and 5x3 more than a word of
32, and as a gray TIFF it is the smallest size at which rows drift out by a pixel
in the third. Char_rec: a picture of one pixel
too few and one too many exist beside the right ones, and three pictures let
them compensate each other.

Frame numbers (`MaxFrame`, `MaxGap`, `MaxBack`), the folder (`MaxImages`,
`Images`, `MaxRects`, `MaxGarbage`, `MaxPrinted`), the mouse (`Points`,
`MaxBoxes`), the calls of a client (`MaxCalls`), gray levels (`MaxGray`),
angles (`Deviation`, `HalfRange`, `MaxAngle`, `MaxIter`), sizes (`Sizes`,
`Crop`), the word (`Word`), the int (`MaxInt`), pictures (`Folders`,
`PixelNumber`) and `Epochs` are bounds of the instances. `MaxFrame`,
`MaxBoxes`, `MaxPrinted` and `MaxCalls` cut behaviours short, always where
another step is left (a frame number repeated, a key, an idle step), so no run
disables the deadlock test. Where a program ends, `Ended` or `Exited` is an
idle step of that state alone: that no other state is a deadlock says that it
cannot get stuck before.

### Fairness

- Skeletonization: weak fairness of `Next`. The program runs on its own and
  waits for nobody.
- DemoSkeletonize: weak fairness of `StartRound`, of `Turn \/ Finish` (the loop
  runs on its own) and of `NoKey` (`waitKey(50)` times out). No key press is
  assumed, so a round is shown to end but the program is not: `waitKey(0)` may
  wait for ever.
- CamshiftDemo: weak fairness of `CamshiftTurn`; strong fairness of
  `NoKeyPressed`, because `waitKey` can be left by a key instead and comes back again and again: the
  user does not type in each tenth of a second for ever. Without it p and p
  in turn would keep a paused selection waiting.
- SurfacePlot: weak fairness of `Turn`, the program's own steps, and of `NoKey`:
  `waitKey(300)` times out. No key press is assumed, so the show goes on for ever
  or ends with Escape.
- TimeSeriesPlot, Touristless, Retouching, Flareless, AngleSearch, Converters,
  CharRec: none. Only safety is claimed.

## What is proved

For every value of the constants that meets the stated assumptions, which all
runs check: `FootprintAssumption` (pixels are finite, the structuring element is
symmetric and holds its anchor), `GrayAssumption`, `PlotAssumption`,
`SurfacePlotAssumption` (grays are bytes), `SizeAssumption`,
`TouristlessAssumption`, `ImageCutterAssumption`, `RetouchingAssumption`,
`FlarelessAssumption`, `SearchAssumption` (the step of KCS divides its range, KCS
starts above every mean, the sentinel -360 is no angle KBR tries, so its
deviation is below 360), `ConvertersAssumption` (pictures are not empty and their
pixels can be counted in a word; what marks memory nobody wrote is no gray) and
`CharRecAssumption` (what marks a missing file is no file). Only `LoopPeels`
and `FileIsTheSkeleton` of Skeletonization rest on `ConnectedAssumption` too (a
set of pixels that is closed under the footprint is empty or everything), and the
four theorems about the result of touristless have the premise that the photos
are aligned.

Every safety property of a passing run is a theorem.

| module | theorems | the argument |
|---|---|---|
| `DocprocProofs`, Skeletonization | `TypeCorrect`, `LoopIsSafe`, `NoInkFarFromSkeleton`, `InkIsKept`, `LoopPeels`, `SkeletonGrows` | `IInv` adds to the invariants `Bookkeeping`: what the history holds in each phase, that the loop is left with nothing, and what the file is. A layer is its residue and the opening, which is the next layer dilated once; so a pixel that some dilations of the layer reach is reached by one dilation more of the eroded image, or already by those of the residue. The brightest pixel of a scan is never white after the subtraction, so by connectedness every set that is peeled has a pixel whose footprint leaves it: `Peel` is a step `Take` or `Last` of `Peeling` |
| | `FileIsTheSkeleton` | `FInv` adds `TurnsCounted`: for some k the loop holds the k-th layer of its input and has collected the residues of the k layers before. Each turn takes a pixel, so k stays within the number of pixels, which is as far as the formula goes; below an empty layer nothing is lost |
| `DocprocProofs`, AngleSearch | `AngTypeCorrect`, `SearchFindsBest`, `GradientIsRight`, `EveryEndIsExplained` | `AngInv` adds `BeforeSearch` (nothing is rotated yet), `Searching` (after n turns the best so far is the first of the best of those n, or is still the sentinel, exactly when no turn was made) and `NotYetRotated`. The lemma `Loops` ties the conditions of the for loops to the set of turns. For `EveryEndIsExplained`, `Passed` says in each state which troubles the program has behind it and what the page has been found to measure |
| `SampleProofs`, DemoSkeletonize | `TypeCorrect`, `AdditionIsExact`, `ResultIsShown`, `LoopPeels` | `IInv` adds `LayerKept` (orig is the layer that is left, as eroded) and `ShownKept` (what the window holds in each state). The opening of a layer is not above it, so what the skeleton gains the layer loses; a turn whose delta is not black therefore takes something off the umbra |
| | `SkeletonIsTheSum` | `SumInv` adds `TurnsCounted`: for some k up to the number of pixels the layer is the minimum of the input over balls of radius k, the skeleton the sum of what k layers lose, and none of them lost nothing. A ball grows by its last step or from its first (`BallSplits`), so a minimum over footprints of minima over balls is one over larger balls; balls of as many steps as there are pixels grow no more (`BallsFill`), where a layer is its own erosion and, the footprint being symmetric, its own opening. Hence the first layer that loses nothing is within the range the formula searches, and the loop stops at it |
| `SampleProofs`, CamshiftDemo | `CamshiftTypeCorrect`, `HistogramIsCurrent`, `ExceptionsExplained` | `CamInv` adds `WindowsInOrder`: a waiting selection that was not disturbed is not empty, nor is the window of a tracker that was not cornered. Clipping keeps rectangles inside, and reseeding away from the top and left edge gives an area |
| `ProtovisProofs`, TimeSeriesPlot | `TypeCorrect`, `RestoreIsSafe`, `CursorIsUnique`, `RegularCallersAreSafe`, `PolylineIsConnected` | `IInv` adds `Sentinels` (which fields are -1 together, before and after a push that threw) and `PenAtLastPoint` (the fields are the end of the last line). A frame number that leaves `widest` below the width of the canvas finds its column, before or after the wrap |
| | `SweepHasNoHoles`, `OnlyTheEdgeIsStale` | `SInv` adds `BlankAhead`: the sweep has begun at or after the origin, and the band ahead of the newest column is blank. A push lifts the cursor, so that each column is what it was, clears a band that begins at the new column, and draws over all columns since the last point if both points are on the canvas (`visible`); columns from the first point of the sweep on were in the band of some push of the sweep if no step outruns it, and before that nothing is said |
| `ProtovisProofs`, SurfacePlot | `WindowsBelongTogether`, `FlipsTurnCurves` | `SurfaceInv`: `SampleInv` says that the curves of the rows so far, and no others, are on the canvas, with the origin and the scale the row loop has set; `AxisInv` that the sign of the scale is what the history of flips says. `Truncated` is monotone, so an axis keeps or turns the order of all heights; and it misses a height by less than a pixel on one side of zero and on the other, which is within the pixel and a half that `Joins` allows for every gray level |
| `TouristlessProofs` | `AlignedPastingIsClean`, `OnlyPersonsAreReplaced`, `NobodyStaysInVain`, `EndsForAReason`, `TypeCorrect` | `IInv`: the locations read are the file's, the lists before `next` are the file's with their corners sorted, rectangles pasted over were drawn forwards, and they are clean. A later paste brings pixels of a photo free in its own rectangle, so it cannot dirty an earlier one. `LeftHaveReason` says that every rectangle before `next` was pasted over or met a person in every other photo. For `EndsForAReason`, `TurnDecides` says what becomes of a rectangle from the file alone (two rectangles with sorted corners meet if their extents do, `MeetsIfBlocks`), and `EndHasReason` that every rectangle before `next` could be cut or was blocked. `TypeCorrect` needs `Stages`, which says that the loop over the photos gets to its end only if every entry of the folder was a photo |
| `RetouchingProofs` | `EveryDragIsPrinted`, `DrawingsAreRead`, `ReplacingFollowsTheDrawing` | `CutterInv` is about one start of the script: a button that is down is the last of `boxes`, and the drags are among the rectangles printed, all of them if no release was stray. `UserInv` says that the file and the notes together are the lists of the photos after the first `lost` ones, each with the drags on its photo (`Noted`), and that touristless starts when all photos are done. `TouristInv` hands that over to the invariant of `TouristlessProofs`, which is used by INSTANCE with the user's file for `file` |
| `ConvertersProofs` | `TypeCorrect`, `ConvertersAreFaithful`, `OnlyExplainedCrashes`, `NothingFreedTwice` | `BookInv` says in each state of each program exactly what is held. `DataInv` follows the rows: `RowState` and `LineState` what the row number and the line buffer hold, `BufferState` and `TiffState` which rows of the picture are in memory or in the file, and that they are gray or excused by a fault, `OutputState` and `FinishedState` what that makes of the output. A row in memory lies at its number times the width, below the product that was allocated unless it has wrapped. In io_tiff_png a row lies at a quotient; `PngTarget` shows that it stays in the buffer unless `Drifts` |
| `FlarelessCharRecProofs`, Flareless | `OutputIsMinimum`, `SelectionIsTheUsers`, `TypeCorrect` | `Answered` says which photos the answers so far have accepted, and that the stream has failed exactly after a bad one; `Progress` what n counts in each phase; `MinimaSoFar` that the samples before `next` are minima |
| `FlarelessCharRecProofs`, CharRec | `CharRecTypes`, `NoLetterIsLost`, `NullComesFromPictures` | `CharRecInv`: `FilesOK` (each file is the pictures of its folder in some order, one after the other, and is there if files can be made) and `DataOK` (the data is what FANN reads from those files). `FlattenRows` is about any sequences set one after the other: with none shorter than a row there are enough numbers for all rows, and with none longer and enough numbers each of them *is* a row, in its place. An order that repeats no picture leaves none out (`OrderFacts`) |
| `NumberFacts` | (lemmas) | a set of numbers has a least and a greatest element; induction, stated for a set so that it needs no operator as a parameter; solutions of recursive definitions |

In general the invariants TLC checks are not inductive: an exit or a throw is
only harmless because of what earlier steps established, and that is what the
added conjuncts say.

Recursive definitions appear in the statements as recursive functions over the
natural numbers (`Erosions`, `Ball`, `LostBefore`, the flattening of sequences).
A proof about one first shows that it has a solution, since a function defined
by itself is a CHOOSE, and then unfolds it step by step (`LayersUnfold`,
`BallUnfolds`, `SumUnfolds`, `FlattenSeqIs`).

## Only model-checked

- All liveness (`Terminates`, `RoundEnds`, `SelectionIsTaken`, `ErosionsRecur`):
  fairness and ENABLED are outside what the prover supports. What they rest on
  is proved where it can be said without them: both skeleton loops implement
  `Peeling`, so each turn that goes on takes something off a finite set.
- `PastedIsClean` for displaced photos, which is violated: see below.

Proved and not checked by a run, since a run has nothing to add: the other type
invariants (`Converters` and `CharRec` have theirs checked, where what a buffer
holds is part of it), `NeverAllWhite`, `InkSurvives`, `GradientIsOfResult`.

## Where code and documentation disagree

One run ends in a violation (`findings` in PROJECT.json has the line that
promises the opposite): touristless moves rectangles of another photo by the
homography that leads into it, not out of it, and cuts pieces from the photos as
they were taken; with displaced photos a person is pasted in.

More are plain in the model and the code, and have no run of their own:

- camshift: a second press before the next frame replaces the selection that
  waits, so the tracker starts from another rectangle than the one selected, or
  throws (`disturbed` in the model).
- flareless: the prompt says that 1 is good and 0 is bad, but one answer that is
  neither sets the fail bit for good, and later answers are not read: all later
  photos share one fate, whatever is typed (flareless.cpp:162 and 170, `ReadBool`).
- strip chart: column 0 of each later sweep keeps ink of the sweep before, since
  the band begins at the column of the new frame (tsplot.cpp:22-29,
  `StaleOnlyAtEdge`); and the smallest value is drawn one row below the canvas
  (tsplot.cpp:10, `YOf`).
- lineplot: a second `multiline_surface_plot` on one canvas is upside down
  (`UprightByParity`).
- imagecutter.py: coordinates.txt is emptied by each start and never written to
  (`Start`).
- camshift: h destroys the histogram window, and the next `imshow` makes it
  again (`ShowWindows`).
- touristless: an output folder inside the input folder, as in the example
  paths of the comments, is counted as a photo, and the run ends with a
  descriptors error (`NumberOfFiles`).
- io_png_tiff: the signature is announced as read and was not (`Probe`).
- task3: the error rates go to each other's files (`WriteRates`).

## Not modelled, and why

- Pixel arithmetic of autocontrast and binarization, SIFT, FLANN, homography
  estimation, warping, CamShift's mean shift, FANN: numerical library code
  whose result is any value of the right kind.
- Trackbars, colours, text output.
- Replacing the canvas of a `TimeSeriesPlot` between pushes; no program of the
  repository does.
- An `object_id` outside the folder in touristless: it indexes a vector out of
  range, after which nothing is defined.
- Files that are written and never read again: the aligned photos of touristless,
  the pieces imagecutter.py saves.
- pano.py: a straight line of library calls. Its one expression of interest adds
  the pictures where they overlap as uint8, that is modulo 256.
- ocv-interop.h, minerrutils.h: two pure conversions that no program calls.
- io_webp_png: see Converters. The small samples: straight lines of library
  calls. stitching_detailed: OpenCV's own example.
- Clipping of lines to the image, and the pen's colour and thickness, in
  `Canvas`.

## Plan

Every safety property is proved. What is left for the proofs:

1. The bound behind each liveness property as an action property: a number that
   every step of the loop lowers, for the loops of DemoSkeletonize and of the
   searches, as `Peeling` says it for sets.
2. The type invariants of Retouching and SurfacePlot as theorems of their own
   (they are conjuncts of `CutterInv`, `UserInv` and `SurfaceTypes` now).
3. Shorter proofs: `CamInv` and `SInv` split cases that one lemma about
   intervals could settle.

The runs are kept few, about a dozen: a new one replaces a weaker one.
