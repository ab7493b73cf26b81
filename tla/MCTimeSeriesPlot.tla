-------------------------- MODULE MCTimeSeriesPlot --------------------------
(***************************************************************************)
(* TimeSeriesPlot on a canvas of a few columns, with frame numbers that    *)
(* skip more than the band, skip more than the canvas, and fall back.      *)
(***************************************************************************)
EXTENDS TimeSeriesPlot
=============================================================================
