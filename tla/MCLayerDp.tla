----------------------------- MODULE MCLayerDp -----------------------------
\* Model checking of LayerDp: measured gains of either sign, with ties.
EXTENDS LayerDp

MeasuredGains == {-1, 0, 1, 3}
=============================================================================
