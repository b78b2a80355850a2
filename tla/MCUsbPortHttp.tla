--------------------------- MODULE MCUsbPortHttp ---------------------------
(* Numbers to send to a small port, for TLC.                               *)
EXTENDS UsbPortHttp, TLC

Symmetry == Permutations(Request)

\* Below zero, in the documented range, and above it.
MCValue == {-1, 0, 1, 2}
=============================================================================
