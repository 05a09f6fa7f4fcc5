--------------------------- MODULE MCAsyncClient ----------------------------
(* A small instance of AsyncClient for TLC.                                *)
EXTENDS AsyncClient

CONSTANTS r1, r2

TwoRequests == {r1, r2}
=============================================================================
