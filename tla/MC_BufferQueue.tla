--------------------------- MODULE MC_BufferQueue ---------------------------
(* Small instances of BufferQueue.  STEP / 2 is the resampling ratio, so a *)
(* buffer of 2 units is one frame; sizes 0 and 2 make the cursor skip over *)
(* buffers and carry a remainder into the next one.                        *)
EXTENDS BufferQueue

SomeSizes == {0, 2, 4}
BothClients == {{}, {"clear", "stop"}}
ClearingClient == {{"clear", "stop"}}
=============================================================================
