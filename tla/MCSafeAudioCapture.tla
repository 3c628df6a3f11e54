------------------------- MODULE MCSafeAudioCapture -------------------------
(* SafeAudioCapture with the sessions that MCSafeAudioCapture.cfg gives. *)
EXTENDS SafeAudioCapture
=============================================================================
