--------------------------- MODULE MCHttpTransport ---------------------------
(* Values of HttpTransport's constants for TLC. *)
EXTENDS HttpTransport

TwoLanes == {"normal", "low"}

\* Client.Connect is called twice; its first sendLoop sends one frame, and the
\* second call gets as far as HELLO.
CallsOfEach == <<3, 1>>
=============================================================================
