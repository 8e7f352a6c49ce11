------------------------------ MODULE MCShell ------------------------------
(***************************************************************************)
(* Shell for TLC: a USB console and two connections.                       *)
(***************************************************************************)
EXTENDS Shell

MCStreams == {"usb", "c1", "c2"}
MCMaxLines == [s \in MCStreams |-> IF s = "c1" THEN 2 ELSE 1]
MCMaxQueries ==
    [s \in MCStreams |-> CASE s = "usb" -> 2 [] s = "c1" -> 1 [] s = "c2" -> 0]
=============================================================================
