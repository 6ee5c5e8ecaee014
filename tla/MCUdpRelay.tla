----------------------------- MODULE MCUdpRelay -----------------------------
(***************************************************************************)
(* Constants for model checking UdpRelay.  The datagrams cover the cases   *)
(* the code tells apart: empty, short, longer than RecvLen, and holding a  *)
(* NUL first or later.                                                     *)
(***************************************************************************)
EXTENDS UdpRelay

MCDatagrams == {<<>>, <<7>>, <<7, 8, 9>>, <<0, 7>>, <<7, 0>>}

=============================================================================
