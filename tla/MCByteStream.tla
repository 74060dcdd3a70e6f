---------------------------- MODULE MCByteStream ----------------------------
(* Instances of ByteStream for TLC: payload lengths and Read buffers. *)
EXTENDS ByteStream

OneFour == <<1, 4>>
OneAndThree == {1, 3}
=============================================================================
