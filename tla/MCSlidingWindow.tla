--------------------------- MODULE MCSlidingWindow --------------------------
(* Values for TLC of the constants of SlidingWindow that are functions.      *)
(* WindowNM: A has a window of N slots, B one of M.  SendNM: A's application *)
(* pushes N messages, B's pushes M.                                          *)
EXTENDS SlidingWindowLive

Window11 == [e \in Endpoint |-> 1]
Window22 == [e \in Endpoint |-> 2]

Send20 == [e \in Endpoint |-> IF e = A THEN 2 ELSE 0]
Send30 == [e \in Endpoint |-> IF e = A THEN 3 ELSE 0]
Send40 == [e \in Endpoint |-> IF e = A THEN 4 ELSE 0]
=============================================================================
