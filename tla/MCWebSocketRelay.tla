-------------------------- MODULE MCWebSocketRelay --------------------------
(* Model values for the run of WebSocketRelay.                             *)
EXTENDS WebSocketRelay, TLC

F(op, fin, payload) == [op |-> op, fin |-> fin, payload |-> payload]

(* Messages of one and of several frames, with the sensitive value in one  *)
(* of them, split over two, or absent; an unfinished one of the full size. *)
SomeFrames ==
    { F("text", TRUE, <<"a", "b">>), F("text", TRUE, <<"b">>),
      F("text", FALSE, <<"a">>), F("cont", TRUE, <<"b">>),
      F("cont", FALSE, <<"b">>), F("binary", TRUE, <<"b">>),
      F("binary", FALSE, <<"a">>), F("ping", TRUE, <<"a", "b">>),
      F("ping", TRUE, <<"b">>), F("close", TRUE, <<"b">>) }
=============================================================================
