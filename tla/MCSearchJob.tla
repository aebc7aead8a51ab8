---------------------------- MODULE MCSearchJob ----------------------------
(* Hashes with no hit, one hit and two that overlap in one filter.          *)
EXTENDS SearchJob

CONSTANTS plain, solidus, tilde, h0, h1, h12, h23

MCKind == [n \in Names |-> CASE n = plain -> "plain" [] n = solidus -> "altered" [] OTHER -> "refused"]

MCHits == [h \in Hashes |-> CASE h = h0 -> {} [] h = h1 -> {1} [] h = h12 -> {1, 2} [] OTHER -> {2, 3}]

=============================================================================
