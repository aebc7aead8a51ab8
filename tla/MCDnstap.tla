------------------------------ MODULE MCDnstap ------------------------------
(* Streams of two connections: one that meets every kind of frame in every  *)
(* place of the handshake, and a short one beside it.                       *)
EXTENDS DnstapConnection

CONSTANTS c1, c2

F(kind, ct, size, long) == [kind |-> kind, ct |-> ct, size |-> size, long |-> long]

Ready == F("ready", "dnstap", 6, FALSE)
Start == F("start", "absent", 5, FALSE)
Stop  == F("stop", "absent", 5, FALSE)

\* A data frame of 3 units; one as long as the buffer; two that are longer.
Query == F("query", "absent", 3, FALSE)
Data  == {F(k, "absent", 3, FALSE) : k \in DataKinds}
Long  == F("query", "absent", High, TRUE)
Over  == {F("query", "absent", High + 1, TRUE), F("irrelevant", "absent", 2 * High, TRUE)}

Others == {F("ready", "foreign", 6, FALSE), F("start", "foreign", 6, FALSE),
           F("other", "dnstap", 6, FALSE), F("malformed", "absent", 5, FALSE),
           F("badlen", "absent", 5, FALSE)}

Any == Data \cup Over \cup Others \cup {Long, Ready, Start, Stop}

\* The handshake with one frame anywhere, or two frames, long ones
\* among them, before the STOP.
Mixed ==
  {<<f, Ready, Start, Stop>> : f \in Any} \cup
  {<<Ready, f, Start, Stop>> : f \in Any} \cup
  {<<Ready, Start, f, Stop>> : f \in Any} \cup
  {<<Ready, Start, Stop, f>> : f \in Any} \cup
  {<<Ready, Start, f, g, Stop>> : f, g \in Over \cup {Query, Long}}

Short == {<<Query, Stop>>}

MCStreams == [c \in Conns |-> IF c = c1 THEN Mixed ELSE Short]

=============================================================================
