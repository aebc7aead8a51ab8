---------------------------- MODULE SearchProofs ----------------------------
(***************************************************************************)
(* Proofs about SearchJob and the JsonPrinter it prints with, for every    *)
(* job, whatever its length, and every state that is searched.             *)
(***************************************************************************)
EXTENDS SearchJob, NumberLemmas, FiniteSetTheorems, SequenceTheorems

----------------------------------------------------------------------------
(* Sequences as stacks.                                                    *)

\* The top of a stack can be read, dropped and replaced.
LEMMA StackTop ==
  ASSUME NEW S, NEW r \in Seq(S), NEW x \in S
  PROVE  /\ Append(r, x) \in Seq(S) /\ Append(r, x) # <<>>
         /\ Len(Append(r, x)) = Len(r) + 1 /\ Len(r) \in Nat
         /\ Append(r, x)[Len(Append(r, x))] = x
         /\ SubSeq(Append(r, x), 1, Len(Append(r, x)) - 1) = r
OBVIOUS

LEMMA StackReplace ==
  ASSUME NEW S, NEW r \in Seq(S), NEW x \in S, NEW y \in S
  PROVE  [Append(r, x) EXCEPT ![Len(Append(r, x))] = y] = Append(r, y)
<1> DEFINE n == Len(r)
           a == Append(r, x)
           b == Append(r, y)
<1>1. /\ n \in Nat /\ a \in Seq(S) /\ b \in Seq(S) /\ Len(a) = n + 1 /\ Len(b) = n + 1
      /\ a[n + 1] = x /\ b[n + 1] = y
      /\ \A i \in 1..n : a[i] = r[i] /\ b[i] = r[i]
  OBVIOUS
<1> HIDE DEF n, a, b
<1>2. [a EXCEPT ![n + 1] = y] \in Seq(S) /\ Len([a EXCEPT ![n + 1] = y]) = n + 1
  BY <1>1, ExceptSeq
<1>3. \A i \in 1..(n + 1) : [a EXCEPT ![n + 1] = y][i] = b[i]
  BY <1>1
<1>4. [a EXCEPT ![n + 1] = y] = b
  BY <1>1, <1>2, <1>3, SeqEqual
<1>5. QED
  BY <1>1, <1>4 DEF a, b, n

----------------------------------------------------------------------------
(* What the calls of the printer print and leave.                          *)

Brackets == {"sentinel", "brace", "bracket", "colon"}

Members == [key : Names \cup {"id", "hits_by_all_hostnames"}, value : Nat]

\* Names that can be printed: none has a quote or a backslash.
NoneBroken == \A n \in Names : Kind[n] # "broken"

\* What a reader makes of the text; of nothing any more after a broken name.
ReadAs(x, r) == x = r \/ (x = <<>> /\ ~NoneBroken)

\* A printer none of whose assertions has failed: its nesting, whether an element
\* is the first one, what a reader makes of the text, and the numbers printed.
Is(p, s, f, r, m) ==
  /\ p \in Printer
  /\ p.sound = TRUE
  /\ p.stack = s
  /\ p.first_element = f
  /\ ReadAs(p.reader, r)
  /\ p.members = m

\* A level of nesting more.
LEMMA Deeper ==
  ASSUME NEW s \in Seq(Brackets), NEW v \in Brackets
  PROVE  /\ Append(s, v) \in Seq(Brackets)
         /\ Len(s) \in Nat /\ Len(Append(s, v)) = Len(s) + 1
         /\ Append(s, v)[Len(Append(s, v))] = v
         /\ SubSeq(Append(s, v), 1, Len(Append(s, v)) - 1) = s
BY StackTop

LEMMA Depth ==
  ASSUME NEW s \in Seq(Brackets), NEW v \in Brackets, Len(s) < 20
  PROVE  Append(s, v) \in Seq(Brackets) /\ Len(Append(s, v)) < MaxDepth
<1>1. Append(s, v) \in Seq(Brackets) /\ Len(Append(s, v)) = Len(s) + 1 /\ Len(s) \in Nat
  BY Deeper
<1>2. QED
  BY <1>1 DEF MaxDepth

LEMMA AreBrackets == "sentinel" \in Brackets /\ "brace" \in Brackets /\ "bracket" \in Brackets /\ "colon" \in Brackets
BY DEF Brackets

\* The place a reader is in before an element, and after the separator.
LEMMA TakeStep ==
  ASSUME NEW r \in Seq(Places), NEW x \in Places, NEW y \in Places, NEW token,
         x \in DOMAIN After[token], After[token][x] = y
  PROVE  Take(Append(r, x), token) = Append(r, y)
<1>1. Append(r, x) # <<>> /\ Place(Append(r, x)) = x
  BY StackTop DEF Place
<1>2. [Append(r, x) EXCEPT ![Len(Append(r, x))] = y] = Append(r, y)
  BY StackReplace
<1>3. QED
  BY <1>1, <1>2 DEF Take

\* After a broken name no call makes a document of the text again.
LEMMA NoDocument ==
  ASSUME NEW token, NEW place, NEW places
  PROVE  Take(<<>>, token) = <<>> /\ Enter(<<>>, place) = <<>> /\ Leave(<<>>, places) = <<>>
BY DEF Take, Enter, Leave

LEMMA TakeComma ==
  ASSUME NEW r \in Seq(Places)
  PROVE  /\ Take(Append(r, "member"), "comma") = Append(r, "next")
         /\ Take(Append(r, "element"), "comma") = Append(r, "more")
<1>1. After["comma"] = [member |-> "next", element |-> "more"]
  BY DEF After
<1>2. QED
  BY <1>1, TakeStep DEF Places

LEMMA TakeKey ==
  ASSUME NEW r \in Seq(Places), NEW x \in {"object", "next"}
  PROVE  Take(Append(r, x), "key") = Append(r, "colon")
<1>1. After["key"] = [object |-> "colon", next |-> "colon"]
  BY DEF After
<1>2. QED
  BY <1>1, TakeStep DEF Places

LEMMA TakeValue ==
  ASSUME NEW r \in Seq(Places)
  PROVE  /\ Take(Append(r, "empty"), "value") = Append(r, "done")
         /\ Take(Append(r, "colon"), "value") = Append(r, "member")
         /\ \A x \in {"array", "more"} : Take(Append(r, x), "value") = Append(r, "element")
<1>1. After["value"] = [empty |-> "done", colon |-> "member", array |-> "element",
                        more |-> "element"]
  BY DEF After
<1>2. QED
  BY <1>1, TakeStep DEF Places

\* Parts of a call: an assertion that holds, the separator, a nesting level.
LEMMA CheckPasses ==
  ASSUME NEW p, NEW s, NEW f, NEW r, NEW m, Is(p, s, f, r, m), NEW cond, cond = TRUE
  PROVE  Is(Check(p, cond), s, f, r, m)
BY DEF Is, Check, Printer

LEMMA Pushes ==
  ASSUME NEW p, NEW s \in Seq(Brackets), NEW f, NEW r, NEW m, Is(p, s, f, r, m),
         NEW v \in Brackets, Len(s) < MaxDepth
  PROVE  Is(Push(p, v), Append(s, v), TRUE, r, m)
<1> DEFINE q == Check(p, Len(p.stack) < MaxDepth)
<1>1. (Len(p.stack) < MaxDepth) = TRUE
  BY DEF Is
<1>2. Is(q, s, f, r, m)
  BY <1>1, CheckPasses
<1>3. Push(p, v) = [q EXCEPT !.stack = Append(@, v), !.first_element = TRUE]
  BY DEF Push
<1> HIDE DEF q
<1>4. Append(s, v) \in Seq(Brackets)
  OBVIOUS
<1>5. QED
  BY <1>2, <1>3, <1>4 DEF Is, Printer, Brackets

LEMMA Pops ==
  ASSUME NEW p, NEW s \in Seq(Brackets), NEW f, NEW r, NEW m, NEW v \in Brackets,
         Is(p, Append(s, v), f, r, m)
  PROVE  Is(Pop(p, v), s, (Len(s) = 1), r, m)
<1> DEFINE q == Check(p, Top(p) = v)
<1>1. /\ Append(s, v)[Len(Append(s, v))] = v
      /\ SubSeq(Append(s, v), 1, Len(Append(s, v)) - 1) = s
      /\ Len(Append(s, v)) = Len(s) + 1 /\ Len(s) \in Nat
  BY StackTop
<1>2. (Top(p) = v) = TRUE
  BY <1>1 DEF Is, Top
<1>3. Is(q, Append(s, v), f, r, m)
  BY <1>2, CheckPasses
<1>4. Shorter(p) = s
  BY <1>1 DEF Is, Shorter
<1>5. (Len(p.stack) - 1 = 1) = (Len(s) = 1)
  BY <1>1 DEF Is
<1>6. Pop(p, v) = [q EXCEPT !.stack = s, !.first_element = (Len(s) = 1)]
  BY <1>4, <1>5 DEF Pop
<1> HIDE DEF q
<1> DEFINE b == (Len(s) = 1)
<1>7. b \in BOOLEAN
  OBVIOUS
<1>8. Pop(p, v) = [q EXCEPT !.stack = s, !.first_element = b]
  BY <1>6
<1> HIDE DEF b
<1>9. Is(Pop(p, v), s, b, r, m)
  BY <1>3, <1>7, <1>8 DEF Is, Printer, Brackets
<1>10. QED
  BY <1>9 DEF b

LEMMA Reads ==
  ASSUME NEW p, NEW s, NEW f, NEW r, NEW m, Is(p, s, f, r, m), NEW q \in Seq(Places),
         NEW v, ReadAs(v, q)
  PROVE  Is([p EXCEPT !.reader = v], s, f, q, m)
<1>1. v \in Seq(Places)
  BY EmptySeq DEF ReadAs
<1>2. QED
  BY <1>1 DEF Is, Printer

LEMMA FirstElement ==
  ASSUME NEW p, NEW s, NEW r, NEW m, Is(p, s, TRUE, r, m)
  PROVE  Is(Separator(p), s, FALSE, r, m)
BY DEF Is, Printer, Separator

LEMMA NextElement ==
  ASSUME NEW p, NEW s, NEW r, NEW m, Is(p, s, FALSE, r, m), Take(r, "comma") \in Seq(Places)
  PROVE  Is(Separator(p), s, FALSE, Take(r, "comma"), m)
<1> DEFINE c == Take(r, "comma")
           v == Take(p.reader, "comma")
<1>1. Separator(p) = [p EXCEPT !.reader = v]
  BY DEF Is, Separator
<1>2. ReadAs(v, c)
  BY NoDocument DEF Is, ReadAs
<1> HIDE DEF c, v
<1>3. c \in Seq(Places)
  BY DEF c
<1>4. Is([p EXCEPT !.reader = v], s, FALSE, c, m)
  BY <1>2, <1>3, Reads
<1>5. QED
  BY <1>1, <1>4 DEF c

\* An object that is being printed: before its first pair and after one.
InObject(f, x) == (f = TRUE /\ x = "object") \/ (f = FALSE /\ x = "member")

\* A document or an array that is being printed: before a value.
InList(f, x) == (f = TRUE /\ x \in {"empty", "array"}) \/ (f = FALSE /\ x = "element")

\* The separator and a key in an object.
LEMMA KeyWritten ==
  ASSUME NEW p, NEW s \in Seq(Brackets), NEW f, NEW r \in Seq(Places), NEW x \in Places, NEW m,
         Is(p, Append(s, "brace"), f, Append(r, x), m), InObject(f, x)
  PROVE  \E y \in {"object", "next"} :
           Is(Separator(Check(p, Top(p) = "brace")), Append(s, "brace"), FALSE, Append(r, y), m)
<1>0. Append(s, "brace")[Len(Append(s, "brace"))] = "brace"
  BY Deeper, AreBrackets
<1>1. (Top(p) = "brace") = TRUE
  BY <1>0 DEF Is, Top
<1> DEFINE q == Check(p, Top(p) = "brace")
<1>2. Is(q, Append(s, "brace"), f, Append(r, x), m)
  BY <1>1, CheckPasses
<1> HIDE DEF q
<1>3. CASE f = TRUE /\ x = "object"
  <2>1. Is(Separator(q), Append(s, "brace"), FALSE, Append(r, "object"), m)
    BY <1>2, <1>3, FirstElement
  <2>2. QED
    BY <2>1 DEF q
<1>4. CASE f = FALSE /\ x = "member"
  <2>1. Take(Append(r, x), "comma") = Append(r, "next")
    BY <1>4, TakeComma
  <2>2. Append(r, "next") \in Seq(Places)
    BY StackTop DEF Places
  <2>3. Is(Separator(q), Append(s, "brace"), FALSE, Append(r, "next"), m)
    BY <1>2, <1>4, <2>1, <2>2, NextElement
  <2>4. QED
    BY <2>3 DEF q
<1>5. QED
  BY <1>3, <1>4 DEF InObject

\* _json_printer_write_string() and the colon.
LEMMA NameWritten ==
  ASSUME NEW p, NEW s, NEW f, NEW r \in Seq(Places), NEW y \in {"object", "next"}, NEW m,
         Is(p, s, f, Append(r, y), m), NEW key
  PROVE  Is(WriteKey(p, key), s, f, Append(r, "colon"), m)
<1> DEFINE token == IF KindOf(key) = "broken" THEN "junk" ELSE "key"
           v == Take(p.reader, token)
           d == (p.died \/ KindOf(key) = "refused")
<1>1. ReadAs(v, Append(r, "colon"))
  <2>1. CASE p.reader = <<>> /\ ~NoneBroken
    BY <2>1, NoDocument DEF ReadAs
  <2>2. CASE p.reader = Append(r, y) /\ KindOf(key) # "broken"
    BY <2>2, TakeKey DEF ReadAs
  <2>3. CASE p.reader = Append(r, y) /\ KindOf(key) = "broken"
    <3>1. ~NoneBroken
      BY <2>3 DEF NoneBroken, KindOf
    <3>2. Place(p.reader) = y
      <4>1. y \in Places
        BY DEF Places
      <4>2. QED
        BY <2>3, <4>1, StackTop DEF Place
    <3>3. DOMAIN After["junk"] = {"nowhere"}
      BY DEF After
    <3>4. v = <<>>
      BY <2>3, <3>2, <3>3 DEF Take
    <3>5. QED
      BY <3>1, <3>4 DEF ReadAs
  <2>4. QED
    BY <2>1, <2>2, <2>3 DEF Is, ReadAs
<1>2. Append(r, "colon") \in Seq(Places)
  BY StackTop DEF Places
<1>3. d \in BOOLEAN
  OBVIOUS
<1>4. WriteKey(p, key) = [[p EXCEPT !.reader = v] EXCEPT !.died = d]
  BY DEF WriteKey, Is, Printer
<1> HIDE DEF d, v
<1>5. Is([p EXCEPT !.reader = v], s, f, Append(r, "colon"), m)
  BY <1>1, <1>2, Reads
<1>6. QED
  BY <1>3, <1>4, <1>5 DEF Is, Printer

\* json_printer_object_pair() of every type of value.
LEMMA PairPrinted ==
  ASSUME NEW p, NEW s \in Seq(Brackets), NEW f, NEW r \in Seq(Places), NEW x \in Places, NEW m,
         Is(p, Append(s, "brace"), f, Append(r, x), m), InObject(f, x), NEW key
  PROVE  Is(json_printer_object_pair(p, key), Append(s, "brace"), FALSE, Append(r, "member"), m)
<1> DEFINE q == Separator(Check(p, Top(p) = "brace"))
<1>1. PICK y \in {"object", "next"} : Is(q, Append(s, "brace"), FALSE, Append(r, y), m)
  BY KeyWritten
<1> HIDE DEF q
<1> DEFINE k == WriteKey(q, key)
<1>2. Is(k, Append(s, "brace"), FALSE, Append(r, "colon"), m)
  BY <1>1, NameWritten
<1> HIDE DEF k
<1> DEFINE v == Take(k.reader, "value")
<1>3. ReadAs(v, Append(r, "member")) /\ Append(r, "member") \in Seq(Places)
  BY <1>2, TakeValue, NoDocument, StackTop DEF Is, Places, ReadAs
<1>4. json_printer_object_pair(p, key) = [k EXCEPT !.reader = v]
  BY DEF json_printer_object_pair, WriteValue, k, q
<1> HIDE DEF v
<1>5. Is([k EXCEPT !.reader = v], Append(s, "brace"), FALSE, Append(r, "member"), m)
  BY <1>2, <1>3, Reads
<1>6. QED
  BY <1>4, <1>5

LEMMA KeyPrinted ==
  ASSUME NEW p, NEW s \in Seq(Brackets), NEW f, NEW r \in Seq(Places), NEW x \in Places, NEW m,
         Is(p, Append(s, "brace"), f, Append(r, x), m), InObject(f, x), Len(s) < 20, NEW key
  PROVE  Is(json_printer_object_key(p, key), Append(Append(s, "brace"), "colon"), TRUE,
            Append(r, "colon"), m)
<1> DEFINE q == Separator(Check(p, Top(p) = "brace"))
<1>1. PICK y \in {"object", "next"} : Is(q, Append(s, "brace"), FALSE, Append(r, y), m)
  BY KeyWritten
<1> HIDE DEF q
<1> DEFINE k == Push(q, "colon")
<1>2. Append(s, "brace") \in Seq(Brackets) /\ Len(Append(s, "brace")) < MaxDepth
  BY Depth, AreBrackets
<1>3. Is(k, Append(Append(s, "brace"), "colon"), TRUE, Append(r, y), m)
  BY <1>1, <1>2, Pushes DEF Brackets
<1>4. json_printer_object_key(p, key) = WriteKey(k, key)
  BY DEF json_printer_object_key, k, q
<1> HIDE DEF k
<1>5. QED
  BY <1>3, <1>4, NameWritten

LEMMA BracketsShut ==
  ASSUME NEW p, NEW s \in Seq(Brackets), NEW f, NEW r \in Seq(Places), NEW x \in Places, NEW m,
         NEW v \in Brackets, NEW places, Is(p, Append(s, v), f, Append(r, x), m), x \in places
  PROVE  Is(Pop([p EXCEPT !.reader = Leave(@, places)], v), s, (Len(s) = 1), r, m)
<1>1. /\ Append(r, x) # <<>> /\ Append(r, x)[Len(Append(r, x))] = x
      /\ SubSeq(Append(r, x), 1, Len(Append(r, x)) - 1) = r
  BY StackTop
<1> DEFINE w == Leave(p.reader, places)
           q == [p EXCEPT !.reader = w]
<1>2. ReadAs(w, r)
  <2>1. Leave(Append(r, x), places) = r
    BY <1>1 DEF Leave, Place
  <2>2. QED
    BY <2>1, NoDocument DEF Is, ReadAs
<1>3. [p EXCEPT !.reader = Leave(@, places)] = q
  OBVIOUS
<1> HIDE DEF w
<1>4. Is(q, Append(s, v), f, r, m)
  BY <1>2, Reads
<1> HIDE DEF q
<1>5. Is(Pop(q, v), s, (Len(s) = 1), r, m)
  BY <1>4, Pops
<1>6. QED
  BY <1>3, <1>5

\* json_printer_object_end() and json_printer_array_end().
LEMMA ObjectEnded ==
  ASSUME NEW p, NEW s \in Seq(Brackets), NEW f, NEW r \in Seq(Places), NEW x \in Places, NEW m,
         Is(p, Append(s, "brace"), f, Append(r, x), m), InObject(f, x)
  PROVE  Is(json_printer_object_end(p), s, (Len(s) = 1), r, m)
<1>1. x \in {"object", "member"}
  BY DEF InObject
<1>2. QED
  BY <1>1, BracketsShut, AreBrackets DEF json_printer_object_end

LEMMA ArrayEnded ==
  ASSUME NEW p, NEW s \in Seq(Brackets), NEW f, NEW r \in Seq(Places), NEW x \in Places, NEW m,
         Is(p, Append(s, "bracket"), f, Append(r, x), m), x \in {"array", "element"}
  PROVE  Is(json_printer_array_end(p), s, (Len(s) = 1), r, m)
BY BracketsShut, AreBrackets DEF json_printer_array_end

\* What precedes a value in an array or the document, and after a key.
LEMMA ElementBegins ==
  ASSUME NEW p, NEW s \in Seq(Brackets), NEW f, NEW r \in Seq(Places), NEW x \in Places, NEW m,
         NEW v \in {"bracket", "sentinel"}, Is(p, Append(s, v), f, Append(r, x), m), InList(f, x)
  PROVE  Is(BeforeValue(p), Append(s, v), FALSE,
            Append(r, IF x = "element" THEN "more" ELSE x), m)
<1>1. v \in Brackets /\ v # "colon"
  BY AreBrackets
<1>2. Append(s, v)[Len(Append(s, v))] = v
  BY <1>1, Deeper
<1>3. (Top(p) \in {"bracket", "colon", "sentinel"}) = TRUE
  BY <1>2 DEF Is, Top
<1> DEFINE q == Check(p, Top(p) \in {"bracket", "colon", "sentinel"})
           z == Separator(q)
<1>4. Is(q, Append(s, v), f, Append(r, x), m)
  BY <1>3, CheckPasses
<1>5. BeforeValue(p) = PopKey(z)
  BY DEF BeforeValue
<1> HIDE DEF q
<1>6. ASSUME NEW y, Is(z, Append(s, v), FALSE, Append(r, y), m)
      PROVE  Is(BeforeValue(p), Append(s, v), FALSE, Append(r, y), m)
  <2>1. PopKey(z) = z
    BY <1>1, <1>2, <1>6 DEF Is, PopKey, Top
  <2>2. QED
    BY <1>5, <1>6, <2>1
<1>7. CASE f = TRUE /\ x \in {"empty", "array"}
  <2>1. Is(z, Append(s, v), FALSE, Append(r, x), m)
    BY <1>4, <1>7, FirstElement
  <2>2. QED
    BY <1>6, <1>7, <2>1
<1>8. CASE f = FALSE /\ x = "element"
  <2>1. Take(Append(r, x), "comma") = Append(r, "more")
    BY <1>8, TakeComma
  <2>2. Append(r, "more") \in Seq(Places)
    BY StackTop DEF Places
  <2>3. Is(z, Append(s, v), FALSE, Append(r, "more"), m)
    BY <1>4, <1>8, <2>1, <2>2, NextElement
  <2>4. QED
    BY <1>6, <1>8, <2>3
<1>9. QED
  BY <1>7, <1>8 DEF InList

LEMMA ValueOfKeyBegins ==
  ASSUME NEW p, NEW s \in Seq(Brackets), NEW r \in Seq(Places), NEW m,
         Is(p, Append(s, "colon"), TRUE, Append(r, "colon"), m)
  PROVE  Is(BeforeValue(p), s, FALSE, Append(r, "colon"), m)
<1>1. /\ Append(s, "colon")[Len(Append(s, "colon"))] = "colon"
      /\ SubSeq(Append(s, "colon"), 1, Len(Append(s, "colon")) - 1) = s
  BY Deeper, AreBrackets
<1>2. (Top(p) \in {"bracket", "colon", "sentinel"}) = TRUE
  BY <1>1 DEF Is, Top
<1> DEFINE q == Check(p, Top(p) \in {"bracket", "colon", "sentinel"})
           z == Separator(q)
<1>3. Is(q, Append(s, "colon"), TRUE, Append(r, "colon"), m)
  BY <1>2, CheckPasses
<1>4. BeforeValue(p) = PopKey(z)
  BY DEF BeforeValue
<1> HIDE DEF q
<1>5. Is(z, Append(s, "colon"), FALSE, Append(r, "colon"), m)
  BY <1>3, FirstElement
<1> HIDE DEF z
<1>6. PopKey(z) = [z EXCEPT !.stack = s]
  BY <1>1, <1>5 DEF Is, PopKey, Top, Shorter
<1>7. Is([z EXCEPT !.stack = s], s, FALSE, Append(r, "colon"), m)
  BY <1>5 DEF Is, Printer, Brackets
<1>8. QED
  BY <1>4, <1>6, <1>7

\* The brackets of an object or an array, once what precedes a value is printed.
LEMMA BracketsOpen ==
  ASSUME NEW q, NEW s \in Seq(Brackets), NEW r \in Seq(Places), NEW y, NEW w \in Places,
         NEW m, Is(q, s, FALSE, Append(r, y), m), Len(s) < 20,
         Take(Append(r, y), "value") = Append(r, w),
         NEW v \in Brackets, NEW place \in Places
  PROVE  Is(Push([q EXCEPT !.reader = Enter(@, place)], v), Append(s, v), TRUE,
            Append(Append(r, w), place), m)
<1> DEFINE e == Append(Append(r, w), place)
<1>1. Append(r, w) \in Seq(Places) /\ Append(r, w) # <<>> /\ e \in Seq(Places)
  BY StackTop
<1> DEFINE u == Enter(q.reader, place)
           z == [q EXCEPT !.reader = u]
<1>2. ReadAs(u, e)
  <2>1. Enter(Append(r, y), place) = e
    BY <1>1 DEF Enter
  <2>2. QED
    BY <2>1, NoDocument DEF Is, ReadAs
<1>3. [q EXCEPT !.reader = Enter(@, place)] = z
  OBVIOUS
<1> HIDE DEF e, u
<1>4. Is(z, s, FALSE, e, m)
  BY <1>1, <1>2, Reads
<1> HIDE DEF z
<1>5. Len(s) < MaxDepth
  BY DEF MaxDepth
<1>6. Is(Push(z, v), Append(s, v), TRUE, e, m)
  BY <1>4, <1>5, Pushes
<1>7. QED
  BY <1>3, <1>6 DEF e

\* json_printer_object_begin() in an array or the document, and after a key;
\* json_printer_array_begin() after a key.
LEMMA ObjectInList ==
  ASSUME NEW p, NEW s \in Seq(Brackets), NEW f, NEW r \in Seq(Places), NEW x \in Places, NEW m,
         NEW v \in {"bracket", "sentinel"}, Is(p, Append(s, v), f, Append(r, x), m), InList(f, x),
         Len(Append(s, v)) < 20
  PROVE  Is(json_printer_object_begin(p), Append(Append(s, v), "brace"), TRUE,
            Append(Append(r, IF x = "empty" THEN "done" ELSE "element"), "object"), m)
<1> DEFINE q == BeforeValue(p)
           w == IF x = "empty" THEN "done" ELSE "element"
           y == IF x = "element" THEN "more" ELSE x
<1>1. Is(q, Append(s, v), FALSE, Append(r, y), m)
  BY ElementBegins
<1>2. Take(Append(r, y), "value") = Append(r, w)
  BY TakeValue DEF InList
<1>3. Append(s, v) \in Seq(Brackets)
  BY Deeper, AreBrackets
<1>4. w \in Places /\ "object" \in Places
  BY DEF Places
<1>5. json_printer_object_begin(p) = Push([q EXCEPT !.reader = Enter(@, "object")], "brace")
  BY DEF json_printer_object_begin
<1> HIDE DEF q, w, y
<1>6. Is(Push([q EXCEPT !.reader = Enter(@, "object")], "brace"), Append(Append(s, v), "brace"), TRUE,
         Append(Append(r, w), "object"), m)
  BY <1>1, <1>2, <1>3, <1>4, BracketsOpen, AreBrackets
<1>7. QED
  BY <1>5, <1>6 DEF w

LEMMA OpenedAfterKey ==
  ASSUME NEW p, NEW s \in Seq(Brackets), NEW r \in Seq(Places), NEW m,
         Is(p, Append(s, "colon"), TRUE, Append(r, "colon"), m), Len(s) < 20
  PROVE  /\ Is(json_printer_object_begin(p), Append(s, "brace"), TRUE,
               Append(Append(r, "member"), "object"), m)
         /\ Is(json_printer_array_begin(p), Append(s, "bracket"), TRUE,
               Append(Append(r, "member"), "array"), m)
<1> DEFINE q == BeforeValue(p)
<1>1. Is(q, s, FALSE, Append(r, "colon"), m)
  BY ValueOfKeyBegins
<1>2. Take(Append(r, "colon"), "value") = Append(r, "member")
  BY TakeValue
<1>3. "member" \in Places /\ "object" \in Places /\ "array" \in Places
  BY DEF Places
<1>4. /\ json_printer_object_begin(p) = Push([q EXCEPT !.reader = Enter(@, "object")], "brace")
      /\ json_printer_array_begin(p) = Push([q EXCEPT !.reader = Enter(@, "array")], "bracket")
  BY DEF json_printer_object_begin, json_printer_array_begin
<1> HIDE DEF q
<1>5. Is(Push([q EXCEPT !.reader = Enter(@, "object")], "brace"), Append(s, "brace"), TRUE,
         Append(Append(r, "member"), "object"), m)
  BY <1>1, <1>2, <1>3, BracketsOpen, AreBrackets
<1>6. Is(Push([q EXCEPT !.reader = Enter(@, "array")], "bracket"), Append(s, "bracket"), TRUE,
         Append(Append(r, "member"), "array"), m)
  BY <1>1, <1>2, <1>3, BracketsOpen, AreBrackets
<1>7. QED
  BY <1>4, <1>5, <1>6

\* json_printer_object_pair_uint(), of a number whose name can be read back and
\* of another one.
LEMMA NumberPrinted ==
  ASSUME NEW p, NEW s \in Seq(Brackets), NEW f, NEW r \in Seq(Places), NEW x \in Places,
         NEW m \in Seq(Members), Is(p, Append(s, "brace"), f, Append(r, x), m), InObject(f, x),
         NEW key \in Names \cup {"id", "hits_by_all_hostnames"}, NEW value \in Nat
  PROVE  Is(json_printer_object_pair_uint(p, key, value), Append(s, "brace"), FALSE,
            Append(r, "member"),
            IF KindOf(key) = "plain" THEN Append(m, [key |-> key, value |-> value]) ELSE m)
<1> DEFINE q == json_printer_object_pair(p, key)
           n == Append(m, [key |-> key, value |-> value])
<1>1. Is(q, Append(s, "brace"), FALSE, Append(r, "member"), m)
  BY PairPrinted
<1>2. n \in Seq(Members)
  <2>1. [key |-> key, value |-> value] \in Members
    BY DEF Members
  <2>2. QED
    BY <2>1, StackTop
<1>3. json_printer_object_pair_uint(p, key, value) =
        IF KindOf(key) = "plain" THEN [q EXCEPT !.members = n] ELSE q
  BY <1>1 DEF Is, json_printer_object_pair_uint
<1> HIDE DEF q, n
<1>4. Is([q EXCEPT !.members = n], Append(s, "brace"), FALSE, Append(r, "member"), n)
  BY <1>1, <1>2 DEF Is, Printer, Members
<1>5. QED
  BY <1>1, <1>3, <1>4 DEF n

----------------------------------------------------------------------------
(* add_general_information(): the loops over keys and filters.             *)

LEMMA PairsPrinted ==
  ASSUME NEW p, NEW s \in Seq(Brackets), NEW f, NEW r \in Seq(Places), NEW x \in Places, NEW m,
         Is(p, Append(s, "brace"), f, Append(r, x), m), InObject(f, x),
         NEW keys, Len(keys) \in Nat \ {0}
  PROVE  Is(Pairs(p, keys), Append(s, "brace"), FALSE, Append(r, "member"), m)
<1> DEFINE N == Len(keys)
           A == Append(s, "brace")
           O(q) == Is(q, A, TRUE, Append(r, "object"), m)
           M(q) == Is(q, A, FALSE, Append(r, "member"), m)
           S == {q \in Printer : O(q) \/ M(q)}
           step(q, t) == json_printer_object_pair(q, keys[t])
           G == [t \in Nat |-> [q \in S |-> IF t \in 1..N THEN step(q, t) ELSE q]]
<1>1. "object" \in Places /\ "member" \in Places
  BY DEF Places
<1>2. ASSUME NEW q \in S, NEW t \in 1..N
      PROVE  M(step(q, t)) /\ step(q, t) \in S
  <2>1. PICK g \in BOOLEAN, y \in Places : Is(q, A, g, Append(r, y), m) /\ InObject(g, y)
    BY <1>1 DEF InObject
  <2>2. M(step(q, t))
    BY <2>1, PairPrinted
  <2>3. QED
    BY <2>2 DEF Is
<1>3. p \in S
  BY DEF Is, InObject
<1> HIDE DEF O, M, S, step
<1>4. G \in Steps(S)
  BY <1>2 DEF Steps
<1>5. N \in Nat
  OBVIOUS
<1> HIDE DEF G, N
<1>i. PICK h : Iterates(h, S, p, G, N)
  BY <1>3, <1>4, <1>5, Iterated
<1>6. h \in [0..N -> S] /\ h[0] = p /\ \A t \in 1..N : h[t] = G[t][h[t - 1]]
  BY <1>i DEF Iterates
<1>7. \A t \in 1..N : h[t] = step(h[t - 1], t)
  <2>1. ASSUME NEW t \in 1..N
        PROVE  h[t] = step(h[t - 1], t)
    <3>1. t \in Nat /\ t - 1 \in 0..N
      BY <1>5
    <3>2. h[t - 1] \in S
      BY <1>6, <3>1
    <3>3. G[t][h[t - 1]] = step(h[t - 1], t)
      BY <3>1, <3>2 DEF G
    <3>4. QED
      BY <1>6, <3>3
  <2>2. QED
    BY <2>1
<1>8. h = [t \in 0..N |-> IF t = 0 THEN p ELSE step(h[t - 1], t)]
  BY <1>5, <1>6, <1>7
<1> DEFINE c == CHOOSE printed : printed = [t \in 0..N |-> IF t = 0 THEN p ELSE step(printed[t - 1], t)]
<1>9. c = [t \in 0..N |-> IF t = 0 THEN p ELSE step(c[t - 1], t)]
  BY <1>8
<1>10. Pairs(p, keys) = c[N]
  BY DEF Pairs, step, N
<1> HIDE DEF c
<1>11. c[0] = p /\ \A t \in 1..N : c[t] = step(c[t - 1], t)
  BY <1>5, <1>9
<1>12. \A t \in 0..N : c[t] \in S
  <2>1. \A t \in 1..N : c[t - 1] \in S => c[t] \in S
    BY <1>2, <1>11
  <2>2. QED
    BY <1>3, <1>5, <1>11, <2>1, IteratedStays
<1>13. N \in 1..N /\ N - 1 \in 0..N
  BY DEF N
<1>14. M(c[N])
  BY <1>2, <1>11, <1>12, <1>13
<1>15. QED
  BY <1>10, <1>14 DEF M

LEMMA WordsCount == Len(GeneralKeys) \in Nat \ {0} /\ Len(FilterKeys) \in Nat \ {0}
<1>1. Len(GeneralKeys) = 14 /\ Len(FilterKeys) = 3
  BY DEF GeneralKeys, FilterKeys
<1>2. QED
  BY <1>1

\* The objects of the filters, in the array that was opened for them.
LEMMA FiltersPrinted ==
  ASSUME NEW p, NEW s \in Seq(Brackets), NEW r \in Seq(Places), NEW m,
         Is(p, Append(s, "bracket"), TRUE, Append(r, "array"), m), 1 <= Len(s), Len(s) <= 10
  PROVE  \E f \in BOOLEAN, x \in {"array", "element"} :
           Is(FilterInformation(p), Append(s, "bracket"), f, Append(r, x), m)
<1> DEFINE N == number_of_filters
           A == Append(s, "bracket")
           F(q) == Is(q, A, TRUE, Append(r, "array"), m)
           E(q) == Is(q, A, FALSE, Append(r, "element"), m)
           S == {q \in Printer : F(q) \/ E(q)}
           step(q) == json_printer_object_end(Pairs(json_printer_object_begin(q), FilterKeys))
           G == [t \in Nat |-> [q \in S |-> step(q)]]
<1>1. A \in Seq(Brackets) /\ Len(A) \in Nat /\ 2 <= Len(A) /\ Len(A) <= 11
  <2>1. A \in Seq(Brackets) /\ Len(A) = Len(s) + 1 /\ Len(s) \in Nat
    BY Deeper, AreBrackets
  <2>2. QED
    BY <2>1
<1>2. /\ "array" \in Places /\ "element" \in Places /\ "object" \in Places /\ "member" \in Places
      /\ Append(r, "element") \in Seq(Places)
  BY StackTop DEF Places
<1>3. ASSUME NEW q \in S
      PROVE  step(q) \in S
  <2>1. PICK g \in BOOLEAN, y \in {"array", "element"} : Is(q, A, g, Append(r, y), m) /\ InList(g, y)
    BY DEF InList
  <2> DEFINE o == json_printer_object_begin(q)
             e == Append(r, "element")
             z == Pairs(o, FilterKeys)
  <2>2. y \in Places /\ y # "empty"
    BY <1>2
  <2>3. Is(o, Append(A, "brace"), TRUE, Append(e, "object"), m)
    <3>1. Len(A) < 20
      BY <1>1
    <3>2. Is(o, Append(A, "brace"), TRUE,
             Append(Append(r, IF y = "empty" THEN "done" ELSE "element"), "object"), m)
      BY <2>1, <2>2, <3>1, ObjectInList
    <3>3. QED
      BY <2>2, <3>2
  <2> HIDE DEF o, e
  <2>4. InObject(TRUE, "object") /\ InObject(FALSE, "member")
    BY DEF InObject
  <2>5. e \in Seq(Places)
    BY <1>2 DEF e
  <2>6. Is(z, Append(A, "brace"), FALSE, Append(e, "member"), m)
    BY <1>1, <1>2, <2>3, <2>4, <2>5, PairsPrinted, WordsCount
  <2> HIDE DEF z
  <2>7. Is(json_printer_object_end(z), A, (Len(A) = 1), e, m)
    BY <1>1, <1>2, <2>4, <2>5, <2>6, ObjectEnded
  <2>8. (Len(A) = 1) = FALSE
    BY <1>1
  <2>9. Is(json_printer_object_end(z), A, FALSE, e, m)
    BY <2>7, <2>8
  <2>10. QED
    BY <2>9 DEF e, z, o, Is
<1>4. p \in S
  BY DEF Is
<1>5. N \in Nat
  BY SearchAssumption
<1> HIDE DEF F, E, S, step, N
<1>6. G \in Steps(S)
  BY <1>3 DEF Steps
<1> HIDE DEF G
<1>7. PICK h : Iterates(h, S, p, G, N)
  BY <1>4, <1>5, <1>6, Iterated
<1>8. h \in [0..N -> S] /\ h[0] = p /\ \A t \in 1..N : h[t] = G[t][h[t - 1]]
  BY <1>7 DEF Iterates
<1>9. ASSUME NEW t \in 1..N
      PROVE  h[t] = step(h[t - 1])
  <2>1. t \in Nat /\ t - 1 \in 0..N
    BY <1>5
  <2>2. h[t - 1] \in S
    BY <1>8, <2>1
  <2>3. G[t][h[t - 1]] = step(h[t - 1])
    BY <2>1, <2>2 DEF G
  <2>4. QED
    BY <1>8, <2>3
<1>10. h = [t \in 0..N |-> IF t = 0 THEN p ELSE step(h[t - 1])]
  BY <1>5, <1>8, <1>9
<1> DEFINE c == CHOOSE printed : printed = [t \in 0..N |-> IF t = 0 THEN p ELSE step(printed[t - 1])]
<1>11. c = [t \in 0..N |-> IF t = 0 THEN p ELSE step(c[t - 1])]
  BY <1>10
<1>12. FilterInformation(p) = c[N]
  BY DEF FilterInformation, step, N
<1> HIDE DEF c
<1>13. c[0] = p /\ \A t \in 1..N : c[t] = step(c[t - 1])
  BY <1>5, <1>11
<1>14. \A t \in 0..N : c[t] \in S
  <2>1. \A t \in 1..N : c[t - 1] \in S => c[t] \in S
    BY <1>3, <1>13
  <2>2. QED
    BY <1>4, <1>5, <1>13, <2>1, IteratedStays
<1>15. c[N] \in S
  BY <1>5, <1>14
<1>16. QED
  BY <1>12, <1>15 DEF S, F, E

\* All of it, in an object that was opened.
LEMMA GeneralPrinted ==
  ASSUME NEW p, NEW s \in Seq(Brackets), NEW r \in Seq(Places), NEW m,
         Is(p, Append(s, "brace"), TRUE, Append(r, "object"), m), 1 <= Len(s), Len(s) <= 5
  PROVE  Is(add_general_information(p), Append(s, "brace"), FALSE, Append(r, "member"), m)
<1> DEFINE A == Append(s, "brace")
           a == Pairs(p, GeneralKeys)
           b == json_printer_object_key(a, "filters")
           c == json_printer_array_begin(b)
           d == FilterInformation(c)
<1>1. A \in Seq(Brackets) /\ Len(A) \in Nat /\ 2 <= Len(A) /\ Len(A) <= 6
  <2>1. A \in Seq(Brackets) /\ Len(A) = Len(s) + 1 /\ Len(s) \in Nat
    BY Deeper, AreBrackets
  <2>2. QED
    BY <2>1
<1>n. (Len(A) = 1) = FALSE
  <2>1. Len(A) # 1
    BY <1>1
  <2>2. QED
    BY <2>1
<1>2. /\ "array" \in Places /\ "element" \in Places /\ "object" \in Places /\ "member" \in Places
      /\ Append(r, "member") \in Seq(Places)
  BY StackTop DEF Places
<1>3. InObject(TRUE, "object") /\ InObject(FALSE, "member")
  BY DEF InObject
<1>4. Is(a, A, FALSE, Append(r, "member"), m)
  BY <1>2, <1>3, PairsPrinted, WordsCount
<1> HIDE DEF a
<1>5. Is(b, Append(A, "colon"), TRUE, Append(r, "colon"), m)
  <2>1. Len(s) < 20
    OBVIOUS
  <2>2. QED
    BY <1>2, <1>3, <1>4, <2>1, KeyPrinted
<1> HIDE DEF b
<1> DEFINE R == Append(r, "member")
<1>6. Is(c, Append(A, "bracket"), TRUE, Append(R, "array"), m)
  <2>1. Len(A) < 20
    BY <1>1
  <2>2. QED
    BY <1>1, <1>5, <2>1, OpenedAfterKey
<1> HIDE DEF c, A
<1>7. PICK f \in BOOLEAN, x \in {"array", "element"} : Is(d, Append(A, "bracket"), f, Append(R, x), m)
  <2>1. 1 <= Len(A) /\ Len(A) <= 10
    BY <1>1
  <2>2. R \in Seq(Places)
    BY <1>2
  <2> HIDE DEF R
  <2>3. QED
    BY <1>1, <1>6, <2>1, <2>2, FiltersPrinted
<1> HIDE DEF d
<1>8. Is(json_printer_array_end(d), A, (Len(A) = 1), R, m)
  <2>1. x \in Places
    BY <1>2
  <2>2. R \in Seq(Places)
    BY <1>2
  <2> HIDE DEF R
  <2>3. QED
    BY <1>1, <1>7, <2>1, <2>2, ArrayEnded
<1>9. add_general_information(p) = json_printer_array_end(d)
  BY DEF add_general_information, a, b, c, d
<1>10. QED
  BY <1>8, <1>n, <1>9 DEF A

----------------------------------------------------------------------------
(* Where the program is, in the job and in what it prints.                 *)

\* The printer's nesting: the document, its object, the array of groups, and the
\* objects of a group and its host names.
S1 == Append(<<>>, "sentinel")
S2 == Append(S1, "brace")
S3 == Append(S2, "bracket")
S4 == Append(S3, "brace")
S5 == Append(S4, "brace")

\* What a reader makes of the text there, after a member or an element.
R0 == <<>>
R1 == Append(R0, "done")
R2 == Append(R1, "member")
R3 == Append(R2, "element")
R4 == Append(R3, "member")
R5 == Append(R4, "member")

Blank(p, m) == Is(p, S1, TRUE, Append(R0, "empty"), m)
Whole(p, m) == Is(p, S1, TRUE, R1, m)
InSpec(p, m) == Is(p, S2, FALSE, R2, m)
Listing(p, m) == Is(p, S3, TRUE, Append(R2, "array"), m) \/ Is(p, S3, FALSE, R3, m)
Reporting(p, m) == Is(p, S5, FALSE, R5, m)

\* The parser's nesting.
Nesting == {"top", "object", "scalar", "key", "val", "elem"}

N1(x) == Append(<<>>, x)
N2(x) == Append(N1("object"), x)
N3(x) == Append(N2("key"), x)
N4(x) == Append(N3("elem"), x)
N5(x) == Append(N4("key"), x)

KeyOrValue == {"key", "val"}

InSearchSpec == state \in {"SEARCH_SPEC", "SEARCH_SPEC_EXPECT_GROUPS_ARRAY"}

\* In a group the printer is in it once there is a result.
GroupPrinted ==
  IF group_has_results THEN Reporting(printer, printer.members) ELSE Listing(printer, printer.members)

Located ==
  \/ /\ state = "INIT" /\ nest \in {N1("top"), N1("scalar")}
     /\ Blank(printer, printer.members)
  \/ state = "INIT" /\ nest = N1("object") /\ Whole(printer, printer.members)
  \/ InSearchSpec /\ (\E x \in KeyOrValue : nest = N2(x)) /\ InSpec(printer, printer.members)
  \/ state = "GROUPS_ARRAY" /\ nest = N3("elem") /\ Listing(printer, printer.members)
  \/ InGroup /\ (\E x \in KeyOrValue : nest = N4(x)) /\ GroupPrinted
  \/ InHostNames /\ (\E x \in KeyOrValue : nest = N5(x)) /\ GroupPrinted

\* The variables that are not on a stack.
Typed ==
  /\ status \in {"running", "done", "failed"}
  /\ group_id \in Nat
  /\ group_has_results \in BOOLEAN
  /\ group_all_host_names_found \in BOOLEAN
  /\ group_filters_hit \subseteq 1..number_of_filters
  /\ host_name_filters_hit \subseteq 1..number_of_filters
  /\ host_name_key \in Names \cup {""}
  /\ state = "HOST_NAME_MAP_EXPECT_VALUE" => host_name_key \in Names
  /\ flatten_results \in BOOLEAN
  /\ asked \subseteq Names \X Hashes
  /\ answered \subseteq [key : Names, value : Nat]

\* What is printed for a hash.
Found(h) == Flattened(Cardinality(Hits[h]))

\* What the group's flags and filters stand for: the hashes the group asked for.
Accounted ==
  InGroup \/ InHostNames =>
    /\ group_has_results <=> \E a \in asked : Found(a[2]) > 0
    /\ group_all_host_names_found <=> \A a \in asked : Found(a[2]) > 0
    /\ group_all_host_names_found /\ group_has_results => group_filters_hit = HitByAll

AllAnswered ==
  answered = {[key |-> a[1], value |-> Found(a[2])] :
                a \in {b \in asked : Kind[b[1]] = "plain" /\ Found(b[2]) > 0}}

\* A job that ends well is complete.
Ended == status = "done" => nest \in {N1("scalar"), N1("object")}

SearchInv == Typed /\ Located /\ Accounted /\ AllAnswered /\ HitsByAllHostnames /\ Ended

----------------------------------------------------------------------------
(* What the callbacks print.                                               *)

LEMMA Shapes ==
  /\ <<>> \in Seq(Brackets) /\ S1 \in Seq(Brackets) /\ S2 \in Seq(Brackets)
  /\ S3 \in Seq(Brackets) /\ S4 \in Seq(Brackets) /\ S5 \in Seq(Brackets)
  /\ R0 \in Seq(Places) /\ R1 \in Seq(Places) /\ R2 \in Seq(Places) /\ R3 \in Seq(Places)
  /\ R4 \in Seq(Places) /\ R5 \in Seq(Places)
<1>1. <<>> \in Seq(Brackets) /\ R0 \in Seq(Places)
  BY EmptySeq DEF R0
<1>2. S1 \in Seq(Brackets)
  BY <1>1, Deeper, AreBrackets DEF S1
<1>3. S2 \in Seq(Brackets)
  BY <1>2, Deeper, AreBrackets DEF S2
<1>4. S3 \in Seq(Brackets)
  BY <1>3, Deeper, AreBrackets DEF S3
<1>5. S4 \in Seq(Brackets)
  BY <1>4, Deeper, AreBrackets DEF S4
<1>6. S5 \in Seq(Brackets)
  BY <1>5, Deeper, AreBrackets DEF S5
<1>p. "done" \in Places /\ "member" \in Places /\ "element" \in Places
  BY DEF Places
<1>7. R1 \in Seq(Places)
  BY <1>1, <1>p, StackTop DEF R1
<1>8. R2 \in Seq(Places)
  BY <1>7, <1>p, StackTop DEF R2
<1>9. R3 \in Seq(Places)
  BY <1>8, <1>p, StackTop DEF R3
<1>10. R4 \in Seq(Places)
  BY <1>9, <1>p, StackTop DEF R4
<1>11. R5 \in Seq(Places)
  BY <1>10, <1>p, StackTop DEF R5
<1>12. QED
  BY <1>1, <1>2, <1>3, <1>4, <1>5, <1>6, <1>7, <1>8, <1>9, <1>10, <1>11

LEMMA Depths ==
  /\ Len(<<>>) = 0 /\ Len(S1) = 1 /\ Len(S2) = 2 /\ Len(S3) = 3 /\ Len(S4) = 4 /\ Len(S5) = 5
<1>1. Len(<<>>) = 0
  OBVIOUS
<1>2. Len(S1) = 1
  BY <1>1, Shapes, Deeper, AreBrackets DEF S1
<1>3. Len(S2) = 2
  <2>1. Len(S2) = Len(S1) + 1
    BY Shapes, Deeper, AreBrackets DEF S2
  <2>2. QED
    BY <1>2, <2>1
<1>4. Len(S3) = 3
  <2>1. Len(S3) = Len(S2) + 1
    BY Shapes, Deeper, AreBrackets DEF S3
  <2>2. QED
    BY <1>3, <2>1
<1>5. Len(S4) = 4
  <2>1. Len(S4) = Len(S3) + 1
    BY Shapes, Deeper, AreBrackets DEF S4
  <2>2. QED
    BY <1>4, <2>1
<1>6. Len(S5) = 5
  <2>1. Len(S5) = Len(S4) + 1
    BY Shapes, Deeper, AreBrackets DEF S5
  <2>2. QED
    BY <1>5, <2>1
<1>7. QED
  BY <1>1, <1>2, <1>3, <1>4, <1>5, <1>6

LEMMA ArePlaces ==
  /\ \A x \in {"empty", "done", "object", "member", "next", "colon", "array", "element", "more"} :
       x \in Places
  /\ InObject(TRUE, "object") /\ InObject(FALSE, "member")
  /\ InList(TRUE, "empty") /\ InList(TRUE, "array") /\ InList(FALSE, "element")
BY DEF Places, InObject, InList

\* The document's object is opened, with the general information in it.
LEMMA JobBegins ==
  ASSUME NEW p, NEW m, Blank(p, m)
  PROVE  InSpec(add_general_information(json_printer_object_begin(p)), m)
<1> DEFINE q == json_printer_object_begin(p)
<1>1. Is(p, Append(<<>>, "sentinel"), TRUE, Append(R0, "empty"), m)
  BY DEF Blank, S1
<1>2. Len(Append(<<>>, "sentinel")) < 20
  BY Depths DEF S1
<1>3. Is(q, Append(Append(<<>>, "sentinel"), "brace"), TRUE, Append(Append(R0, "done"), "object"), m)
  BY <1>1, <1>2, Shapes, ArePlaces, ObjectInList
<1>4. Is(q, Append(S1, "brace"), TRUE, Append(R1, "object"), m)
  BY <1>3 DEF S1, R1
<1> HIDE DEF q
<1>5. Is(add_general_information(q), Append(S1, "brace"), FALSE, Append(R1, "member"), m)
  <2>1. 1 <= Len(S1) /\ Len(S1) <= 5
    BY Depths
  <2>2. QED
    BY <1>4, <2>1, Shapes, GeneralPrinted
<1>6. QED
  BY <1>5 DEF q, InSpec, S2, R2

\* The array of groups is opened.
LEMMA GroupsBegin ==
  ASSUME NEW p, NEW m, InSpec(p, m)
  PROVE  Listing(json_printer_array_begin(json_printer_object_key(
                   json_printer_object_pair(p, "flattened_results"), "groups")), m)
<1> DEFINE a == json_printer_object_pair(p, "flattened_results")
           b == json_printer_object_key(a, "groups")
<1>1. Is(p, Append(S1, "brace"), FALSE, Append(R1, "member"), m)
  BY DEF InSpec, S2, R2
<1>2. Is(a, Append(S1, "brace"), FALSE, Append(R1, "member"), m)
  BY <1>1, Shapes, ArePlaces, PairPrinted
<1> HIDE DEF a
<1>3. Len(S1) < 20 /\ Len(S2) < 20
  BY Depths
<1>4. Is(b, Append(Append(S1, "brace"), "colon"), TRUE, Append(R1, "colon"), m)
  BY <1>2, <1>3, Shapes, ArePlaces, KeyPrinted
<1>5. Is(b, Append(S2, "colon"), TRUE, Append(R1, "colon"), m)
  BY <1>4 DEF S2
<1> HIDE DEF b
<1>6. Is(json_printer_array_begin(b), Append(S2, "bracket"), TRUE,
         Append(Append(R1, "member"), "array"), m)
  BY <1>3, <1>5, Shapes, OpenedAfterKey
<1>7. QED
  BY <1>6 DEF Listing, S3, R2, a, b

\* The array of groups and the document are closed.
LEMMA GroupsEnd ==
  ASSUME NEW p, NEW m, Listing(p, m)
  PROVE  InSpec(json_printer_array_end(p), m)
<1>1. PICK f \in BOOLEAN, x \in {"array", "element"} :
        Is(p, Append(S2, "bracket"), f, Append(R2, x), m)
  BY DEF Listing, S3, R3
<1>2. Is(json_printer_array_end(p), S2, (Len(S2) = 1), R2, m)
  BY <1>1, Shapes, ArePlaces, ArrayEnded
<1>3. (Len(S2) = 1) = FALSE
  BY Depths
<1>4. QED
  BY <1>2, <1>3 DEF InSpec

LEMMA JobEnds ==
  ASSUME NEW p, NEW m, InSpec(p, m)
  PROVE  Whole(json_printer_object_end(p), m)
<1>1. Is(p, Append(S1, "brace"), FALSE, Append(R1, "member"), m)
  BY DEF InSpec, S2, R2
<1>2. Is(json_printer_object_end(p), S1, (Len(S1) = 1), R1, m)
  BY <1>1, Shapes, ArePlaces, ObjectEnded
<1>3. (Len(S1) = 1) = TRUE
  BY Depths
<1>4. QED
  BY <1>2, <1>3 DEF Whole

\* The number of a host name, in the object of its group.
LEMMA HostNamePrinted ==
  ASSUME NEW p, NEW m \in Seq(Members), NEW f, NEW x \in Places,
         Is(p, S5, f, Append(R4, x), m), InObject(f, x),
         NEW key \in Names, NEW value \in Nat
  PROVE  Reporting(json_printer_object_pair_uint(p, key, value),
                   IF Kind[key] = "plain" THEN Append(m, [key |-> key, value |-> value]) ELSE m)
<1>1. KindOf(key) = Kind[key]
  BY DEF KindOf
<1>2. Is(p, Append(S4, "brace"), f, Append(R4, x), m)
  BY DEF S5
<1>3. Is(json_printer_object_pair_uint(p, key, value), Append(S4, "brace"), FALSE,
         Append(R4, "member"),
         IF KindOf(key) = "plain" THEN Append(m, [key |-> key, value |-> value]) ELSE m)
  BY <1>1, <1>2, Shapes, NumberPrinted
<1>4. QED
  BY <1>1, <1>3 DEF Reporting, S5, R5

\* The object of a group is opened.
LEMMA GroupBegins ==
  ASSUME NEW p, NEW m, Listing(p, m)
  PROVE  Is(GroupOpened(p), S5, TRUE, Append(R4, "object"), m)
<1> DEFINE a == json_printer_object_begin(p)
           b == json_printer_object_key(a, "hostnames")
<1>1. PICK f \in BOOLEAN, x \in {"array", "element"} :
        Is(p, Append(S2, "bracket"), f, Append(R2, x), m) /\ InList(f, x)
  BY ArePlaces DEF Listing, S3, R3
<1>2. Len(Append(S2, "bracket")) < 20 /\ Len(S3) < 20 /\ Len(S4) < 20
  BY Depths DEF S3
<1>3. x \in Places /\ x # "empty"
  BY ArePlaces
<1>4. Is(a, Append(Append(S2, "bracket"), "brace"), TRUE,
         Append(Append(R2, IF x = "empty" THEN "done" ELSE "element"), "object"), m)
  BY <1>1, <1>2, <1>3, Shapes, ObjectInList
<1>5. Is(a, Append(S3, "brace"), TRUE, Append(R3, "object"), m)
  BY <1>3, <1>4 DEF S3, R3
<1> HIDE DEF a
<1>6. Is(b, Append(Append(S3, "brace"), "colon"), TRUE, Append(R3, "colon"), m)
  BY <1>2, <1>5, Shapes, ArePlaces, KeyPrinted
<1>7. Is(b, Append(S4, "colon"), TRUE, Append(R3, "colon"), m)
  BY <1>6 DEF S4
<1> HIDE DEF b
<1>8. Is(json_printer_object_begin(b), Append(S4, "brace"), TRUE,
         Append(Append(R3, "member"), "object"), m)
  BY <1>2, <1>7, Shapes, OpenedAfterKey
<1>9. QED
  BY <1>8 DEF GroupOpened, a, b, S5, R4

\* The object of a group is closed, with its numbers.
LEMMA GroupEnds ==
  ASSUME NEW p, NEW m \in Seq(Members), Reporting(p, m), NEW id \in Nat, NEW v \in Nat
  PROVE  Listing(json_printer_object_end(json_printer_object_pair_uint(
                   json_printer_object_pair_uint(json_printer_object_end(p), "id", id),
                   "hits_by_all_hostnames", v)),
                 Append(Append(m, [key |-> "id", value |-> id]),
                        [key |-> "hits_by_all_hostnames", value |-> v]))
<1> DEFINE a == json_printer_object_end(p)
           b == json_printer_object_pair_uint(a, "id", id)
           c == json_printer_object_pair_uint(b, "hits_by_all_hostnames", v)
           m1 == Append(m, [key |-> "id", value |-> id])
           m2 == Append(m1, [key |-> "hits_by_all_hostnames", value |-> v])
<1>1. Is(p, Append(S4, "brace"), FALSE, Append(R4, "member"), m)
  BY DEF Reporting, S5, R5
<1>2. Is(a, S4, (Len(S4) = 1), R4, m)
  BY <1>1, Shapes, ArePlaces, ObjectEnded
<1>3. (Len(S4) = 1) = FALSE /\ (Len(S3) = 1) = FALSE
  BY Depths
<1>4. Is(a, Append(S3, "brace"), FALSE, Append(R3, "member"), m)
  BY <1>2, <1>3 DEF S4, R4
<1>5. KindOf("id") = "plain" /\ KindOf("hits_by_all_hostnames") = "plain"
  BY SearchAssumption DEF KindOf
<1> HIDE DEF a
<1>6. Is(b, Append(S3, "brace"), FALSE, Append(R3, "member"),
         IF KindOf("id") = "plain" THEN m1 ELSE m)
  BY <1>4, <1>5, Shapes, ArePlaces, NumberPrinted
<1>7. Is(b, Append(S3, "brace"), FALSE, Append(R3, "member"), m1)
  BY <1>5, <1>6
<1>8. m1 \in Seq(Members)
  <2>1. [key |-> "id", value |-> id] \in Members
    BY DEF Members
  <2>2. QED
    BY <2>1, StackTop
<1> HIDE DEF b, m1
<1>9. Is(c, Append(S3, "brace"), FALSE, Append(R3, "member"),
         IF KindOf("hits_by_all_hostnames") = "plain" THEN m2 ELSE m1)
  BY <1>5, <1>7, <1>8, Shapes, ArePlaces, NumberPrinted
<1>10. Is(c, Append(S3, "brace"), FALSE, Append(R3, "member"), m2)
  BY <1>5, <1>9
<1> HIDE DEF c, m2
<1>11. Is(json_printer_object_end(c), S3, (Len(S3) = 1), R3, m2)
  BY <1>10, Shapes, ArePlaces, ObjectEnded
<1>12. QED
  BY <1>3, <1>11 DEF Listing, a, b, c, m1, m2

\* The next callback starts with no numbers printed.
LEMMA FreshIs ==
  ASSUME NEW s, NEW f, NEW r, NEW m, Is(printer, s, f, r, m)
  PROVE  Is(Fresh, s, f, r, <<>>)
<1> DEFINE e == <<>>
           M == [key : Names \cup {"id", "hits_by_all_hostnames"}, value : Nat]
<1>1. e \in Seq(M)
  BY EmptySeq
<1>2. Fresh = [printer EXCEPT !.members = e]
  BY DEF Fresh
<1>3. printer \in [stack : Seq(Brackets), first_element : BOOLEAN, reader : Seq(Places),
                  members : Seq(M), sound : BOOLEAN, died : BOOLEAN]
  BY DEF Is, Printer, Brackets
<1> HIDE DEF e, M
<1>4. /\ Fresh \in [stack : Seq(Brackets), first_element : BOOLEAN, reader : Seq(Places),
                    members : Seq(M), sound : BOOLEAN, died : BOOLEAN]
      /\ Fresh.sound = printer.sound /\ Fresh.stack = printer.stack
      /\ Fresh.first_element = printer.first_element /\ Fresh.reader = printer.reader
      /\ Fresh.members = e
  BY <1>1, <1>2, <1>3
<1>5. QED
  BY <1>4 DEF Is, Printer, Brackets, e, M

LEMMA PrinterEnds ==
  ASSUME NEW f, NEW r, NEW m, Is(printer, S1, f, r, m)
  PROVE  Is(json_printer_end(Fresh), S1, f, r, <<>>)
<1>1. Is(Fresh, S1, f, r, <<>>)
  BY FreshIs
<1>2. S1[Len(S1)] = "sentinel"
  BY Deeper, AreBrackets, Shapes DEF S1
<1>3. (Top(Fresh) = "sentinel") = TRUE
  BY <1>1, <1>2 DEF Is, Top
<1>4. QED
  BY <1>1, <1>3, CheckPasses DEF json_printer_end

----------------------------------------------------------------------------
(* What yajl's steps make of the nesting.                                  *)

LEMMA AreNestings ==
  \A x \in {"top", "object", "scalar", "key", "val", "elem"} : x \in Nesting
BY DEF Nesting

\* The last place is the one the parser is in.
LEMMA NestTop ==
  ASSUME NEW s \in Seq(Nesting), NEW x \in Nesting, nest = Append(s, x)
  PROVE  /\ Here = x
         /\ Closed = s
         /\ \A y \in Nesting : [nest EXCEPT ![Len(nest)] = y] = Append(s, y)
         /\ \A kind \in Nesting :
              AfterValue(kind) = Append(s, CASE x = "top" -> kind [] x = "val" -> "key"
                                             [] OTHER -> "elem")
<1>1. Here = x
  BY StackTop DEF Here
<1>2. Closed = s
  BY StackTop DEF Closed
<1>3. \A y \in Nesting : [nest EXCEPT ![Len(nest)] = y] = Append(s, y)
  BY StackReplace
<1>4. ASSUME NEW kind \in Nesting
      PROVE  AfterValue(kind) = Append(s, CASE x = "top" -> kind [] x = "val" -> "key"
                                            [] OTHER -> "elem")
  <2> DEFINE y == CASE x = "top" -> kind [] x = "val" -> "key" [] OTHER -> "elem"
  <2>1. y \in Nesting
    BY AreNestings
  <2>2. AfterValue(kind) = [nest EXCEPT ![Len(nest)] = y]
    BY <1>1 DEF AfterValue
  <2> HIDE DEF y
  <2>3. AfterValue(kind) = Append(s, y)
    BY <1>3, <2>1, <2>2
  <2>4. QED
    BY <2>3 DEF y
<1>5. QED
  BY <1>1, <1>2, <1>3, <1>4

LEMMA NestShapes ==
  ASSUME NEW x \in Nesting
  PROVE  /\ <<>> \in Seq(Nesting)
         /\ N1(x) \in Seq(Nesting) /\ N2(x) \in Seq(Nesting) /\ N3(x) \in Seq(Nesting)
         /\ N4(x) \in Seq(Nesting) /\ N5(x) \in Seq(Nesting)
<1>1. <<>> \in Seq(Nesting)
  BY EmptySeq
<1>2. \A y \in Nesting : N1(y) \in Seq(Nesting)
  BY <1>1, StackTop DEF N1
<1>3. \A y \in Nesting : N2(y) \in Seq(Nesting)
  BY <1>2, StackTop, AreNestings DEF N2
<1>4. \A y \in Nesting : N3(y) \in Seq(Nesting)
  BY <1>3, StackTop, AreNestings DEF N3
<1>5. \A y \in Nesting : N4(y) \in Seq(Nesting)
  BY <1>4, StackTop, AreNestings DEF N4
<1>6. \A y \in Nesting : N5(y) \in Seq(Nesting)
  BY <1>5, StackTop, AreNestings DEF N5
<1>7. QED
  BY <1>1, <1>2, <1>3, <1>4, <1>5, <1>6

----------------------------------------------------------------------------
(* Hits.                                                                   *)

LEMMA FewHits ==
  ASSUME NEW T \in SUBSET (1..number_of_filters)
  PROVE  /\ IsFiniteSet(T)
         /\ Cardinality(T) \in Nat
         /\ \A U \in SUBSET T : Cardinality(U) \in Nat /\ Cardinality(U) <= Cardinality(T)
<1>1. number_of_filters \in Nat
  BY SearchAssumption
<1>2. IsFiniteSet(1..number_of_filters)
  BY <1>1, FS_Interval
<1>3. IsFiniteSet(T)
  BY <1>2, FS_Subset
<1>4. Cardinality(T) \in Nat
  BY <1>3, FS_CardinalityType
<1>5. ASSUME NEW U \in SUBSET T
      PROVE  Cardinality(U) \in Nat /\ Cardinality(U) <= Cardinality(T)
  BY <1>3, FS_Subset, FS_CardinalityType
<1>6. QED
  BY <1>3, <1>4, <1>5

LEMMA FlattenedTyped ==
  ASSUME NEW n \in Nat
  PROVE  Flattened(n) \in Nat
BY DEF Flattened

\* A set of filters within one that counts for nothing counts for nothing.
LEMMA FlattenedMonotone ==
  ASSUME NEW T \in SUBSET (1..number_of_filters), NEW U \in SUBSET T,
         Flattened(Cardinality(T)) = 0
  PROVE  Flattened(Cardinality(U)) = 0
<1> DEFINE t == Cardinality(T)
           u == Cardinality(U)
<1>1. t \in Nat /\ u \in Nat /\ u <= t
  BY FewHits
<1>2. number_of_filters_per_user \in Nat
  BY SearchAssumption
<1>3. Flattened(t) = 0
  OBVIOUS
<1> HIDE DEF t, u
<1>4. Flattened(u) = 0
  BY <1>1, <1>2, <1>3 DEF Flattened
<1>5. QED
  BY <1>4 DEF u

LEMMA FoundTyped ==
  ASSUME NEW h \in Hashes
  PROVE  Found(h) \in Nat /\ Hits[h] \in SUBSET (1..number_of_filters)
<1>1. Hits[h] \in SUBSET (1..number_of_filters)
  BY SearchAssumption
<1>2. QED
  BY <1>1, FewHits, FlattenedTyped DEF Found

\* The number of a group is that of the filters with all of its hashes.
LEMMA GroupTotal ==
  ASSUME Typed, Accounted, InGroup, group_has_results
  PROVE  (IF group_all_host_names_found THEN Flattened(Cardinality(group_filters_hit)) ELSE 0)
           = Flattened(Cardinality(HitByAll))
<1>1. CASE group_all_host_names_found
  BY <1>1 DEF Accounted
<1>2. CASE ~group_all_host_names_found
  <2>1. PICK a \in asked : ~(Found(a[2]) > 0)
    BY <1>2 DEF Accounted
  <2>2. a[2] \in Hashes
    BY <2>1 DEF Typed
  <2>3. Found(a[2]) \in Nat /\ Hits[a[2]] \in SUBSET (1..number_of_filters)
    BY <2>2, FoundTyped
  <2>4. Flattened(Cardinality(Hits[a[2]])) = 0
    BY <2>1, <2>3 DEF Found
  <2>5. HitByAll \in SUBSET Hits[a[2]]
    BY DEF HitByAll
  <2>6. QED
    BY <1>2, <2>3, <2>4, <2>5, FlattenedMonotone
<1>3. QED
  BY <1>1, <1>2

\* One more hash that is asked for.
LEMMA HitByMore ==
  ASSUME NEW k, NEW h, asked' = asked \cup {<<k, h>>}
  PROVE  HitByAll' = HitByAll \cap Hits[h]
<1>1. <<k, h>>[2] = h
  OBVIOUS
<1>2. QED
  BY <1>1 DEF HitByAll

----------------------------------------------------------------------------
(* The steps.                                                              *)

\* Wherever the printer is, it is there without the numbers of the last callback.
LEMMA FreshAt ==
  ASSUME NEW m
  PROVE  /\ Blank(printer, m) => Blank(Fresh, <<>>)
         /\ Whole(printer, m) => Whole(Fresh, <<>>)
         /\ InSpec(printer, m) => InSpec(Fresh, <<>>)
         /\ Listing(printer, m) => Listing(Fresh, <<>>)
         /\ Reporting(printer, m) => Reporting(Fresh, <<>>)
BY FreshIs DEF Blank, Whole, InSpec, Listing, Reporting

LEMMA Own ==
  ASSUME NEW p, NEW m
  PROVE  /\ Blank(p, m) => Blank(p, p.members) /\ p.members = m
         /\ Whole(p, m) => Whole(p, p.members) /\ p.members = m
         /\ InSpec(p, m) => InSpec(p, p.members) /\ p.members = m
         /\ Listing(p, m) => Listing(p, p.members) /\ p.members = m
         /\ Reporting(p, m) => Reporting(p, p.members) /\ p.members = m
BY DEF Blank, Whole, InSpec, Listing, Reporting, Is

\* A callback that prints nothing.
LEMMA SilentAt ==
  ASSUME printer' = Fresh
  PROVE  /\ Blank(printer, printer.members) => Blank(printer', printer'.members)
         /\ Whole(printer, printer.members) => Whole(printer', printer'.members)
         /\ InSpec(printer, printer.members) => InSpec(printer', printer'.members)
         /\ Listing(printer, printer.members) => Listing(printer', printer'.members)
         /\ Reporting(printer, printer.members) => Reporting(printer', printer'.members)
BY FreshAt, Own

\* A step that asks for nothing and prints no numbers.
LEMMA Quiet ==
  ASSUME Accounted, AllAnswered, printer'.members = <<>>,
         UNCHANGED <<group_has_results, group_all_host_names_found, group_filters_hit,
                     flatten_results, asked, answered>>,
         InGroup' \/ InHostNames' => InGroup \/ InHostNames
  PROVE  Accounted' /\ AllAnswered' /\ HitsByAllHostnames'
<1>1. HitByAll' = HitByAll
  BY DEF HitByAll
<1>2. \A h : Found(h)' = Found(h)
  BY DEF Found, Flattened
<1>3. Accounted'
  BY <1>1, <1>2 DEF Accounted
<1>4. AllAnswered'
  BY <1>2 DEF AllAnswered
<1>5. HitsByAllHostnames'
  <2>1. Len(printer'.members) = 0
    BY EmptySeq
  <2>2. 1..Len(printer'.members) = {}
    BY <2>1
  <2>3. QED
    BY <2>2 DEF HitsByAllHostnames
<1>6. QED
  BY <1>3, <1>4, <1>5

\* What is printed for a hash that was found, and what is remembered.
LEMMA ProcessFound ==
  ASSUME Typed, GroupPrinted, NEW h \in Hashes, Process(h),
         host_name_key \in Names, Found(h) > 0
  PROVE  /\ Reporting(printer', printer'.members)
         /\ printer'.members = IF Kind[host_name_key] = "plain"
                               THEN <<[key |-> host_name_key, value |-> Found(h)]>> ELSE <<>>
<1> DEFINE opened == IF group_has_results THEN Fresh ELSE GroupOpened(Fresh)
           e == <<>>
           rec == [key |-> host_name_key, value |-> Found(h)]
<1>1. printer' = json_printer_object_pair_uint(opened, host_name_key, Found(h))
  BY DEF Process, Emit, Found
<1>2. PICK f \in BOOLEAN, x \in {"object", "member"} :
        Is(opened, S5, f, Append(R4, x), e) /\ InObject(f, x)
  <2>1. CASE group_has_results
    <3>1. Reporting(Fresh, e)
      BY <2>1, FreshAt DEF GroupPrinted
    <3>2. Is(opened, S5, FALSE, Append(R4, "member"), e)
      BY <2>1, <3>1 DEF Reporting, R5
    <3>3. QED
      BY <3>2, ArePlaces
  <2>2. CASE ~group_has_results
    <3>1. Listing(Fresh, e)
      BY <2>2, FreshAt DEF GroupPrinted
    <3>2. Is(opened, S5, TRUE, Append(R4, "object"), e)
      BY <2>2, <3>1, GroupBegins
    <3>3. QED
      BY <3>2, ArePlaces
  <2>3. QED
    BY <2>1, <2>2
<1>3. e \in Seq(Members) /\ x \in Places
  BY EmptySeq, ArePlaces
<1>4. Found(h) \in Nat
  BY FoundTyped
<1> HIDE DEF opened
<1>5. Reporting(json_printer_object_pair_uint(opened, host_name_key, Found(h)),
                IF Kind[host_name_key] = "plain" THEN Append(e, rec) ELSE e)
  BY <1>2, <1>3, <1>4, HostNamePrinted
<1>6. Append(e, rec) = <<rec>>
  OBVIOUS
<1>7. QED
  BY <1>1, <1>5, <1>6, Own

\* The answers after it.
LEMMA ProcessAnswers ==
  ASSUME Typed, GroupPrinted, AllAnswered, NEW h \in Hashes, Process(h),
         host_name_key \in Names, flatten_results' = flatten_results
  PROVE  AllAnswered' /\ answered' \subseteq [key : Names, value : Nat] /\ HitsByAllHostnames'
<1> DEFINE k == host_name_key
           rec == [key |-> k, value |-> Found(h)]
           Q(b) == Kind[b[1]] = "plain" /\ Found(b[2]) > 0
           img(a) == [key |-> a[1], value |-> Found(a[2])]
<1>1. \A g : Found(g)' = Found(g)
  BY DEF Found, Flattened
<1>2. asked' = asked \cup {<<k, h>>} /\ <<k, h>>[1] = k /\ <<k, h>>[2] = h
  BY DEF Process
<1>3. answered' = answered \cup {printer'.members[t] : t \in 1..Len(printer'.members)}
  BY DEF Process
<1>4. Found(h) \in Nat
  BY FoundTyped
<1>5. /\ answered' = answered \cup (IF Kind[k] = "plain" /\ Found(h) > 0 THEN {rec} ELSE {})
      /\ \A t \in 1..Len(printer'.members) : printer'.members[t].key = k
  <2>1. CASE Found(h) > 0 /\ Kind[k] = "plain"
    <3>1. printer'.members = <<rec>>
      BY <2>1, ProcessFound
    <3>2. Len(<<rec>>) = 1 /\ <<rec>>[1] = rec /\ 1..1 = {1} /\ rec.key = k
      OBVIOUS
    <3> HIDE DEF rec
    <3>3. {printer'.members[t] : t \in 1..Len(printer'.members)} = {rec}
      BY <3>1, <3>2
    <3>4. QED
      BY <1>3, <2>1, <3>1, <3>2, <3>3
  <2>2. CASE ~(Found(h) > 0 /\ Kind[k] = "plain")
    <3>1. printer'.members = <<>>
      <4>1. CASE Found(h) > 0
        BY <2>2, <4>1, ProcessFound
      <4>2. CASE ~(Found(h) > 0)
        <5>1. printer' = Fresh
          BY <4>2 DEF Process, Silent, Found
        <5>2. QED
          BY <5>1, FreshAt, Own DEF GroupPrinted
      <4>3. QED
        BY <4>1, <4>2
    <3>2. 1..Len(printer'.members) = {}
      BY <3>1
    <3>3. QED
      BY <1>3, <2>2, <3>2
  <2>3. QED
    BY <2>1, <2>2
<1>6. answered = {img(a) : a \in {b \in asked : Q(b)}}
  BY DEF AllAnswered
<1>7. AllAnswered'
  <2>1. answered' = {img(a) : a \in {b \in asked' : Q(b)}}
    <3>1. Q(<<k, h>>) <=> Kind[k] = "plain" /\ Found(h) > 0
      BY <1>2
    <3>2. img(<<k, h>>) = rec
      BY <1>2
    <3> HIDE DEF Q, img, rec
    <3>3. {img(a) : a \in {b \in asked' : Q(b)}} =
            {img(a) : a \in {b \in asked : Q(b)}} \cup (IF Q(<<k, h>>) THEN {img(<<k, h>>)} ELSE {})
      BY <1>2
    <3>4. QED
      BY <1>5, <1>6, <3>1, <3>2, <3>3
  <2>2. QED
    BY <1>1, <2>1 DEF AllAnswered
<1>8. answered' \subseteq [key : Names, value : Nat]
  <2>1. rec \in [key : Names, value : Nat]
    BY <1>4
  <2>2. QED
    BY <1>5, <2>1 DEF Typed
<1>9. HitsByAllHostnames'
  <2>1. k # "hits_by_all_hostnames"
    BY SearchAssumption
  <2>2. QED
    BY <1>5, <2>1 DEF HitsByAllHostnames
<1>10. QED
  BY <1>7, <1>8, <1>9

\* The group's flags and filters after it.
LEMMA ProcessAccounts ==
  ASSUME Typed, Accounted, InHostNames, NEW h \in Hashes, Process(h),
         flatten_results' = flatten_results
  PROVE  Accounted'
<1> DEFINE k == host_name_key
<1>1. \A g : Found(g)' = Found(g)
  BY DEF Found, Flattened
<1>2. asked' = asked \cup {<<k, h>>} /\ <<k, h>>[1] = k /\ <<k, h>>[2] = h
  BY DEF Process
<1>3. /\ group_has_results <=> \E a \in asked : Found(a[2]) > 0
      /\ group_all_host_names_found <=> \A a \in asked : Found(a[2]) > 0
      /\ group_all_host_names_found /\ group_has_results => group_filters_hit = HitByAll
  BY DEF Accounted
<1>4. HitByAll' = HitByAll \cap Hits[h]
  BY <1>2, HitByMore
<1>5. CASE Found(h) > 0
  <2>1. /\ group_has_results' = TRUE
        /\ group_all_host_names_found' = group_all_host_names_found
        /\ group_filters_hit' = IF IntoHostName THEN group_filters_hit \cap Hits[h]
                                ELSE IF IntoGroup THEN Hits[h] ELSE group_filters_hit
    BY <1>5 DEF Process, Found
  <2>2. \E a \in asked' : Found(a[2]) > 0
    BY <1>2, <1>5
  <2>3. group_all_host_names_found' <=> \A a \in asked' : Found(a[2]) > 0
    BY <1>2, <1>3, <1>5, <2>1
  <2>4. ASSUME group_all_host_names_found
        PROVE  group_filters_hit' = HitByAll'
    <3>1. CASE group_has_results
      BY <1>3, <1>4, <2>1, <2>4, <3>1 DEF IntoHostName
    <3>2. CASE ~group_has_results
      <4>1. asked = {}
        BY <1>3, <2>4, <3>2
      <4>2. HitByAll = 1..number_of_filters
        BY <4>1 DEF HitByAll
      <4>3. Hits[h] \in SUBSET (1..number_of_filters)
        BY FoundTyped
      <4>4. group_filters_hit' = Hits[h]
        BY <2>1, <2>4, <3>2 DEF IntoHostName, IntoGroup
      <4>5. QED
        BY <1>4, <4>2, <4>3, <4>4
    <3>3. QED
      BY <3>1, <3>2
  <2>5. QED
    BY <1>1, <2>1, <2>2, <2>3, <2>4 DEF Accounted
<1>6. CASE ~(Found(h) > 0)
  <2>1. group_has_results' = group_has_results /\ group_all_host_names_found' = FALSE
    BY <1>6 DEF Process, Found
  <2>2. group_has_results <=> \E a \in asked' : Found(a[2]) > 0
    BY <1>2, <1>3, <1>6
  <2>3. ~(\A a \in asked' : Found(a[2]) > 0)
    BY <1>2, <1>6
  <2>4. QED
    BY <1>1, <2>1, <2>2, <2>3 DEF Accounted
<1>7. QED
  BY <1>5, <1>6

\* The place in the job, by the state of the context.
LEMMA Where ==
  ASSUME Located
  PROVE  /\ state = "INIT" =>
              \/ nest \in {N1("top"), N1("scalar")} /\ Blank(printer, printer.members)
              \/ nest = N1("object") /\ Whole(printer, printer.members)
         /\ InSearchSpec => (\E x \in KeyOrValue : nest = N2(x)) /\ InSpec(printer, printer.members)
         /\ state = "GROUPS_ARRAY" => nest = N3("elem") /\ Listing(printer, printer.members)
         /\ InGroup => (\E x \in KeyOrValue : nest = N4(x)) /\ GroupPrinted
         /\ InHostNames => (\E x \in KeyOrValue : nest = N5(x)) /\ GroupPrinted
         /\ state = "INIT" \/ InSearchSpec \/ state = "GROUPS_ARRAY" \/ InGroup \/ InHostNames
BY DEF Located, InSearchSpec, InGroup, InHostNames

\* A value, in each place: where the parser goes on.
LEMMA ValueIn ==
  ASSUME ValueMayFollow, NEW kind \in Nesting
  PROVE  /\ \A x \in Nesting : nest = N1(x) => x = "top" \/ x = "val" \/ x = "elem"
         /\ nest = N1("top") => AfterValue(kind) = N1(kind)
         /\ \A x \in KeyOrValue : nest = N2(x) => AfterValue(kind) = N2("key")
         /\ nest = N3("elem") => AfterValue(kind) = N3("elem")
         /\ \A x \in KeyOrValue : nest = N4(x) => AfterValue(kind) = N4("key")
         /\ \A x \in KeyOrValue : nest = N5(x) => AfterValue(kind) = N5("key")
<1>0. ASSUME NEW s \in Seq(Nesting), NEW x \in Nesting, nest = Append(s, x)
      PROVE  /\ x \in {"top", "val", "elem"}
             /\ AfterValue(kind) = Append(s, CASE x = "top" -> kind [] x = "val" -> "key"
                                               [] OTHER -> "elem")
  BY <1>0, NestTop DEF ValueMayFollow
<1>1. \A x \in KeyOrValue : x \in Nesting
  BY AreNestings DEF KeyOrValue
<1>2. \A x \in Nesting : nest = N1(x) => x = "top" \/ x = "val" \/ x = "elem"
  BY <1>0, NestShapes DEF N1
<1>3. nest = N1("top") => AfterValue(kind) = N1(kind)
  BY <1>0, NestShapes, AreNestings DEF N1
<1>4. ASSUME NEW s \in Seq(Nesting), NEW x \in KeyOrValue, nest = Append(s, x)
      PROVE  AfterValue(kind) = Append(s, "key")
  <2>1. x = "val"
    BY <1>0, <1>1, <1>4 DEF KeyOrValue
  <2>2. QED
    BY <1>0, <1>1, <1>4, <2>1
<1>5. /\ N1("object") \in Seq(Nesting) /\ N2("key") \in Seq(Nesting)
      /\ N3("elem") \in Seq(Nesting) /\ N4("key") \in Seq(Nesting)
  BY NestShapes, AreNestings
<1>6. \A x \in KeyOrValue : nest = N2(x) => AfterValue(kind) = N2("key")
  BY <1>4, <1>5 DEF N2
<1>7. nest = N3("elem") => AfterValue(kind) = N3("elem")
  BY <1>0, <1>5, AreNestings DEF N3
<1>8. \A x \in KeyOrValue : nest = N4(x) => AfterValue(kind) = N4("key")
  BY <1>4, <1>5 DEF N4
<1>9. \A x \in KeyOrValue : nest = N5(x) => AfterValue(kind) = N5("key")
  BY <1>4, <1>5 DEF N5
<1>10. QED
  BY <1>2, <1>3, <1>6, <1>7, <1>8, <1>9

\* A key, and the end of an object or an array.
LEMMA KeyIn ==
  ASSUME Here = "key"
  PROVE  /\ \A x \in KeyOrValue : nest = N2(x) =>
              [nest EXCEPT ![Len(nest)] = "val"] = N2("val") /\ Closed = N1("object")
         /\ \A x \in KeyOrValue : nest = N4(x) =>
              [nest EXCEPT ![Len(nest)] = "val"] = N4("val") /\ Closed = N3("elem")
         /\ \A x \in KeyOrValue : nest = N5(x) =>
              [nest EXCEPT ![Len(nest)] = "val"] = N5("val") /\ Closed = N4("key")
<1>1. ASSUME NEW s \in Seq(Nesting), NEW x \in KeyOrValue, nest = Append(s, x)
      PROVE  [nest EXCEPT ![Len(nest)] = "val"] = Append(s, "val") /\ Closed = s
  <2>1. x \in Nesting /\ "val" \in Nesting
    BY AreNestings DEF KeyOrValue
  <2>2. QED
    BY <1>1, <2>1, NestTop
<1>2. /\ N1("object") \in Seq(Nesting) /\ N2("key") \in Seq(Nesting)
      /\ N3("elem") \in Seq(Nesting) /\ N4("key") \in Seq(Nesting)
  BY NestShapes, AreNestings
<1>3. QED
  BY <1>1, <1>2 DEF N2, N4, N5

\* The parser's place is that of an object's key only in an object.
LEMMA HereIs ==
  /\ \A x \in Nesting : nest = N1(x) => Here = x
  /\ \A x \in KeyOrValue : nest = N2(x) => Here = x
  /\ nest = N3("elem") => Here = "elem" /\ Closed = N2("key")
  /\ \A x \in KeyOrValue : nest = N4(x) => Here = x
  /\ \A x \in KeyOrValue : nest = N5(x) => Here = x
<1>1. /\ <<>> \in Seq(Nesting) /\ N1("object") \in Seq(Nesting) /\ N2("key") \in Seq(Nesting)
      /\ N3("elem") \in Seq(Nesting) /\ N4("key") \in Seq(Nesting)
  BY NestShapes, AreNestings
<1>2. \A x \in KeyOrValue : x \in Nesting
  BY AreNestings DEF KeyOrValue
<1>3. \A x \in Nesting : nest = N1(x) => Here = x
  BY <1>1, NestTop DEF N1
<1>4. \A x \in KeyOrValue : nest = N2(x) => Here = x
  BY <1>1, <1>2, NestTop DEF N2
<1>5. nest = N3("elem") => Here = "elem" /\ Closed = N2("key")
  BY <1>1, AreNestings, NestTop DEF N3
<1>6. \A x \in KeyOrValue : nest = N4(x) => Here = x
  BY <1>1, <1>2, NestTop DEF N4
<1>7. \A x \in KeyOrValue : nest = N5(x) => Here = x
  BY <1>1, <1>2, NestTop DEF N5
<1>8. QED
  BY <1>3, <1>4, <1>5, <1>6, <1>7

\* The program ends with exit(1).
LEMMA RefuseStep ==
  ASSUME SearchInv, Refuse
  PROVE  SearchInv'
<1>1. /\ status' = "failed"
      /\ UNCHANGED <<nest, state, group_id, group_has_results, group_all_host_names_found,
                     group_filters_hit, host_name_filters_hit, host_name_key, flatten_results,
                     printer, asked, answered>>
  BY DEF Refuse, groupVars
<1>2. Typed'
  BY <1>1 DEF SearchInv, Typed
<1>3. /\ InSearchSpec' = InSearchSpec /\ InGroup' = InGroup /\ InHostNames' = InHostNames
      /\ GroupPrinted' = GroupPrinted
  BY <1>1 DEF InSearchSpec, InGroup, InHostNames, GroupPrinted
<1>4. Located'
  BY <1>1, <1>3 DEF SearchInv, Located
<1>5. HitByAll' = HitByAll /\ \A h : Found(h)' = Found(h)
  BY <1>1 DEF HitByAll, Found, Flattened
<1>6. Accounted' /\ AllAnswered'
  BY <1>1, <1>3, <1>5 DEF SearchInv, Accounted, AllAnswered
<1>7. HitsByAllHostnames'
  <2>1. Flattened(Cardinality(HitByAll))' = Flattened(Cardinality(HitByAll))
    BY <1>1, <1>5 DEF Flattened
  <2>2. QED
    BY <1>1, <2>1 DEF SearchInv, HitsByAllHostnames
<1>8. Ended'
  BY <1>1 DEF Ended
<1>9. QED
  BY <1>2, <1>4, <1>6, <1>7, <1>8 DEF SearchInv

\* What a callback without output leaves.
LEMMA SilentKeeps ==
  ASSUME Silent, GroupPrinted, group_has_results' = group_has_results
  PROVE  GroupPrinted' /\ printer'.members = <<>>
<1>1. printer' = Fresh
  BY DEF Silent
<1>2. GroupPrinted'
  BY <1>1, SilentAt DEF GroupPrinted
<1>3. printer'.members = <<>>
  BY <1>1, FreshAt, Own DEF GroupPrinted
<1>4. QED
  BY <1>2, <1>3

LEMMA IntegerStep ==
  ASSUME SearchInv, NEW id \in Ids, search_spec_integer(id)
  PROVE  SearchInv'
<1>1. CASE state # "GROUP_EXPECT_ID"
  BY <1>1, RefuseStep DEF search_spec_integer
<1>2. CASE state = "GROUP_EXPECT_ID"
  <2>1. /\ ValueMayFollow /\ nest' = AfterValue("scalar") /\ group_id' = id /\ state' = "GROUP"
        /\ Silent
        /\ UNCHANGED <<group_has_results, group_all_host_names_found, group_filters_hit,
                       host_name_filters_hit, host_name_key, flatten_results, asked, answered>>
    BY <1>2 DEF search_spec_integer
  <2>2. InGroup /\ InGroup' /\ ~InHostNames'
    BY <1>2, <2>1 DEF InGroup, InHostNames
  <2>3. PICK x \in KeyOrValue : nest = N4(x)
    BY <2>2, Where DEF SearchInv
  <2>4. GroupPrinted
    BY <2>2, Where DEF SearchInv
  <2>5. GroupPrinted' /\ printer'.members = <<>>
    BY <2>1, <2>4, SilentKeeps
  <2>6. nest' = N4("key")
    BY <2>1, <2>3, ValueIn, AreNestings
  <2>7. Located'
    BY <2>2, <2>5, <2>6 DEF Located, KeyOrValue
  <2>8. Accounted' /\ AllAnswered' /\ HitsByAllHostnames'
    BY <2>1, <2>2, <2>5, Quiet DEF SearchInv
  <2>9. Typed'
    BY <2>1, SearchAssumption DEF SearchInv, Typed, Silent
  <2>10. Ended'
    BY <2>1 DEF Ended, Silent, ValueMayFollow
  <2>11. QED
    BY <2>7, <2>8, <2>9, <2>10 DEF SearchInv
<1>3. QED
  BY <1>1, <1>2

LEMMA IgnoredStep ==
  ASSUME SearchInv, NoCallback
  PROVE  SearchInv'
<1>1. /\ ValueMayFollow /\ nest' = AfterValue("scalar") /\ Silent
      /\ UNCHANGED <<state, group_id, group_has_results, group_all_host_names_found,
                     group_filters_hit, host_name_filters_hit, host_name_key, flatten_results,
                     asked, answered>>
  BY DEF NoCallback, groupVars
<1>2. printer' = Fresh /\ status' = status /\ status = "running"
  BY <1>1 DEF Silent, ValueMayFollow
<1>3. /\ InSearchSpec' = InSearchSpec /\ InGroup' = InGroup /\ InHostNames' = InHostNames
  BY <1>1 DEF InSearchSpec, InGroup, InHostNames
<1>4. Located'
  <2>1. CASE state = "INIT"
    <3>1. Blank(printer, printer.members) /\ nest = N1("top")
      <4>1. \A x \in Nesting : nest = N1(x) => x = "top" \/ x = "val" \/ x = "elem"
        BY <1>1, ValueIn, AreNestings
      <4>2. nest # N1("scalar") /\ nest # N1("object")
        BY <4>1, AreNestings
      <4>3. QED
        BY <2>1, <4>2, Where DEF SearchInv
    <3>2. nest' = N1("scalar")
      BY <1>1, <3>1, ValueIn, AreNestings
    <3>3. Blank(printer', printer'.members)
      BY <1>2, <3>1, SilentAt
    <3>4. QED
      BY <1>1, <2>1, <3>2, <3>3 DEF Located
  <2>2. CASE InSearchSpec
    <3>1. nest' = N2("key")
      BY <1>1, <2>2, Where, ValueIn, AreNestings DEF SearchInv
    <3>2. InSpec(printer', printer'.members)
      BY <1>2, <2>2, Where, SilentAt DEF SearchInv
    <3>3. QED
      BY <1>3, <2>2, <3>1, <3>2 DEF Located, KeyOrValue
  <2>3. CASE state = "GROUPS_ARRAY"
    <3>1. nest' = N3("elem")
      BY <1>1, <2>3, Where, ValueIn, AreNestings DEF SearchInv
    <3>2. Listing(printer', printer'.members)
      BY <1>2, <2>3, Where, SilentAt DEF SearchInv
    <3>3. QED
      BY <1>1, <2>3, <3>1, <3>2 DEF Located
  <2>4. CASE InGroup
    <3>1. nest' = N4("key")
      BY <1>1, <2>4, Where, ValueIn, AreNestings DEF SearchInv
    <3>2. GroupPrinted'
      BY <1>1, <2>4, Where, SilentKeeps DEF SearchInv
    <3>3. QED
      BY <1>3, <2>4, <3>1, <3>2 DEF Located, KeyOrValue
  <2>5. CASE InHostNames
    <3>1. nest' = N5("key")
      BY <1>1, <2>5, Where, ValueIn, AreNestings DEF SearchInv
    <3>2. GroupPrinted'
      BY <1>1, <2>5, Where, SilentKeeps DEF SearchInv
    <3>3. QED
      BY <1>3, <2>5, <3>1, <3>2 DEF Located, KeyOrValue
  <2>6. QED
    BY <2>1, <2>2, <2>3, <2>4, <2>5, Where DEF SearchInv
<1>5. printer'.members = <<>>
  BY <1>2, FreshAt, Own, Where DEF SearchInv, GroupPrinted
<1>6. Accounted' /\ AllAnswered' /\ HitsByAllHostnames'
  BY <1>1, <1>3, <1>5, Quiet DEF SearchInv
<1>7. Typed'
  BY <1>1, <1>2 DEF SearchInv, Typed
<1>8. Ended'
  BY <1>2 DEF Ended
<1>9. QED
  BY <1>4, <1>6, <1>7, <1>8 DEF SearchInv

LEMMA StringStep ==
  ASSUME SearchInv, NEW text, search_spec_string(text)
  PROVE  SearchInv'
<1>1. CASE state # "HOST_NAME_MAP_EXPECT_VALUE"
  BY <1>1, RefuseStep DEF search_spec_string
<1>2. CASE state = "HOST_NAME_MAP_EXPECT_VALUE"
  <2>1. /\ ValueMayFollow /\ nest' = AfterValue("scalar") /\ state' = "HOST_NAME_MAP"
        /\ UNCHANGED <<group_id, host_name_key, flatten_results>>
        /\ \/ text \in Hashes /\ Process(text)
           \/ /\ Silent
              /\ UNCHANGED <<group_has_results, group_all_host_names_found,
                             group_filters_hit, host_name_filters_hit, asked, answered>>
    BY <1>2 DEF search_spec_string
  <2>2. InHostNames /\ InHostNames' /\ ~InGroup'
    BY <1>2, <2>1 DEF InGroup, InHostNames
  <2>3. PICK x \in KeyOrValue : nest = N5(x)
    BY <2>2, Where DEF SearchInv
  <2>4. GroupPrinted
    BY <2>2, Where DEF SearchInv
  <2>5. nest' = N5("key")
    BY <2>1, <2>3, ValueIn, AreNestings
  <2>6. host_name_key \in Names /\ status = "running"
    BY <1>2, <2>1 DEF SearchInv, Typed, ValueMayFollow
  <2>7. CASE Silent /\ UNCHANGED <<group_has_results, group_all_host_names_found,
                                   group_filters_hit, host_name_filters_hit, asked, answered>>
    <3>1. GroupPrinted' /\ printer'.members = <<>>
      BY <2>4, <2>7, SilentKeeps
    <3>2. Located'
      BY <2>2, <2>5, <3>1 DEF Located, KeyOrValue
    <3>3. Accounted' /\ AllAnswered' /\ HitsByAllHostnames'
      BY <2>1, <2>2, <2>7, <3>1, Quiet DEF SearchInv
    <3>4. Typed'
      BY <2>1, <2>7 DEF SearchInv, Typed, Silent
    <3>5. Ended'
      BY <2>6, <2>7 DEF Ended, Silent
    <3>6. QED
      BY <3>2, <3>3, <3>4, <3>5 DEF SearchInv
  <2>8. CASE text \in Hashes /\ Process(text)
    <3>1. AllAnswered' /\ answered' \subseteq [key : Names, value : Nat] /\ HitsByAllHostnames'
      BY <2>1, <2>4, <2>6, <2>8, ProcessAnswers DEF SearchInv
    <3>2. Accounted'
      BY <2>1, <2>2, <2>8, ProcessAccounts DEF SearchInv
    <3>3. GroupPrinted' /\ group_has_results' \in BOOLEAN /\ status' \in {"running", "failed"}
      <4>1. CASE Found(text) > 0
        <5>1. Reporting(printer', printer'.members)
          BY <2>4, <2>6, <2>8, <4>1, ProcessFound DEF SearchInv
        <5>2. group_has_results' = TRUE /\ status' \in {"running", "failed"}
          BY <2>8, <4>1 DEF Process, Emit, Found
        <5>3. QED
          BY <5>1, <5>2 DEF GroupPrinted
      <4>2. CASE ~(Found(text) > 0)
        <5>1. Silent /\ group_has_results' = group_has_results
          BY <2>8, <4>2 DEF Process, Found
        <5>2. GroupPrinted'
          BY <2>4, <5>1, SilentKeeps
        <5>3. QED
          BY <2>6, <5>1, <5>2 DEF Silent, SearchInv, Typed
      <4>3. QED
        BY <4>1, <4>2
    <3>4. Located'
      BY <2>2, <2>5, <3>3 DEF Located, KeyOrValue
    <3>5. Typed'
      <4>1. Hits[text] \in SUBSET (1..number_of_filters)
        BY <2>8, FoundTyped
      <4>2. host_name_filters_hit' \in {Hits[text], host_name_filters_hit}
        BY <2>8 DEF Process
      <4>3. group_filters_hit' \in {Hits[text], group_filters_hit, group_filters_hit \cap Hits[text]}
        BY <2>8 DEF Process
      <4>4. group_all_host_names_found' \in {FALSE, group_all_host_names_found}
        BY <2>8 DEF Process
      <4>5. asked' = asked \cup {<<host_name_key, text>>}
        BY <2>8 DEF Process
      <4>6. asked' \subseteq Names \X Hashes
        <5>1. <<host_name_key, text>> \in Names \X Hashes
          BY <2>6, <2>8
        <5>2. asked \subseteq Names \X Hashes
          BY DEF SearchInv, Typed
        <5>3. QED
          BY <4>5, <5>1, <5>2
      <4>7. /\ host_name_filters_hit' \subseteq 1..number_of_filters
            /\ group_filters_hit' \subseteq 1..number_of_filters
        BY <4>1, <4>2, <4>3 DEF SearchInv, Typed
      <4>8. group_all_host_names_found' \in BOOLEAN
        BY <4>4 DEF SearchInv, Typed
      <4>9. /\ status' \in {"running", "done", "failed"} /\ group_id' \in Nat
            /\ host_name_key' \in Names \cup {""} /\ flatten_results' \in BOOLEAN
            /\ state' # "HOST_NAME_MAP_EXPECT_VALUE"
        BY <2>1, <3>3 DEF SearchInv, Typed
      <4>10. QED
        BY <3>1, <3>3, <4>6, <4>7, <4>8, <4>9 DEF Typed
    <3>6. Ended'
      BY <3>3 DEF Ended
    <3>7. QED
      BY <3>1, <3>2, <3>4, <3>5, <3>6 DEF SearchInv
  <2>9. QED
    BY <2>1, <2>7, <2>8
<1>3. QED
  BY <1>1, <1>2

LEMMA KeyStep ==
  ASSUME SearchInv, NEW k \in Keys, search_spec_map_key(k)
  PROVE  SearchInv'
<1>1. CASE state \notin {"SEARCH_SPEC", "GROUP", "HOST_NAME_MAP"}
  BY <1>1, RefuseStep DEF search_spec_map_key
<1>2. CASE state \in {"SEARCH_SPEC", "GROUP", "HOST_NAME_MAP"}
  <2>1. /\ status = "running" /\ Here = "key"
        /\ state = "HOST_NAME_MAP" => k \in Names
        /\ nest' = [nest EXCEPT ![Len(nest)] = "val"]
        /\ state' = KeyLeadsTo(k)
        /\ host_name_key' = IF state = "HOST_NAME_MAP" THEN k ELSE host_name_key
        /\ Silent
        /\ UNCHANGED <<group_id, group_has_results, group_all_host_names_found,
                       group_filters_hit, host_name_filters_hit, flatten_results,
                       asked, answered>>
    BY <1>2 DEF search_spec_map_key, groupVars
  <2>2. printer' = Fresh /\ status' = status
    BY <2>1 DEF Silent
  <2>3. /\ state = "SEARCH_SPEC" => InSearchSpec /\ InSearchSpec' /\ ~InGroup' /\ ~InHostNames'
        /\ state = "GROUP" => InGroup /\ InGroup' /\ ~InHostNames'
        /\ state = "HOST_NAME_MAP" => InHostNames /\ InHostNames' /\ ~InGroup'
    BY <2>1 DEF KeyLeadsTo, InSearchSpec, InGroup, InHostNames
  <2>4. Located'
    <3>1. CASE state = "SEARCH_SPEC"
      <4>1. nest' = N2("val")
        BY <2>1, <2>3, <3>1, Where, KeyIn DEF SearchInv
      <4>2. InSpec(printer', printer'.members)
        BY <2>2, <2>3, <3>1, Where, SilentAt DEF SearchInv
      <4>3. QED
        BY <2>3, <3>1, <4>1, <4>2 DEF Located, KeyOrValue
    <3>2. CASE state = "GROUP"
      <4>1. nest' = N4("val")
        BY <2>1, <2>3, <3>2, Where, KeyIn DEF SearchInv
      <4>2. GroupPrinted'
        BY <2>1, <2>3, <3>2, Where, SilentKeeps DEF SearchInv
      <4>3. QED
        BY <2>3, <3>2, <4>1, <4>2 DEF Located, KeyOrValue
    <3>3. CASE state = "HOST_NAME_MAP"
      <4>1. nest' = N5("val")
        BY <2>1, <2>3, <3>3, Where, KeyIn DEF SearchInv
      <4>2. GroupPrinted'
        BY <2>1, <2>3, <3>3, Where, SilentKeeps DEF SearchInv
      <4>3. QED
        BY <2>3, <3>3, <4>1, <4>2 DEF Located, KeyOrValue
    <3>4. QED
      BY <1>2, <3>1, <3>2, <3>3
  <2>5. printer'.members = <<>>
    BY <2>2, FreshAt, Own, Where DEF SearchInv, GroupPrinted
  <2>6. InGroup' \/ InHostNames' => InGroup \/ InHostNames
    BY <1>2, <2>3
  <2>7. Accounted' /\ AllAnswered' /\ HitsByAllHostnames'
    BY <2>1, <2>5, <2>6, Quiet DEF SearchInv
  <2>8. /\ state' = "HOST_NAME_MAP_EXPECT_VALUE" => host_name_key' \in Names
        /\ host_name_key' \in Names \cup {""}
    BY <1>2, <2>1 DEF KeyLeadsTo, SearchInv, Typed
  <2>9. Typed'
    BY <2>1, <2>2, <2>8 DEF SearchInv, Typed
  <2>10. Ended'
    BY <2>1, <2>2 DEF Ended
  <2>11. QED
    BY <2>4, <2>7, <2>9, <2>10 DEF SearchInv
<1>3. QED
  BY <1>1, <1>2

LEMMA StartMapStep ==
  ASSUME SearchInv, search_spec_start_map
  PROVE  SearchInv'
<1>1. ValueMayFollow /\ nest' = Append(AfterValue("object"), "key")
      /\ UNCHANGED <<host_name_key, flatten_results>>
  BY DEF search_spec_start_map, Opened
<1>2. "object" \in Nesting /\ "key" \in KeyOrValue
  BY DEF Nesting, KeyOrValue
<1>3. CASE state = "INIT"
  <2>1. /\ Emit(add_general_information(json_printer_object_begin(Fresh)))
        /\ state' = "SEARCH_SPEC"
        /\ UNCHANGED <<group_id, group_has_results, group_all_host_names_found,
                       group_filters_hit, host_name_filters_hit, asked, answered>>
    BY <1>3 DEF search_spec_start_map, groupVars
  <2>2. Blank(printer, printer.members) /\ nest = N1("top")
    <3>1. \A x \in Nesting : nest = N1(x) => x = "top" \/ x = "val" \/ x = "elem"
      BY <1>1, <1>2, ValueIn
    <3>2. nest # N1("scalar") /\ nest # N1("object")
      BY <3>1, AreNestings
    <3>3. QED
      BY <1>3, <3>2, Where DEF SearchInv
  <2>3. nest' = N2("key")
    BY <1>1, <1>2, <2>2, ValueIn DEF N2
  <2>4. InSpec(printer', <<>>) /\ status' \in {"running", "failed"}
    <3>1. Blank(Fresh, <<>>)
      BY <2>2, FreshAt
    <3>2. QED
      BY <2>1, <3>1, JobBegins DEF Emit
  <2>5. InSpec(printer', printer'.members) /\ printer'.members = <<>>
    BY <2>4, Own
  <2>6. InSearchSpec' /\ ~InGroup' /\ ~InHostNames'
    BY <2>1 DEF InSearchSpec, InGroup, InHostNames
  <2>7. Located'
    BY <1>2, <2>3, <2>5, <2>6 DEF Located
  <2>8. Accounted' /\ AllAnswered' /\ HitsByAllHostnames'
    BY <1>1, <2>1, <2>5, <2>6, Quiet DEF SearchInv
  <2>9. Typed'
    BY <1>1, <2>1, <2>4 DEF SearchInv, Typed
  <2>10. Ended'
    BY <2>4 DEF Ended
  <2>11. QED
    BY <2>7, <2>8, <2>9, <2>10 DEF SearchInv
<1>4. CASE state = "GROUPS_ARRAY"
  <2>1. GroupReset /\ Silent /\ state' = "GROUP"
    BY <1>4 DEF search_spec_start_map
  <2>2. /\ group_id' = 0 /\ group_has_results' = FALSE /\ group_all_host_names_found' = TRUE
        /\ asked' = {} /\ answered' = {}
        /\ UNCHANGED <<group_filters_hit, host_name_filters_hit>>
        /\ printer' = Fresh /\ status' = status
    BY <2>1 DEF GroupReset, Silent
  <2>3. nest' = N4("key")
    BY <1>1, <1>2, <1>4, Where, ValueIn DEF SearchInv, N4
  <2>4. Listing(printer', printer'.members) /\ printer'.members = <<>>
    BY <1>4, <2>2, Where, FreshAt, Own DEF SearchInv
  <2>5. InGroup'
    BY <2>1 DEF InGroup
  <2>6. Located'
    BY <1>2, <2>2, <2>3, <2>4, <2>5 DEF Located, GroupPrinted
  <2>7. Accounted' /\ AllAnswered'
    BY <2>2 DEF Accounted, AllAnswered
  <2>8. HitsByAllHostnames'
    <3>1. 1..Len(printer'.members) = {}
      BY <2>4
    <3>2. QED
      BY <3>1 DEF HitsByAllHostnames
  <2>9. Typed'
    BY <1>1, <2>1, <2>2 DEF SearchInv, Typed
  <2>10. Ended'
    BY <1>1, <2>2 DEF Ended, ValueMayFollow
  <2>11. QED
    BY <2>6, <2>7, <2>8, <2>9, <2>10 DEF SearchInv
<1>5. CASE state = "GROUP_EXPECT_HOST_NAME_MAP"
  <2>1. /\ Silent /\ state' = "HOST_NAME_MAP"
        /\ UNCHANGED <<group_id, group_has_results, group_all_host_names_found,
                       group_filters_hit, host_name_filters_hit, asked, answered>>
    BY <1>5 DEF search_spec_start_map, groupVars
  <2>2. InGroup /\ InHostNames'
    BY <1>5, <2>1 DEF InGroup, InHostNames
  <2>3. nest' = N5("key")
    BY <1>1, <1>2, <2>2, Where, ValueIn DEF SearchInv, N5
  <2>4. GroupPrinted' /\ printer'.members = <<>>
    BY <2>1, <2>2, Where, SilentKeeps DEF SearchInv
  <2>5. Located'
    BY <1>2, <2>2, <2>3, <2>4 DEF Located
  <2>6. Accounted' /\ AllAnswered' /\ HitsByAllHostnames'
    BY <1>1, <2>1, <2>2, <2>4, Quiet DEF SearchInv
  <2>7. Typed'
    BY <1>1, <2>1 DEF SearchInv, Typed, Silent
  <2>8. Ended'
    BY <1>1, <2>1 DEF Ended, ValueMayFollow, Silent
  <2>9. QED
    BY <2>5, <2>6, <2>7, <2>8 DEF SearchInv
<1>6. QED
  BY <1>3, <1>4, <1>5 DEF search_spec_start_map

\* The number that is printed at the end of a group is right.
LEMMA GroupResultPrinted ==
  ASSUME Typed, Accounted, InGroup, group_has_results, Reporting(printer, printer.members)
  PROVE  /\ Listing(GroupResult(Fresh), GroupResult(Fresh).members)
         /\ \A t \in 1..Len(GroupResult(Fresh).members) :
              GroupResult(Fresh).members[t].key = "hits_by_all_hostnames" =>
                GroupResult(Fresh).members[t].value = Flattened(Cardinality(HitByAll))
<1> DEFINE e == <<>>
           v == IF group_all_host_names_found THEN Flattened(Cardinality(group_filters_hit)) ELSE 0
           a == [key |-> "id", value |-> group_id]
           b == [key |-> "hits_by_all_hostnames", value |-> v]
           m == Append(Append(e, a), b)
<1>1. v = Flattened(Cardinality(HitByAll))
  BY GroupTotal
<1>2. HitByAll \in SUBSET (1..number_of_filters)
  BY DEF HitByAll
<1>3. v \in Nat
  BY <1>1, <1>2, FewHits, FlattenedTyped
<1>4. Reporting(Fresh, e) /\ e \in Seq(Members) /\ group_id \in Nat
  BY FreshAt, EmptySeq DEF Typed
<1>5. GroupResult(Fresh) =
        json_printer_object_end(json_printer_object_pair_uint(
          json_printer_object_pair_uint(json_printer_object_end(Fresh), "id", group_id),
          "hits_by_all_hostnames", v))
  BY DEF GroupResult
<1> HIDE DEF v, e
<1>6. Listing(GroupResult(Fresh), m)
  BY <1>3, <1>4, <1>5, GroupEnds
<1>7. Listing(GroupResult(Fresh), GroupResult(Fresh).members) /\ GroupResult(Fresh).members = m
  BY <1>6, Own
<1>8. Len(m) = 2 /\ m[1] = a /\ m[2] = b
  BY DEF e
<1>9. \A t \in 1..Len(m) : m[t] = a \/ m[t] = b
  BY <1>8
<1>10. /\ a.key = "id" /\ b.value = v
  OBVIOUS
<1> HIDE DEF m, a, b
<1>11. QED
  BY <1>1, <1>7, <1>9, <1>10

LEMMA EndMapStep ==
  ASSUME SearchInv, search_spec_end_map
  PROVE  SearchInv'
<1>1. /\ status = "running" /\ Here = "key" /\ nest' = Closed
      /\ UNCHANGED <<group_id, group_has_results, group_all_host_names_found,
                     group_filters_hit, host_name_filters_hit, host_name_key,
                     flatten_results, asked, answered>>
  BY DEF search_spec_end_map, groupVars
<1>2. "key" \in KeyOrValue
  BY DEF KeyOrValue
<1>3. CASE state = "SEARCH_SPEC"
  <2>1. Emit(json_printer_object_end(Fresh)) /\ state' = "INIT"
    BY <1>3 DEF search_spec_end_map
  <2>2. InSearchSpec
    BY <1>3 DEF InSearchSpec
  <2>3. nest' = N1("object")
    BY <1>1, <2>2, Where, KeyIn DEF SearchInv
  <2>4. Whole(printer', <<>>) /\ status' \in {"running", "failed"}
    <3>1. InSpec(Fresh, <<>>)
      BY <2>2, Where, FreshAt DEF SearchInv
    <3>2. QED
      BY <2>1, <3>1, JobEnds DEF Emit
  <2>5. Whole(printer', printer'.members) /\ printer'.members = <<>>
    BY <2>4, Own
  <2>6. ~InGroup' /\ ~InHostNames'
    BY <2>1 DEF InGroup, InHostNames
  <2>7. Located'
    BY <2>1, <2>3, <2>5 DEF Located
  <2>8. Accounted' /\ AllAnswered' /\ HitsByAllHostnames'
    BY <1>1, <2>5, <2>6, Quiet DEF SearchInv
  <2>9. Typed'
    BY <1>1, <2>1, <2>4 DEF SearchInv, Typed
  <2>10. Ended'
    BY <2>4 DEF Ended
  <2>11. QED
    BY <2>7, <2>8, <2>9, <2>10 DEF SearchInv
<1>4. CASE state = "GROUP"
  <2>1. /\ IF group_has_results THEN Emit(GroupResult(Fresh)) ELSE Silent
        /\ state' = "GROUPS_ARRAY"
    BY <1>4 DEF search_spec_end_map
  <2>2. InGroup /\ ~InGroup' /\ ~InHostNames'
    BY <1>4, <2>1 DEF InGroup, InHostNames
  <2>3. nest' = N3("elem") /\ GroupPrinted
    BY <1>1, <2>2, Where, KeyIn DEF SearchInv
  <2>4. Flattened(Cardinality(HitByAll))' = Flattened(Cardinality(HitByAll))
    BY <1>1 DEF Flattened, HitByAll
  <2>5. /\ Listing(printer', printer'.members) /\ status' \in {"running", "failed"}
        /\ HitsByAllHostnames'
    <3>1. CASE group_has_results
      <4>1. Reporting(printer, printer.members)
        BY <2>3, <3>1 DEF GroupPrinted
      <4>2. printer' = GroupResult(Fresh) /\ status' \in {"running", "failed"}
        BY <2>1, <3>1 DEF Emit
      <4>3. QED
        BY <2>2, <2>4, <3>1, <4>1, <4>2, GroupResultPrinted DEF SearchInv, HitsByAllHostnames
    <3>2. CASE ~group_has_results
      <4>1. printer' = Fresh /\ status' = status
        BY <2>1, <3>2 DEF Silent
      <4>2. Listing(printer', printer'.members) /\ printer'.members = <<>>
        BY <2>3, <3>2, <4>1, FreshAt, Own DEF GroupPrinted
      <4>3. 1..Len(printer'.members) = {}
        BY <4>2
      <4>4. HitsByAllHostnames'
        BY <4>3 DEF HitsByAllHostnames
      <4>5. QED
        BY <1>1, <4>1, <4>2, <4>4
    <3>3. QED
      BY <3>1, <3>2
  <2>6. Located'
    BY <2>1, <2>3, <2>5 DEF Located
  <2>7. Accounted' /\ AllAnswered'
    <3>1. \A h : Found(h)' = Found(h)
      BY <1>1 DEF Found, Flattened
    <3>2. QED
      BY <1>1, <2>2, <3>1 DEF Accounted, AllAnswered, SearchInv
  <2>8. Typed'
    BY <1>1, <2>1, <2>5 DEF SearchInv, Typed
  <2>9. Ended'
    BY <2>5 DEF Ended
  <2>10. QED
    BY <2>5, <2>6, <2>7, <2>8, <2>9 DEF SearchInv
<1>5. CASE state = "HOST_NAME_MAP"
  <2>1. Silent /\ state' = "GROUP"
    BY <1>5 DEF search_spec_end_map
  <2>2. InHostNames /\ InGroup'
    BY <1>5, <2>1 DEF InGroup, InHostNames
  <2>3. nest' = N4("key")
    BY <1>1, <2>2, Where, KeyIn DEF SearchInv
  <2>4. GroupPrinted' /\ printer'.members = <<>>
    BY <1>1, <2>1, <2>2, Where, SilentKeeps DEF SearchInv
  <2>5. Located'
    BY <1>2, <2>2, <2>3, <2>4 DEF Located
  <2>6. Accounted' /\ AllAnswered' /\ HitsByAllHostnames'
    BY <1>1, <2>2, <2>4, Quiet DEF SearchInv
  <2>7. Typed'
    BY <1>1, <2>1 DEF SearchInv, Typed, Silent
  <2>8. Ended'
    BY <1>1, <2>1 DEF Ended, Silent
  <2>9. QED
    BY <2>5, <2>6, <2>7, <2>8 DEF SearchInv
<1>6. QED
  BY <1>3, <1>4, <1>5 DEF search_spec_end_map

LEMMA StartArrayStep ==
  ASSUME SearchInv, search_spec_start_array
  PROVE  SearchInv'
<1>1. CASE state # "SEARCH_SPEC_EXPECT_GROUPS_ARRAY"
  BY <1>1, RefuseStep DEF search_spec_start_array
<1>2. CASE state = "SEARCH_SPEC_EXPECT_GROUPS_ARRAY"
  <2>1. /\ ValueMayFollow
        /\ Emit(json_printer_array_begin(json_printer_object_key(
                  json_printer_object_pair(Fresh, "flattened_results"), "groups")))
        /\ state' = "GROUPS_ARRAY"
        /\ nest' = Append(AfterValue("object"), "elem")
        /\ UNCHANGED <<group_id, group_has_results, group_all_host_names_found,
                       group_filters_hit, host_name_filters_hit, host_name_key,
                       flatten_results, asked, answered>>
    BY <1>2 DEF search_spec_start_array, groupVars, Opened
  <2>2. InSearchSpec /\ ~InGroup' /\ ~InHostNames'
    BY <1>2, <2>1 DEF InSearchSpec, InGroup, InHostNames
  <2>3. nest' = N3("elem")
    BY <2>1, <2>2, Where, ValueIn, AreNestings DEF SearchInv, N3
  <2>4. Listing(printer', <<>>) /\ status' \in {"running", "failed"}
    <3>1. InSpec(Fresh, <<>>)
      BY <2>2, Where, FreshAt DEF SearchInv
    <3>2. QED
      BY <2>1, <3>1, GroupsBegin DEF Emit
  <2>5. Listing(printer', printer'.members) /\ printer'.members = <<>>
    BY <2>4, Own
  <2>6. Located'
    BY <2>1, <2>3, <2>5 DEF Located
  <2>7. Accounted' /\ AllAnswered' /\ HitsByAllHostnames'
    BY <2>1, <2>2, <2>5, Quiet DEF SearchInv
  <2>8. Typed'
    BY <2>1, <2>4 DEF SearchInv, Typed
  <2>9. Ended'
    BY <2>4 DEF Ended
  <2>10. QED
    BY <2>6, <2>7, <2>8, <2>9 DEF SearchInv
<1>3. QED
  BY <1>1, <1>2

LEMMA EndArrayStep ==
  ASSUME SearchInv, search_spec_end_array
  PROVE  SearchInv'
<1>1. CASE state # "GROUPS_ARRAY"
  BY <1>1, RefuseStep DEF search_spec_end_array
<1>2. CASE state = "GROUPS_ARRAY"
  <2>1. /\ Emit(json_printer_array_end(Fresh)) /\ state' = "SEARCH_SPEC" /\ nest' = Closed
        /\ UNCHANGED <<group_id, group_has_results, group_all_host_names_found,
                       group_filters_hit, host_name_filters_hit, host_name_key,
                       flatten_results, asked, answered>>
    BY <1>2 DEF search_spec_end_array, groupVars
  <2>2. InSearchSpec' /\ ~InGroup' /\ ~InHostNames'
    BY <2>1 DEF InSearchSpec, InGroup, InHostNames
  <2>3. nest' = N2("key")
    BY <1>2, <2>1, Where, HereIs DEF SearchInv
  <2>4. InSpec(printer', <<>>) /\ status' \in {"running", "failed"}
    <3>1. Listing(Fresh, <<>>)
      BY <1>2, Where, FreshAt DEF SearchInv
    <3>2. QED
      BY <2>1, <3>1, GroupsEnd DEF Emit
  <2>5. InSpec(printer', printer'.members) /\ printer'.members = <<>>
    BY <2>4, Own
  <2>6. Located'
    BY <2>2, <2>3, <2>5 DEF Located, KeyOrValue
  <2>7. Accounted' /\ AllAnswered' /\ HitsByAllHostnames'
    BY <2>1, <2>2, <2>5, Quiet DEF SearchInv
  <2>8. Typed'
    BY <2>1, <2>4 DEF SearchInv, Typed
  <2>9. Ended'
    BY <2>4 DEF Ended
  <2>10. QED
    BY <2>6, <2>7, <2>8, <2>9 DEF SearchInv
<1>3. QED
  BY <1>1, <1>2

LEMMA CompleteStep ==
  ASSUME SearchInv, Complete
  PROVE  SearchInv'
<1>1. /\ Here \in {"object", "scalar"} /\ status' = "done"
      /\ printer' = json_printer_end(Fresh)
      /\ UNCHANGED <<nest, state, group_id, group_has_results, group_all_host_names_found,
                     group_filters_hit, host_name_filters_hit, host_name_key,
                     flatten_results, asked, answered>>
  BY DEF Complete, groupVars
<1>2. state = "INIT" /\ nest \in {N1("scalar"), N1("object")}
  <2>1. state = "INIT"
    <3>1. \A x \in KeyOrValue : nest # N2(x) /\ nest # N4(x) /\ nest # N5(x)
      BY <1>1, HereIs DEF KeyOrValue
    <3>2. nest # N3("elem")
      BY <1>1, HereIs
    <3>3. QED
      BY <3>1, <3>2, Where DEF SearchInv
  <2>2. nest # N1("top")
    BY <1>1, HereIs, AreNestings
  <2>3. QED
    BY <2>1, <2>2, Where DEF SearchInv
<1>3. /\ nest = N1("scalar") => Blank(printer, printer.members)
      /\ nest = N1("object") => Whole(printer, printer.members)
  <2>1. N1("scalar") # N1("object") /\ N1("top") # N1("object")
    BY DEF N1
  <2>2. QED
    BY <1>2, <2>1, Where DEF SearchInv
<1>4. /\ nest = N1("scalar") => Blank(printer', printer'.members)
      /\ nest = N1("object") => Whole(printer', printer'.members)
      /\ printer'.members = <<>>
  <2>1. ASSUME NEW m, Blank(printer, m)
        PROVE  Blank(printer', <<>>)
    BY <1>1, <2>1, PrinterEnds DEF Blank
  <2>2. ASSUME NEW m, Whole(printer, m)
        PROVE  Whole(printer', <<>>)
    BY <1>1, <2>2, PrinterEnds DEF Whole
  <2>3. QED
    BY <1>2, <1>3, <2>1, <2>2, Own
<1>5. Located'
  BY <1>1, <1>2, <1>4 DEF Located
<1>6. ~InGroup' /\ ~InHostNames'
  BY <1>1, <1>2 DEF InGroup, InHostNames
<1>7. Accounted' /\ AllAnswered' /\ HitsByAllHostnames'
  BY <1>1, <1>4, <1>6, Quiet DEF SearchInv
<1>8. Typed'
  BY <1>1 DEF SearchInv, Typed
<1>9. Ended'
  BY <1>1, <1>2 DEF Ended
<1>10. QED
  BY <1>5, <1>7, <1>8, <1>9 DEF SearchInv

----------------------------------------------------------------------------
(* The invariant.                                                          *)

\* json_printer_begin().
LEMMA PrinterBegins == Blank(json_printer_begin, <<>>)
<1> DEFINE p == [stack |-> <<>>, first_element |-> TRUE, reader |-> <<"empty">>,
                 members |-> <<>>, sound |-> TRUE, died |-> FALSE]
<1>1. <<"empty">> = Append(R0, "empty") /\ <<"empty">> \in Seq(Places)
  BY DEF R0, Places
<1>2. Is(p, <<>>, TRUE, <<"empty">>, <<>>)
  <2>1. p \in Printer
    BY <1>1, EmptySeq DEF Printer
  <2>2. QED
    BY <2>1 DEF Is, ReadAs
<1>3. json_printer_begin = Push(p, "sentinel")
  BY DEF json_printer_begin
<1>4. Len(<<>>) < MaxDepth
  BY DEF MaxDepth
<1> HIDE DEF p
<1>5. Is(Push(p, "sentinel"), Append(<<>>, "sentinel"), TRUE, <<"empty">>, <<>>)
  BY <1>2, <1>4, Shapes, AreBrackets, Pushes
<1>6. QED
  BY <1>1, <1>3, <1>5 DEF Blank, S1

LEMMA SearchStarts == SearchInit => SearchInv
<1> SUFFICES ASSUME SearchInit PROVE SearchInv
  OBVIOUS
<1>1. Blank(printer, printer.members) /\ printer.members = <<>>
  BY PrinterBegins, Own DEF SearchInit
<1>2. nest = N1("top")
  <2>1. Append(<<>>, "top") = <<"top">>
    OBVIOUS
  <2>2. QED
    BY <2>1 DEF SearchInit, N1
<1>3. state = "INIT" /\ status = "running" /\ asked = {} /\ answered = {}
  BY DEF SearchInit
<1>4. Located
  BY <1>1, <1>2, <1>3 DEF Located
<1>5. Accounted /\ AllAnswered /\ Ended
  BY <1>3 DEF Accounted, AllAnswered, Ended, InGroup, InHostNames
<1>6. HitsByAllHostnames
  <2>1. 1..Len(printer.members) = {}
    BY <1>1
  <2>2. QED
    BY <2>1 DEF HitsByAllHostnames
<1>7. Typed
  BY DEF SearchInit, Typed
<1>8. QED
  BY <1>4, <1>5, <1>6, <1>7 DEF SearchInv

LEMMA SearchStep ==
  ASSUME SearchInv, [SearchNext]_vars
  PROVE  SearchInv'
<1>1. ASSUME NEW id \in Ids, search_spec_integer(id)
      PROVE  SearchInv'
  BY <1>1, IntegerStep
<1>2. ASSUME NEW text, search_spec_string(text)
      PROVE  SearchInv'
  BY <1>2, StringStep
<1>3. ASSUME NEW k \in Keys, search_spec_map_key(k)
      PROVE  SearchInv'
  BY <1>3, KeyStep
<1>4. CASE NoCallback
  BY <1>4, IgnoredStep
<1>5. CASE search_spec_start_map
  BY <1>5, StartMapStep
<1>6. CASE search_spec_end_map
  BY <1>6, EndMapStep
<1>7. CASE search_spec_start_array
  BY <1>7, StartArrayStep
<1>8. CASE search_spec_end_array
  BY <1>8, EndArrayStep
<1>9. CASE RefuseStartMap \/ RefuseEndMap \/ Malformed
  BY <1>9, RefuseStep DEF RefuseStartMap, RefuseEndMap, Malformed
<1>10. CASE Complete
  BY <1>10, CompleteStep
<1>11. CASE UNCHANGED vars
  <2>1. UNCHANGED <<status, nest, state, group_id, group_has_results, group_all_host_names_found,
                    group_filters_hit, host_name_filters_hit, host_name_key, flatten_results,
                    printer, asked, answered>>
    BY <1>11 DEF vars, groupVars
  <2>2. Typed'
    BY <2>1 DEF SearchInv, Typed
  <2>3. /\ InSearchSpec' = InSearchSpec /\ InGroup' = InGroup /\ InHostNames' = InHostNames
        /\ GroupPrinted' = GroupPrinted
    BY <2>1 DEF InSearchSpec, InGroup, InHostNames, GroupPrinted
  <2>4. Located'
    BY <2>1, <2>3 DEF SearchInv, Located
  <2>5. HitByAll' = HitByAll /\ \A h : Found(h)' = Found(h)
    BY <2>1 DEF HitByAll, Found, Flattened
  <2>6. Accounted' /\ AllAnswered'
    BY <2>1, <2>3, <2>5 DEF SearchInv, Accounted, AllAnswered
  <2>7. HitsByAllHostnames'
    <3>1. Flattened(Cardinality(HitByAll))' = Flattened(Cardinality(HitByAll))
      BY <2>1, <2>5 DEF Flattened
    <3>2. QED
      BY <2>1, <3>1 DEF SearchInv, HitsByAllHostnames
  <2>8. Ended'
    BY <2>1 DEF SearchInv, Ended
  <2>9. QED
    BY <2>2, <2>4, <2>6, <2>7, <2>8 DEF SearchInv
<1>12. QED
  BY <1>1, <1>2, <1>3, <1>4, <1>5, <1>6, <1>7, <1>8, <1>9, <1>10, <1>11 DEF SearchNext

\* The inductive invariant: the place in the job, the printer's nesting and its
\* reader's, and what the group's flags and filters stand for belong together.
THEOREM SearchInvariant == SearchSpec => []SearchInv
<1>1. SearchInit => SearchInv
  BY SearchStarts
<1>2. SearchInv /\ [SearchNext]_vars => SearchInv'
  BY SearchStep
<1>3. QED
  BY <1>1, <1>2, PTL DEF SearchSpec

----------------------------------------------------------------------------
(* The properties.                                                         *)

\* "hits_by_all_hostnames", wherever search_spec_end_map() prints it, is the
\* number of filters that contain every hash that the group asked for.
THEOREM HitsByAllHostnamesHolds == SearchSpec => []HitsByAllHostnames
<1>1. SearchInv => HitsByAllHostnames
  BY DEF SearchInv
<1>2. QED
  BY <1>1, SearchInvariant, PTL

\* search_spec_string() reports every readable name whose hash has hits, and no
\* other, and the group is opened at the first of its hits.
THEOREM GroupReportedHolds == SearchSpec => []GroupReported
<1>1. SearchInv => GroupReported
  BY DEF SearchInv, AllAnswered, Accounted, GroupReported, Found
<1>2. QED
  BY <1>1, SearchInvariant, PTL

\* No assert() of json_printer.c fails, whatever the job and its names.
THEOREM AssertionsHold == SearchSpec => []printer.sound
<1>1. SearchInv => printer.sound
  BY Where DEF SearchInv, Blank, Whole, InSpec, Listing, Reporting, Is, GroupPrinted
<1>2. QED
  BY <1>1, SearchInvariant, PTL

\* The printer's assertions hold at every call, and what is printed at the end
\* is a whole document, or nothing for a job that is no object.  A quote or a
\* backslash in a name breaks it: _json_printer_write_string() puts a solidus there.
THEOREM ResultIsJsonHolds ==
  ASSUME NoneBroken
  PROVE  SearchSpec => []ResultIsJson
<1>1. SearchInv => ResultIsJson
  <2> SUFFICES ASSUME SearchInv PROVE ResultIsJson
    OBVIOUS
  <2>1. /\ R1 # <<>> /\ R2 # <<>> /\ R3 # <<>> /\ R5 # <<>>
        /\ Append(R0, "empty") # <<>> /\ Append(R2, "array") # <<>>
    <3>1. Append(R0, "empty") # <<>> /\ R1 # <<>>
      BY DEF R0, R1
    <3>2. R2 # <<>> /\ R3 # <<>> /\ R5 # <<>> /\ Append(R2, "array") # <<>>
      <4>1. ASSUME NEW q \in Seq(Places), NEW x \in Places
            PROVE  Append(q, x) # <<>>
        BY StackTop
      <4>2. QED
        BY <4>1, Shapes, ArePlaces DEF R2, R3, R5
    <3>3. QED
      BY <3>1, <3>2
  <2>2. printer.sound /\ printer.reader # <<>>
    BY <2>1, Where DEF SearchInv, Blank, Whole, InSpec, Listing, Reporting, Is, ReadAs, GroupPrinted
  <2>3. ASSUME status = "done"
        PROVE  printer.reader = IF nest = <<"scalar">> THEN <<"empty">> ELSE <<"done">>
    <3>1. nest \in {N1("scalar"), N1("object")}
      BY <2>3 DEF SearchInv, Ended
    <3>2. /\ N1("scalar") = <<"scalar">> /\ N1("object") # <<"scalar">>
          /\ N1("top") # N1("object") /\ N1("scalar") # N1("object")
          /\ Append(R0, "empty") = <<"empty">> /\ R1 = <<"done">>
      BY DEF N1, R0, R1
    <3>3. state = "INIT"
      <4>1. \A x \in KeyOrValue : nest # N2(x) /\ nest # N4(x) /\ nest # N5(x)
        BY <3>1, HereIs, AreNestings DEF KeyOrValue
      <4>2. nest # N3("elem")
        BY <3>1, HereIs, AreNestings
      <4>3. QED
        BY <4>1, <4>2, Where DEF SearchInv
    <3>4. QED
      BY <3>1, <3>2, <3>3, Where DEF SearchInv, Blank, Whole, Is, ReadAs
  <2>4. QED
    BY <2>2, <2>3 DEF ResultIsJson
<1>2. QED
  BY <1>1, SearchInvariant, PTL

LEMMA OneLonger ==
  ASSUME NEW S, NEW s \in Seq(S), NEW x \in S
  PROVE  /\ Len(s) = 1 => Len(Append(s, x)) = 2
         /\ Len(s) = 2 => Len(Append(s, x)) = 3
         /\ Len(s) = 3 => Len(Append(s, x)) = 4
         /\ Len(s) = 4 => Len(Append(s, x)) = 5
<1> DEFINE n == Len(s)
           m == Len(Append(s, x))
<1>1. n \in Nat /\ m = n + 1
  BY StackTop
<1> HIDE DEF n, m
<1>2. (n = 1 => m = 2) /\ (n = 2 => m = 3) /\ (n = 3 => m = 4) /\ (n = 4 => m = 5)
  BY <1>1
<1>3. QED
  BY <1>2 DEF n, m

LEMMA NestDepths ==
  ASSUME NEW x \in Nesting
  PROVE  /\ Len(N1(x)) = 1 /\ Len(N2(x)) = 2 /\ Len(N3(x)) = 3
         /\ Len(N4(x)) = 4 /\ Len(N5(x)) = 5
<1>1. \A y \in Nesting : Len(N1(y)) = 1
  BY DEF N1
<1>2. ASSUME NEW y \in Nesting
      PROVE  Len(N2(y)) = 2
  <2>1. N1("object") \in Seq(Nesting) /\ Len(N1("object")) = 1
    BY <1>1, NestShapes, AreNestings
  <2>2. QED
    BY <2>1, OneLonger DEF N2
<1>3. ASSUME NEW y \in Nesting
      PROVE  Len(N3(y)) = 3
  <2>1. N2("key") \in Seq(Nesting) /\ Len(N2("key")) = 2
    BY <1>2, NestShapes, AreNestings
  <2>2. QED
    BY <2>1, OneLonger DEF N3
<1>4. ASSUME NEW y \in Nesting
      PROVE  Len(N4(y)) = 4
  <2>1. N3("elem") \in Seq(Nesting) /\ Len(N3("elem")) = 3
    BY <1>3, NestShapes, AreNestings
  <2>2. QED
    BY <2>1, OneLonger DEF N4
<1>5. ASSUME NEW y \in Nesting
      PROVE  Len(N5(y)) = 5
  <2>1. N4("key") \in Seq(Nesting) /\ Len(N4("key")) = 4
    BY <1>4, NestShapes, AreNestings
  <2>2. QED
    BY <2>1, OneLonger DEF N5
<1>6. QED
  BY <1>1, <1>2, <1>3, <1>4, <1>5

\* A tuple is what is left when its last element is appended.
LEMMA AppendIs ==
  ASSUME NEW S, NEW s \in Seq(S), NEW x \in S, NEW t \in Seq(S), Len(t) = Len(s) + 1,
         t[Len(t)] = x, \A i \in 1..Len(s) : t[i] = s[i]
  PROVE  Append(s, x) = t
<1> DEFINE a == Append(s, x)
<1>1. a \in Seq(S) /\ Len(a) = Len(t) /\ a[Len(t)] = x /\ \A i \in 1..Len(s) : a[i] = s[i]
  OBVIOUS
<1> HIDE DEF a
<1>2. \A i \in 1..Len(t) : i = Len(t) \/ i \in 1..Len(s)
  OBVIOUS
<1>3. \A i \in 1..Len(a) : a[i] = t[i]
  BY <1>1, <1>2
<1>4. a = t
  BY <1>1, <1>3, SeqEqual
<1>5. QED
  BY <1>4 DEF a

\* A tuple of brackets, from the bottom.
LEMMA LongerTuple ==
  ASSUME NEW S, NEW a \in S, NEW b \in S, NEW c \in S, NEW d \in S, NEW e \in S
  PROVE  /\ Append(<<a>>, b) = <<a, b>>
         /\ Append(<<a, b>>, c) = <<a, b, c>>
         /\ Append(<<a, b, c>>, d) = <<a, b, c, d>>
         /\ Append(<<a, b, c, d>>, e) = <<a, b, c, d, e>>
<1> DEFINE s1 == <<a>>
           s2 == <<a, b>>
           s3 == <<a, b, c>>
           s4 == <<a, b, c, d>>
           s5 == <<a, b, c, d, e>>
<1>1. s1 \in Seq(S) /\ s2 \in Seq(S) /\ s3 \in Seq(S) /\ s4 \in Seq(S) /\ s5 \in Seq(S)
  OBVIOUS
<1>2. Len(s2) = Len(s1) + 1 /\ s2[Len(s2)] = b /\ \A i \in 1..Len(s1) : s2[i] = s1[i]
  OBVIOUS
<1>3. Len(s3) = Len(s2) + 1 /\ s3[Len(s3)] = c /\ \A i \in 1..Len(s2) : s3[i] = s2[i]
  OBVIOUS
<1>4. Len(s4) = Len(s3) + 1 /\ s4[Len(s4)] = d /\ \A i \in 1..Len(s3) : s4[i] = s3[i]
  OBVIOUS
<1>5. Len(s5) = Len(s4) + 1 /\ s5[Len(s5)] = e /\ \A i \in 1..Len(s4) : s5[i] = s4[i]
  OBVIOUS
<1> HIDE DEF s1, s2, s3, s4, s5
<1>6. Append(s1, b) = s2
  BY <1>1, <1>2, AppendIs
<1>7. Append(s2, c) = s3
  BY <1>1, <1>3, AppendIs
<1>8. Append(s3, d) = s4
  BY <1>1, <1>4, AppendIs
<1>9. Append(s4, e) = s5
  BY <1>1, <1>5, AppendIs
<1>10. QED
  BY <1>6, <1>7, <1>8, <1>9 DEF s1, s2, s3, s4, s5

\* ctx->state is the place in the job, and the printer's nesting follows from it.
THEOREM InContextHolds == SearchSpec => []InContext
<1>1. SearchInv => InContext
  <2> SUFFICES ASSUME SearchInv PROVE InContext
    OBVIOUS
  <2>1. /\ S1 = <<"sentinel">> /\ S2 = <<"sentinel", "brace">>
        /\ S3 = <<"sentinel", "brace", "bracket">>
        /\ S5 = <<"sentinel", "brace", "bracket", "brace", "brace">>
    <3>1. /\ Append(<<"sentinel">>, "brace") = <<"sentinel", "brace">>
          /\ Append(<<"sentinel", "brace">>, "bracket") = <<"sentinel", "brace", "bracket">>
          /\ Append(<<"sentinel", "brace", "bracket">>, "brace")
               = <<"sentinel", "brace", "bracket", "brace">>
          /\ Append(<<"sentinel", "brace", "bracket", "brace">>, "brace")
               = <<"sentinel", "brace", "bracket", "brace", "brace">>
      BY AreBrackets, LongerTuple
    <3>2. S1 = <<"sentinel">>
      BY DEF S1
    <3>3. QED
      BY <3>1, <3>2 DEF S2, S3, S4, S5
  <2>2. \A x \in KeyOrValue : x \in Nesting
    BY AreNestings DEF KeyOrValue
  <2>3. /\ state = "INIT" => Len(nest) = 1 /\ printer.stack = S1
        /\ InSearchSpec => Len(nest) = 2 /\ printer.stack = S2
        /\ state = "GROUPS_ARRAY" => Len(nest) = 3 /\ printer.stack = S3
        /\ InGroup => Len(nest) = 4 /\ printer.stack = IF group_has_results THEN S5 ELSE S3
        /\ InHostNames => Len(nest) = 5 /\ printer.stack = IF group_has_results THEN S5 ELSE S3
    <3>1. /\ \A x \in {"top", "scalar", "object"} : Len(N1(x)) = 1
          /\ \A x \in KeyOrValue : Len(N2(x)) = 2 /\ Len(N4(x)) = 4 /\ Len(N5(x)) = 5
          /\ Len(N3("elem")) = 3
      BY <2>2, NestDepths, AreNestings
    <3>2. state = "INIT" => Len(nest) = 1 /\ printer.stack = S1
      BY <3>1, Where DEF SearchInv, Blank, Whole, Is
    <3>3. InSearchSpec => Len(nest) = 2 /\ printer.stack = S2
      BY <3>1, Where DEF SearchInv, InSpec, Is
    <3>4. state = "GROUPS_ARRAY" => Len(nest) = 3 /\ printer.stack = S3
      BY <3>1, Where DEF SearchInv, Listing, Is
    <3>5. GroupPrinted => printer.stack = IF group_has_results THEN S5 ELSE S3
      BY DEF GroupPrinted, Listing, Reporting, Is
    <3>6. /\ InGroup => Len(nest) = 4 /\ GroupPrinted
          /\ InHostNames => Len(nest) = 5 /\ GroupPrinted
      BY <3>1, Where DEF SearchInv
    <3>7. QED
      BY <3>2, <3>3, <3>4, <3>5, <3>6
  <2>4. nest \in Seq(Nesting) /\ nest # <<>>
    <3>1. nest \in Seq(Nesting)
      BY <2>2, Where, NestShapes, AreNestings DEF SearchInv
    <3>2. Len(nest) # 0
      BY <2>3, Where DEF SearchInv
    <3>3. QED
      BY <3>1, <3>2
  <2>5. printer \in Printer
    BY Where DEF SearchInv, Blank, Whole, InSpec, Listing, Reporting, Is, GroupPrinted
  <2>6. state \in States
    BY Where DEF SearchInv, States, InSearchSpec, InGroup, InHostNames
  <2>7. SearchTypeOK
    BY <2>4, <2>5, <2>6 DEF SearchInv, Typed, SearchTypeOK, Nesting
  <2> DEFINE depth ==
        CASE state = "INIT" -> 1
          [] state \in {"SEARCH_SPEC", "SEARCH_SPEC_EXPECT_GROUPS_ARRAY"} -> 2
          [] state = "GROUPS_ARRAY" -> 3
          [] InGroup -> 4
          [] InHostNames -> 5
      printed ==
        CASE depth = 1 -> <<"sentinel">>
          [] depth = 2 -> <<"sentinel", "brace">>
          [] depth > 3 /\ group_has_results -> <<"sentinel", "brace", "bracket", "brace", "brace">>
          [] OTHER -> <<"sentinel", "brace", "bracket">>
  <2>8. /\ state = "INIT" => depth = 1
        /\ InSearchSpec => depth = 2
        /\ state = "GROUPS_ARRAY" => depth = 3
        /\ InGroup => depth = 4
        /\ InHostNames => depth = 5
    BY DEF InSearchSpec, InGroup, InHostNames
  <2> HIDE DEF depth
  <2>9. /\ depth = 1 => printed = S1
        /\ depth = 2 => printed = S2
        /\ depth = 3 => printed = S3
        /\ depth \in {4, 5} => printed = IF group_has_results THEN S5 ELSE S3
    BY <2>1
  <2> HIDE DEF printed
  <2>10. Len(nest) = depth /\ printer.stack = printed
    BY <2>3, <2>8, <2>9, Where DEF SearchInv
  <2>11. QED
    BY <2>7, <2>10 DEF InContext, depth, printed
<1>2. QED
  BY <1>1, SearchInvariant, PTL

=============================================================================
