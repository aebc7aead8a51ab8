---------------------------- MODULE JsonPrinter ----------------------------
(***************************************************************************)
(* json_printer.c: a document is printed by calls that open and close      *)
(* objects and arrays and print keys and values.  The printer remembers    *)
(* its nesting (JSON_PRINTER_DEBUG is on unless the build says otherwise,  *)
(* so the nesting is a stack) and one bit, first_element, from which it    *)
(* decides whether a comma is due.                                         *)
(*                                                                         *)
(* The printed text is a sequence of tokens.  It is not kept: `reader` is  *)
(* what a JSON reader makes of it so far, and `members` what the numbers   *)
(* are that the last calls printed, under the name a reader reads.         *)
(***************************************************************************)
EXTENDS Integers, Sequences

CONSTANTS
  Names,        \* strings that are printed
  Kind          \* Kind[n]: what _json_printer_write_string() makes of n

\* "plain": printed as it is.  "altered": a solidus is doubled, so that another
\* name is read.  "broken": a quote or a backslash is preceded by a solidus
\* where a backslash is needed.  "refused": a tilde, DEL or other control
\* character, on which log_die() ends the program.
ASSUME NamesAssumption == Kind \in [Names -> {"plain", "altered", "broken", "refused"}]

KindOf(key) == IF key \in Names THEN Kind[key] ELSE "plain"

\* JSON_PRINTER_MAX_DEPTH.
MaxDepth == 31

----------------------------------------------------------------------------
(* The reader: a stack of places in the grammar of JSON; <<>> when the text *)
(* is no beginning of a document.                                          *)

\* The place after a token, by the place before it.
After ==
  [comma |-> [member |-> "next", element |-> "more"],
   key   |-> [object |-> "colon", next |-> "colon"],
   value |-> [empty |-> "done", colon |-> "member", array |-> "element", more |-> "element"],
   junk  |-> [nowhere |-> "nowhere"]]

Places == {"empty", "done", "object", "member", "next", "colon", "array", "element", "more"}

Place(r) == r[Len(r)]

Take(r, token) ==
  IF r # <<>> /\ Place(r) \in DOMAIN After[token]
  THEN [r EXCEPT ![Len(r)] = After[token][Place(r)]]
  ELSE <<>>

Enter(r, place) ==
  LET outer == Take(r, "value") IN IF outer = <<>> THEN <<>> ELSE Append(outer, place)

Leave(r, places) ==
  IF r # <<>> /\ Place(r) \in places THEN SubSeq(r, 1, Len(r) - 1) ELSE <<>>

----------------------------------------------------------------------------
(* The printer.  `sound`: no assert() has failed; `died`: log_die().        *)
(* The stack's characters are named: 0 "sentinel", '}' "brace", ']' "bracket" *)
(* and ':' "colon".                                                         *)

Top(p) == p.stack[Len(p.stack)]

Check(p, cond) == [p EXCEPT !.sound = @ /\ cond]

Push(p, v) ==
  [Check(p, Len(p.stack) < MaxDepth) EXCEPT !.stack = Append(@, v), !.first_element = TRUE]

Shorter(p) == SubSeq(p.stack, 1, Len(p.stack) - 1)

\* As it would be if a closed object or array left no mark.
PopFirst(p, v) ==
  [Check(p, Top(p) = v) EXCEPT !.stack = Shorter(p), !.first_element = TRUE]

Pop(p, v) ==
  [Check(p, Top(p) = v) EXCEPT !.stack = Shorter(p),
                               !.first_element = (Len(p.stack) - 1 = 1)]

PopKey(p) == IF Top(p) = "colon" THEN [p EXCEPT !.stack = Shorter(p)] ELSE p

Separator(p) ==
  IF p.first_element
  THEN [p EXCEPT !.first_element = FALSE]
  ELSE [p EXCEPT !.reader = Take(@, "comma")]

\* What precedes a value.
BeforeValue(p) == PopKey(Separator(Check(p, Top(p) \in {"bracket", "colon", "sentinel"})))

\* _json_printer_write_string() and the colon.
WriteKey(p, key) ==
  [p EXCEPT !.reader = Take(@, IF KindOf(key) = "broken" THEN "junk" ELSE "key"),
            !.died = @ \/ KindOf(key) = "refused"]

WriteValue(p) == [p EXCEPT !.reader = Take(@, "value")]

Printer ==
  [stack : Seq({"sentinel", "brace", "bracket", "colon"}), first_element : BOOLEAN,
   reader : Seq(Places),
   members : Seq([key : Names \cup {"id", "hits_by_all_hostnames"}, value : Nat]),
   sound : BOOLEAN, died : BOOLEAN]

json_printer_begin ==
  Push([stack |-> <<>>, first_element |-> TRUE, reader |-> <<"empty">>,
        members |-> <<>>, sound |-> TRUE, died |-> FALSE], "sentinel")

json_printer_end(p) == Check(p, Top(p) = "sentinel")

json_printer_object_begin(p) ==
  LET q == BeforeValue(p) IN Push([q EXCEPT !.reader = Enter(@, "object")], "brace")

json_printer_object_end(p) ==
  Pop([p EXCEPT !.reader = Leave(@, {"object", "member"})], "brace")

json_printer_array_begin(p) ==
  LET q == BeforeValue(p) IN Push([q EXCEPT !.reader = Enter(@, "array")], "bracket")

json_printer_array_end(p) ==
  Pop([p EXCEPT !.reader = Leave(@, {"array", "element"})], "bracket")

json_printer_object_key(p, key) ==
  WriteKey(Push(Separator(Check(p, Top(p) = "brace")), "colon"), key)

\* A pair whose value is a number, a boolean or text of the program's own.
json_printer_object_pair(p, key) ==
  WriteValue(WriteKey(Separator(Check(p, Top(p) = "brace")), key))

\* A pair whose number matters.
json_printer_object_pair_uint(p, key, value) ==
  LET q == json_printer_object_pair(p, key)
  IN  IF KindOf(key) = "plain"
      THEN [q EXCEPT !.members = Append(@, [key |-> key, value |-> value])]
      ELSE q

=============================================================================
