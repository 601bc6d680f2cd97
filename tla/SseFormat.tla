------------------------------ MODULE SseFormat ------------------------------
(***************************************************************************)
(* `to sse` of src/commands.rs: a record as a server-sent event.  Text is  *)
(* a sequence of characters of which "LF" and "CR" matter.  An event on    *)
(* the wire is its sequence of lines, each a field name and its text; the  *)
(* empty line that ends it is implied.                                     *)
(***************************************************************************)
EXTENDS Naturals, Sequences, SequencesExt

Nothing == <<"nothing">>   \* an absent field, or Value::Nothing

Line(field, text) == [field |-> field, text |-> text]

(* str::lines(): what LF ends, without a CR right before it; a rest that no LF
   ends is a line of its own unless it is empty *)
DropCr(s) == IF s # <<>> /\ Last(s) = "CR" THEN Front(s) ELSE s

(* The text between the last LF before position k and k *)
LastEnd(s, k) ==
  CHOOSE a \in 0..(k - 1) : (a = 0 \/ s[a] = "LF") /\ \A j \in (a + 1)..(k - 1) : s[j] # "LF"
LineAt(s, k) == SubSeq(s, LastEnd(s, k) + 1, k - 1)

Lines(s) ==
  LET rest == LineAt(s, Len(s) + 1)
  IN  FlattenSeq([k \in 1..Len(s) |-> IF s[k] = "LF" THEN <<DropCr(LineAt(s, k))>> ELSE <<>>])
        \o (IF rest = <<>> THEN <<>> ELSE <<rest>>)

BadEmitDataLines(s) == <<Line("data", s)>>   \* one field, whatever the text

EmitDataLines(s) == [k \in 1..Len(Lines(s)) |-> Line("data", Lines(s)[k])]

Optional(field, value) == IF value = Nothing THEN <<>> ELSE <<Line(field, value)>>

(* event_to_string.  rec.data is what value_to_data_string makes of `data`, a
   string or JSON on one line: nothing of Value::Nothing, one text of a value
   that is not a list, and one of each item of a list (rec.list). *)
EventToString(rec) ==
  Optional("event", rec.event) \o Optional("id", rec.id) \o Optional("retry", rec.retry)
    \o FlattenSeq([k \in 1..Len(rec.data) |-> EmitDataLines(rec.data[k])])

-----------------------------------------------------------------------------
(* An EventSource (external): line breaks are LF, CR or CRLF, and a line whose
   field it does not know is skipped.  Data lines are joined with LF; an event
   without one is not dispatched. *)
Breaks(text) == {i \in 1..Len(text) : text[i] \in {"LF", "CR"}}
Value(text) ==
  IF Breaks(text) = {} THEN text
  ELSE SubSeq(text, 1, (CHOOSE i \in Breaks(text) : \A j \in Breaks(text) : i <= j) - 1)

(* The values of a field's lines *)
Values(wire, field) ==
  FlattenSeq([k \in 1..Len(wire) |->
    IF wire[k].field = field THEN <<Value(wire[k].text)>> ELSE <<>>])

(* Every text with an LF after it; the last LF is taken off again *)
Ended(texts) == FlattenSeq([k \in 1..Len(texts) |-> Append(texts[k], "LF")])
Joined(texts) == IF texts = <<>> THEN <<>> ELSE Front(Ended(texts))

Dispatched(wire) == Values(wire, "data") # <<>>
DecodedData(wire) == Joined(Values(wire, "data"))
DecodedField(wire, field) ==
  IF Values(wire, field) = <<>> THEN Nothing ELSE Last(Values(wire, field))

(* What a text should arrive as: CRLF as LF, without its last line break *)
LoneCr(s) == \E i \in 1..Len(s) : s[i] = "CR" /\ (i = Len(s) \/ s[i + 1] # "LF")
NoCr(s) == FlattenSeq([k \in 1..Len(s) |-> IF s[k] = "CR" THEN <<>> ELSE <<s[k]>>])
Arrives(s) ==
  IF NoCr(s) # <<>> /\ Last(NoCr(s)) = "LF" THEN Front(NoCr(s)) ELSE NoCr(s)
=============================================================================
