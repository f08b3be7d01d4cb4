------------------------------ MODULE DateTime ------------------------------
(***************************************************************************)
(* Dates as text: GetTimeValueFromFormat, which reads with a format what   *)
(* GetFormattedDateTimeText (wcsftime) wrote with it.                      *)
(*                                                                         *)
(* A format is a sequence of items, a directive like %Y or a literal; the  *)
(* parser sees its characters.  A character of a date's text knows which   *)
(* field it belongs to, where in it, and the value of the field, which is  *)
(* all that decides what _wtoi makes of a piece of the text.               *)
(***************************************************************************)
EXTENDS Integers, Sequences, SequencesExt

CONSTANTS
  Directives, Literals, \* letters that formats use
  MaxItems,             \* bound on the items of a format
  BufferSize,           \* characters of wszBuffer, the terminating one included
  Dates                 \* dates to write and read back: records of Y, m, d, H, M, S

(* A % begins a directive, so it is no literal; tm_hour counts from 0 to 23. *)
ASSUME DateTimeAssumption ==
  /\ Directives \subseteq {"Y", "m", "d", "H", "p", "I", "M", "S"} /\ MaxItems \in Nat
  /\ BufferSize \in Nat
  /\ "%" \notin Literals
  /\ Dates \subseteq [{"Y", "m", "d", "H", "M", "S"} -> Nat]
  /\ \A date \in Dates : date.H < 24

Item == [kind : {"directive"}, letter : Directives] \cup [kind : {"literal"}, letter : Literals]
FormatOf(n) == [1 .. n -> Item]

VARIABLES
  dtFormat,  \* the format given
  dtDate,    \* the date that was written with it
  dtRead     \* what GetTimeValueFromFormat made of the text, before _mktime64

dtVars == <<dtFormat, dtDate, dtRead>>

Field == {"Y", "m", "d", "H", "M", "S"}
(* What tmDate starts from: 1900-01-01 00:00:00. *)
NoDate == [Y |-> 1900, m |-> 1, d |-> 1, H |-> 0, M |-> 0, S |-> 0]

DtInit == dtFormat = << >> /\ dtDate = NoDate /\ dtRead = NoDate

-----------------------------------------------------------------------------
(* wcsftime *)
Width(letter) == CASE letter = "Y" -> 4 [] OTHER -> 2
Shown(letter, date) ==
  CASE letter = "p" -> IF date.H < 12 THEN "AM" ELSE "PM"
    [] letter = "I" -> ((date.H + 11) % 12) + 1
    [] OTHER -> date[letter]
TextOf(item, date) ==
  IF item.kind = "literal" THEN <<[of |-> "literal", at |-> 1, value |-> 0]>>
  ELSE [k \in 1 .. Width(item.letter) |->
          [of |-> item.letter, at |-> k, value |-> Shown(item.letter, date)]]
Wcsftime(date, format) ==
  FlattenSeq([j \in DOMAIN format |-> TextOf(format[j], date)])

(* wcsftime writes nothing and returns 0 unless the text and the character that
   ends it fit in wszBuffer. *)
Fits(date, format) == Len(Wcsftime(date, format)) < BufferSize
GetFormattedDateTimeText(date, format) ==
  IF Fits(date, format) THEN Wcsftime(date, format) ELSE << >>

(* The characters of a format, and the one at a position counted from 0. *)
Chars(format) ==
  FlattenSeq([j \in DOMAIN format |->
    IF format[j].kind = "literal" THEN <<format[j].letter>> ELSE <<"%", format[j].letter>>])
CharAt(fmt, pos) == IF pos < Len(fmt) THEN fmt[pos + 1] ELSE "end"

(* The whole field of this width that begins at position idx of the text. *)
WholeField(text, idx, width) ==
  /\ idx + width <= Len(text)
  /\ text[idx + 1].at = 1 /\ Width(text[idx + 1].of) = width
  /\ \A k \in 1 .. width : text[idx + k].of = text[idx + 1].of

(* _wtoi( text.substr( idx, width ) ): the number only if it begins and ends
   with the field; nothing starts a number in AM, PM or a literal.  Behind the
   end of the text substr throws, which is one way not to read the date. *)
Garbage == -1
Wtoi(text, idx, width) ==
  IF idx > Len(text) THEN Garbage
  ELSE IF idx = Len(text) \/ text[idx + 1].of \in {"literal", "p"} THEN 0
  ELSE IF WholeField(text, idx, width) THEN text[idx + 1].value ELSE Garbage

(* What one of the tests on the letter behind % does: st is the date so far,
   the position in the text and the position in the format. *)
TakeField(text, letter, st) ==
  LET v == Wtoi(text, st.idx, Width(letter))
      isPM == /\ st.idx + 2 < Len(text)
              /\ text[st.idx + 1].of = "p" /\ text[st.idx + 1].value = "PM"
      date == CASE letter = "I" -> [st.date EXCEPT !.H = @ + v]
                [] letter = "p" -> [st.date EXCEPT !.H = IF isPM THEN @ + 12 ELSE @]
                [] OTHER -> [st.date EXCEPT ![letter] = v]
  IN [date |-> date, idx |-> st.idx + Width(letter) - 1, pos |-> st.pos + 1]

Tests == <<"Y", "m", "d", "H", "p", "I", "M", "S">>

(* The tests follow each other without else: after one that held the next one
   looks at the character behind the directive. *)
AfterPercent(text, fmt, st) ==
  FoldLeft(LAMBDA s, letter : IF CharAt(fmt, s.pos + 1) = letter THEN TakeField(text, letter, s) ELSE s,
           st, Tests)

(* A case for % that breaks instead of falling through. *)
OneChar_break(text, fmt, st) ==
  IF CharAt(fmt, st.pos) = "%"
  THEN LET s == AfterPercent(text, fmt, st) IN [s EXCEPT !.pos = @ + 1]
  ELSE [st EXCEPT !.idx = @ + 1, !.pos = @ + 1]

(* One round of the loop; % falls through to the default. *)
OneChar(text, fmt, st) ==
  LET s == IF CharAt(fmt, st.pos) = "%" THEN AfterPercent(text, fmt, st) ELSE st
  IN [s EXCEPT !.idx = @ + 1, !.pos = @ + 1]

(* The loop over the format. *)
ReadDate(text, fmt) ==
  FoldLeft(LAMBDA st, p : IF st.pos = p THEN OneChar(text, fmt, st) ELSE st,
           [date |-> NoDate, idx |-> 0, pos |-> 0],
           [p \in 1 .. Len(fmt) |-> p - 1]).date

(* The time value 0, which is returned for an empty text before a date is read. *)
ZeroTime == [f \in Field |-> 0]
GetTimeValueFromFormat(text, fmt) ==
  IF text = << >> \/ fmt = << >> THEN ZeroTime ELSE ReadDate(text, fmt)

-----------------------------------------------------------------------------
HasDirective(format, letter) == [kind |-> "directive", letter |-> letter] \in ToSet(format)

Distinct(format) ==
  \A i, j \in DOMAIN format : i # j /\ format[i] = format[j] => format[i].kind = "literal"

(* A date is written and read back with one format. *)
WriteAndRead(format, date) ==
  /\ dtFormat = << >> /\ Distinct(format)
  /\ dtFormat' = format /\ dtDate' = date
  /\ dtRead' = GetTimeValueFromFormat(GetFormattedDateTimeText(date, format), Chars(format))

DtNext ==
  \E n \in 1 .. MaxItems : \E format \in FormatOf(n), date \in Dates : WriteAndRead(format, date)

DtSpec == DtInit /\ [][DtNext]_dtVars

-----------------------------------------------------------------------------
Order(letter) == CHOOSE i \in DOMAIN Tests : Tests[i] = letter

(* No directive is followed by a literal that one of the later tests takes
   for another directive. *)
Unambiguous(format) ==
  \A j \in 1 .. Len(format) - 1 :
    /\ format[j].kind = "directive" /\ format[j + 1].kind = "literal"
    /\ format[j + 1].letter \in ToSet(Tests)
    => Order(format[j + 1].letter) < Order(format[j].letter)

(* The hour is given by %H alone, or by %I and %p where it is not the twelfth
   and %p does not end the format. *)
HourReadable(format, date) ==
  IF HasDirective(format, "I") \/ HasDirective(format, "p")
  THEN /\ HasDirective(format, "I") /\ HasDirective(format, "p") /\ ~HasDirective(format, "H")
       /\ date.H % 12 # 0
       /\ format[Len(format)] # [kind |-> "directive", letter |-> "p"]
  ELSE TRUE

(* What GetFormattedDateTimeText wrote with a format is read back with it: the
   fields the format has get their values and the others stay 1900-01-01
   00:00:00, for formats that the chain of tests cannot mistake and hours it can
   tell.  A text too long for the buffer is never half read: the time is 0. *)
TimeRoundTrip ==
  dtFormat # << >> =>
    IF Fits(dtDate, dtFormat)
    THEN Unambiguous(dtFormat) /\ HourReadable(dtFormat, dtDate) =>
           dtRead = [f \in Field |->
             IF HasDirective(dtFormat, f) \/ (f = "H" /\ HasDirective(dtFormat, "I"))
             THEN dtDate[f] ELSE NoDate[f]]
    ELSE dtRead = ZeroTime
=============================================================================
