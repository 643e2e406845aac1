------------------------------ MODULE Message ------------------------------
(***************************************************************************)
(* Splitting a buffer into RESP messages: parse, which reports the         *)
(* elements it passes, and what MessageSplitterBase makes of them.         *)
(*                                                                         *)
(* A byte is a string: "CR" and "LF", a digit, a sign, or a byte of a      *)
(* text.  The name of a command or of an error is one byte, "GET".         *)
(*                                                                         *)
(* The loop of parse over the elements of an array and that of split_by    *)
(* over messages both go on at the next element, or stop at the end of the *)
(* buffer; they are one loop here.                                         *)
(***************************************************************************)
EXTENDS Integers, Sequences, SequencesExt, FiniteSetsExt

CRLF == <<"CR", "LF">>

Digits == {ToString(d) : d \in 0..9}
Digit == [b \in Digits |-> CHOOSE d \in 0..9 : ToString(d) = b]

\* The number a text of digits stands for: the loop of btou.
Number(bytes) ==
    LET value[n \in 0..Len(bytes)] ==
            IF n = 0 THEN 0 ELSE value[n - 1] * 10 + Digit[bytes[n]]
    IN  value[Len(bytes)]

Decimal(n) ==
    (IF n < 10 THEN <<>> ELSE <<ToString(n \div 10)>>) \o <<ToString(n % 10)>>

\* MessageInterrupted: the message is not complete.
Interrupted == 0

\* The place after the line that begins at p (parse_simple_str, btou).
AfterLine(buf, p) ==
    LET after[i \in Nat] ==
            IF i >= Len(buf) THEN Interrupted
            ELSE IF buf[i] = "CR" THEN i + 2 ELSE after[i + 1]
    IN  after[p]

\* The number on the line that begins at p and ends before q (btou).
LineNumber(buf, p, q) == Number(SubSeq(buf, p, q - 3))

AfterStrEarly(buf, p, size) ==
    IF Len(buf) + 1 < p + size THEN Interrupted ELSE p + size + 2

\* parse_str.
AfterStr(buf, p, size) ==
    IF Len(buf) + 1 < p + size + 2 THEN Interrupted ELSE p + size + 2

\* pass_nil, p being the place after the sign.
AfterNil(buf, p) == IF Len(buf) < p + 2 THEN Interrupted ELSE p + 3

\* parse: the element at p, where it ends, and what it is for its consumer.
\* For a text, from and to are the places of its bytes, [from, to).
Element(buf, p) ==
    LET type == buf[p]
        none == [is |-> "none", next |-> Interrupted, size |-> 0, from |-> 0, to |-> 0]
        line == AfterLine(buf, p + 1)
        size == LineNumber(buf, p + 1, line)
        nil  == AfterNil(buf, p + 2)
        str  == AfterStr(buf, line, size)
        At(what, next) == IF next = Interrupted THEN none
                          ELSE [none EXCEPT !.is = what, !.next = next]
        Text(what, from, next) ==
            IF next = Interrupted THEN none
            ELSE [none EXCEPT !.is = what, !.next = next, !.from = from, !.to = next - 2]
    IN  CASE type \in {"$", "*"} /\ p < Len(buf) /\ buf[p + 1] = "-" -> At("nil", nil)
          [] type = ":" -> At("int", line)
          [] type = "+" -> Text("str", p + 1, line)
          [] type = "-" -> Text("err", p + 1, line)
          [] type = "$" -> IF line = Interrupted THEN none ELSE Text("str", line, str)
          [] type = "*" -> IF line = Interrupted THEN none
                           ELSE [At("arr", line) EXCEPT !.size = size]
          [] OTHER -> [none EXCEPT !.is = "bad"]

-----------------------------------------------------------------------------
(***************************************************************************)
(* MessageSplitterBase.  Its state is the record s, of which the consumer  *)
(* has further fields.                                                     *)
(***************************************************************************)
NewSplitter ==
    [pos |-> 1,             \* where parse is
     stop |-> "no",         \* why split_by has ended
     point |-> 1,           \* the last of _split_points
     nested |-> <<>>]       \* _nested_array_element_count

\* on_element: the arrays that the element completes are elements themselves.
OnElement(nested) ==
    LET deep == {i \in 1..Len(nested) : nested[i] # 1}
    IN  IF deep = {} THEN <<>>
        ELSE [SubSeq(nested, 1, Max(deep)) EXCEPT ![Max(deep)] = @ - 1]

\* Whether the element e completes a message.
Completes(nested, e) ==
    /\ e.is # "arr" \/ e.size = 0
    /\ OnElement(nested) = <<>>

Nested(nested, e) ==
    IF e.is = "arr" /\ e.size # 0 THEN Append(nested, e.size) ELSE OnElement(nested)

\* The splitter past the element e, t being what the consumer has made of s.
Passed(s, t, e) == [t EXCEPT !.pos = e.next, !.nested = Nested(s.nested, e)]

\* One turn of the loop, at the element e.  The consumer makes t of s before e
\* counts (on_string, on_error, on_array), and split of it when the message is
\* complete (on_split_point).
Turn(buf, s, e, t, split) ==
    IF s.stop # "no" \/ s.pos > Len(buf) THEN s
    ELSE IF e.is = "none" THEN [s EXCEPT !.stop = "interrupted"]
    ELSE IF e.is = "bad" THEN [s EXCEPT !.stop = "bad"]
    ELSE IF t.stop # "no" THEN t
    ELSE IF Completes(s.nested, e) THEN [split EXCEPT !.point = e.next]
    ELSE Passed(s, t, e)

Finished(s) == s.nested = <<>> /\ s.stop = "no"

\* What is kept in the buffer for the next read.
Rest(buf, s) == IF Finished(s) THEN <<>> ELSE SubSeq(buf, s.point, Len(buf))
=============================================================================
