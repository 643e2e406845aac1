------------------------------ MODULE KeySlot ------------------------------
(***************************************************************************)
(* KeySlotCalc: the bytes of a key that decide its slot.                   *)
(*                                                                         *)
(* A checksum stands for the bytes it was computed of, so that two keys    *)
(* are in one slot here when the same bytes of them are hashed.            *)
(***************************************************************************)
EXTENDS Integers, Sequences, SequencesExt

\* reset.
NewCalc ==
    [key |-> <<>>,          \* _key_slot
     tag |-> <<>>,          \* _key_slot_after_brace
     matched |-> FALSE,     \* _matched_close_brace
     open |-> FALSE,        \* _last_byte_is_open_brace
     next |-> "direct"]     \* _next_byte

BetweenBracesAny(c, b) ==
    IF b = "}" THEN [c EXCEPT !.next = "ignore", !.matched = TRUE]
    ELSE [c EXCEPT !.open = FALSE, !.key = Append(@, b), !.tag = Append(@, b)]

\* _between_braces: nothing between the braces makes the whole key count.
BetweenBraces(c, b) ==
    IF b = "}" /\ c.open THEN [c EXCEPT !.key = Append(@, b), !.next = "whole"]
    ELSE IF b = "}" THEN [c EXCEPT !.next = "ignore", !.matched = TRUE]
    ELSE [c EXCEPT !.open = FALSE, !.key = Append(@, b), !.tag = Append(@, b)]

DirectByte(c, b) ==
    [c EXCEPT !.key = Append(@, b),
              !.open = b = "{",
              !.next = IF b = "{" THEN "between" ELSE "direct"]

NextByte(c, b) ==
    CASE c.next = "direct"  -> DirectByte(c, b)
      [] c.next = "between" -> BetweenBraces(c, b)
      [] c.next = "whole"   -> [c EXCEPT !.key = Append(@, b)]
      [] c.next = "ignore"  -> c

GetSlot(c) == IF c.matched THEN c.tag ELSE c.key

\* The calculator c after the bytes of a string.
Feed(c, bytes) ==
    LET fed[n \in 0..Len(bytes)] ==
            IF n = 0 THEN c ELSE NextByte(fed[n - 1], bytes[n])
    IN  fed[Len(bytes)]

-----------------------------------------------------------------------------
\* What redis cluster defines: the part between the first "{" and the first
\* "}" after it, if there is one and it is not empty; else the whole key.
HashTag(bytes) ==
    LET opens == {i \in 1..Len(bytes) : bytes[i] = "{"}
        first == CHOOSE i \in opens : \A j \in opens : i <= j
        closes == {i \in (first + 1)..Len(bytes) : bytes[i] = "}"}
        last == CHOOSE i \in closes : \A j \in closes : i <= j
    IN  IF opens = {} THEN bytes
        ELSE IF closes = {} \/ last = first + 1 THEN bytes
        ELSE SubSeq(bytes, first + 1, last - 1)
=============================================================================
