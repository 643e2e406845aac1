------------------------------ MODULE Requests ------------------------------
(***************************************************************************)
(* A connection's input becomes command groups, if it is a client's        *)
(* (ClientCommandSplitter), or responses, if it is a server's              *)
(* (ServerResponseSplitter).  The input arrives in pieces; at each a new   *)
(* splitter goes over what is left in the buffer and what has come.        *)
(*                                                                         *)
(* A message is given with what is known of it: the arguments of a         *)
(* request, or of a reply whether it is an error; and the number of its    *)
(* bytes that it takes to see that it is malformed, 0 if it is not.        *)
(***************************************************************************)
EXTENDS Message, KeySlot

CONSTANTS
    Requests,       \* sequences of requests
    Replies,        \* sequences of replies
    MaxArgs,        \* the elements of a request, 1024 * 1024 in the code
    SlotCount       \* CLUSTER_SLOT_COUNT

ASSUME LimitsAssumption == MaxArgs \in Nat /\ SlotCount \in Nat \ {0}

VARIABLES
    side,           \* "client" or "server"
    writable,       \* allow_write_commands has been called
    messages,       \* what the peer sends
    arrived,        \* the bytes that have been read
    buffer,         \* _buffer
    out,            \* the groups or the responses made, in order
    closed,         \* why the connection was closed: "no", "bad", "hungup";
                    \* or "undefined", when anything may follow
    unset           \* what the memory of r in util::atoi holds

vars == <<side, writable, messages, arrived, buffer, out, closed, unset>>

-----------------------------------------------------------------------------
(***************************************************************************)
(* The groups.                                                             *)
(***************************************************************************)
Group(kind, rsp, parts) == [kind |-> kind, rsp |-> rsp, parts |-> parts]
Direct(rsp) == Group("direct", rsp, <<>>)
Error == Direct(<<"error">>)
Single(part) == Group("single", <<>>, <<part>>)

\* A command to be sent, and its slot: that of a key, a number, or any.
Part(text, by, of) == [text |-> text, by |-> by, of |-> of]

Bulk(bytes) == <<"$">> \o Decimal(Len(bytes)) \o CRLF \o bytes \o CRLF

\* The beginning of a command made by the proxy.
Header(size, name) == <<"*">> \o Decimal(size) \o CRLF \o Bulk(<<name>>)

ReadCommands == {"GET"}
WriteCommands == {"SET"}
ReadSpecials == {"PING", "INFO", "UPDATESLOTMAP", "SETREMOTES", "MGET", "SUBSCRIBE"}
WriteSpecials == {"DEL", "MSET", "RENAME", "PUBLISH", "KEYSINSLOT", "BLPOP", "EVAL"}

\* STD_COMMANDS and SPECIAL_RSP.
StdCommands == ReadCommands \cup IF writable THEN WriteCommands ELSE {}
Specials == ReadSpecials \cup IF writable THEN WriteSpecials ELSE {}

-----------------------------------------------------------------------------
(***************************************************************************)
(* The SpecialCommandParsers.  A parser is the name of its command, where  *)
(* the command and its arguments begin in the buffer, and the arguments it *)
(* has been given by on_str: their bytes, and where the next one begins.   *)
(***************************************************************************)
NoParser == [cmd |-> "", begin |-> 0, starts |-> <<>>, args |-> <<>>]

Parser(cmd, begin, arg) ==
    [cmd |-> cmd, begin |-> begin, starts |-> <<arg>>, args |-> <<>>]

OnStr(p, bytes, next) ==
    [p EXCEPT !.args = Append(@, bytes), !.starts = Append(@, next)]

\* The text of an integer without the blanks around it, and its digits.
Trimmed(bytes) ==
    LET solid == {i \in 1..Len(bytes) : bytes[i] # " "}
    IN  IF solid = {} THEN <<>> ELSE SubSeq(bytes, Min(solid), Max(solid))

Unsigned(bytes) ==
    LET t == Trimmed(bytes)
    IN  IF t # <<>> /\ t[1] \in {"+", "-"} THEN Tail(t) ELSE t

\* util::atoi, of bytes it takes for a number.  A sign alone is 0, and for
\* blanks alone r is not set.
Atoi(bytes) ==
    LET t == Trimmed(bytes)
    IN  IF t = <<>> THEN unset
        ELSE IF t[1] = "-" THEN -Number(Unsigned(bytes)) ELSE Number(Unsigned(bytes))

\* util::atoi does not take the bytes for a number, where on_str calls it.
NotANumber(p, bytes) ==
    LET n == Len(p.args)
    IN  /\ \/ p.cmd = "EVAL" /\ n = 1
           \/ p.cmd = "KEYSINSLOT" /\ n = 0
           \/ p.cmd = "SETREMOTES" /\ n % 2 = 1
        /\ \E i \in 1..Len(Unsigned(bytes)) : Unsigned(bytes)[i] \notin Digits

\* The bytes of the arguments i to j, as they came.
Piece(buf, p, i, j) == SubSeq(buf, p.starts[i], p.starts[j + 1] - 1)

SlotOf(bytes) == GetSlot(Feed(NewCalc, bytes))

\* EachKeyCommandParser: MGET and DEL.
SpawnEachKey(buf, p, name) ==
    IF p.args = <<>> THEN Error
    ELSE Group("multi", <<>>, [i \in 1..Len(p.args) |->
            Part(Header(2, name) \o Piece(buf, p, i, i), "key", SlotOf(p.args[i]))])

SpawnMSet(buf, p) ==
    IF p.args = <<>> \/ Len(p.args) % 2 = 1 THEN Error
    ELSE Group("multi", <<>>, [i \in 1..(Len(p.args) \div 2) |->
            Part(Header(3, "SET") \o Piece(buf, p, 2 * i - 1, 2 * i), "key",
                 SlotOf(p.args[2 * i - 1]))])

\* Two keys in one slot make a plain command.
SpawnRename(buf, p) ==
    LET slots == [i \in 1..2 |-> SlotOf(p.args[i])]
    IN  IF Len(p.args) # 2 THEN Error
        ELSE IF slots[1] = slots[2]
        THEN Single(Part(SubSeq(buf, p.begin, p.starts[3] - 1), "key", slots[1]))
        ELSE Group("rename", <<>>, [i \in 1..2 |->
                Part(Piece(buf, p, i, i), "key", slots[i])])

\* One calculator is fed all arguments, the timeout included.
SpawnBlockedPop(text, p) ==
    IF Len(p.args) # 2 THEN Error
    ELSE Group("long", <<>>,
               <<Part(text, "key", GetSlot(Feed(Feed(NewCalc, p.args[1]), p.args[2])))>>)

SpawnSubscribe(text, p) ==
    IF p.args = <<>> THEN Error
    ELSE Group("long", <<>>, <<Part(text, "any", <<>>)>>)

SpawnEval(text, p) ==
    IF Len(p.args) < 3 THEN Error
    ELSE IF Atoi(p.args[2]) # 1 THEN Error
    ELSE Single(Part(text, "key", SlotOf(p.args[3])))

SpawnPublish(text, p) ==
    IF Len(p.args) # 2 THEN Error ELSE Single(Part(text, "any", <<>>))

SpawnKeysInSlotAny(buf, p, end) ==
    IF Len(p.args) # 2 THEN Error
    ELSE Single(Part(Header(4, "CLUSTER") \o Bulk(<<"GETKEYSINSLOT">>)
                        \o SubSeq(buf, p.starts[1], end - 1),
                     "number", Decimal(Atoi(p.args[1]))))

\* The slot is unsigned: a negative number is too large.
SpawnKeysInSlot(buf, p, end) ==
    IF Len(p.args) # 2 THEN Error
    ELSE IF Atoi(p.args[1]) \notin 0..(SlotCount - 1) THEN Error
    ELSE Single(Part(Header(4, "CLUSTER") \o Bulk(<<"GETKEYSINSLOT">>)
                        \o SubSeq(buf, p.starts[1], end - 1),
                     "number", Decimal(Atoi(p.args[1]))))

SpawnSetRemotes(p) ==
    IF p.args = <<>> \/ Len(p.args) % 2 = 1 THEN Error ELSE Direct(<<"ok">>)

SpawnPing(p) ==
    IF p.args = <<>> \/ Last(p.args) = <<>> THEN Direct(<<"pong">>)
    ELSE Direct(Bulk(Last(p.args)))

\* spawn_commands; the message ends before end.
SpawnCommands(buf, p, end) ==
    LET text == SubSeq(buf, p.begin, end - 1)
    IN  CASE p.cmd = "PING"          -> SpawnPing(p)
          [] p.cmd = "INFO"          -> Direct(<<"stats">>)
          [] p.cmd = "UPDATESLOTMAP" -> Direct(<<"ok">>)
          [] p.cmd = "SETREMOTES"    -> SpawnSetRemotes(p)
          [] p.cmd = "MGET"          -> SpawnEachKey(buf, p, "GET")
          [] p.cmd = "DEL"           -> SpawnEachKey(buf, p, "DEL")
          [] p.cmd = "MSET"          -> SpawnMSet(buf, p)
          [] p.cmd = "RENAME"        -> SpawnRename(buf, p)
          [] p.cmd = "SUBSCRIBE"     -> SpawnSubscribe(text, p)
          [] p.cmd = "BLPOP"         -> SpawnBlockedPop(text, p)
          [] p.cmd = "EVAL"          -> SpawnEval(text, p)
          [] p.cmd = "PUBLISH"       -> SpawnPublish(text, p)
          [] p.cmd = "KEYSINSLOT"    -> SpawnKeysInSlot(buf, p, end)

-----------------------------------------------------------------------------
(***************************************************************************)
(* ClientCommandSplitter.                                                  *)
(***************************************************************************)
ClientSplitter ==
    [onstr |-> "head",      \* _on_str
     begin |-> 1,           \* last_command_begin
     calc |-> NewCalc,      \* slot_calc
     bad |-> FALSE,         \* last_command_is_bad
     parser |-> NoParser,   \* special_parser
     made |-> <<>>]         \* the groups pushed to the client
    @@ NewSplitter

SelectCommandParser(s, name, next) ==
    IF name \in StdCommands THEN [s EXCEPT !.bad = TRUE, !.onstr = "key"]
    ELSE IF name \in Specials
    THEN [s EXCEPT !.parser = Parser(name, s.begin, next), !.onstr = "special"]
    ELSE [s EXCEPT !.bad = TRUE, !.onstr = "nop"]

\* on_string, for the bytes of a text that ends before next.
OnString(s, bytes, next) ==
    CASE s.onstr = "head" ->
            SelectCommandParser(s, IF bytes = <<>> THEN "" ELSE bytes[1], next)
      [] s.onstr = "key" ->
            [s EXCEPT !.bad = FALSE, !.onstr = "nop", !.calc = Feed(@, bytes)]
      [] s.onstr = "nop" -> s
      [] s.onstr = "special" ->
            IF NotANumber(s.parser, bytes) THEN [s EXCEPT !.stop = "bad"]
            ELSE [s EXCEPT !.parser = OnStr(@, bytes, next)]

OnArrayNested(s, size) == IF size > MaxArgs THEN [s EXCEPT !.stop = "bad"] ELSE s

OnArray(s, size) ==
    IF size > MaxArgs \/ s.nested # <<>> THEN [s EXCEPT !.stop = "bad"] ELSE s

OnRequestElement(buf, s, e) ==
    CASE e.is = "str" -> OnString(s, SubSeq(buf, e.from, e.to - 1), e.next)
      [] e.is = "arr" -> OnArray(s, e.size)
      [] OTHER -> s

\* The group that on_split_point pushes, the message ending before i.
Pushed(buf, s, i) ==
    IF s.bad THEN Error
    ELSE IF s.parser = NoParser
    THEN Single(Part(SubSeq(buf, s.begin, i - 1), "key", GetSlot(s.calc)))
    ELSE SpawnCommands(buf, s.parser, i)

OnRequestEndKept(buf, s, i) ==
    [s EXCEPT !.made = Append(@, Pushed(buf, s, i)),
              !.onstr = "head", !.begin = i, !.calc = NewCalc, !.bad = FALSE]

\* on_split_point: what the splitter knows of a request is forgotten.
OnRequestEnd(buf, s, i) ==
    [s EXCEPT !.made = Append(@, Pushed(buf, s, i)), !.parser = NoParser,
              !.onstr = "head", !.begin = i, !.calc = NewCalc, !.bad = FALSE]

-----------------------------------------------------------------------------
(***************************************************************************)
(* ServerResponseSplitter.                                                 *)
(***************************************************************************)
ServerSplitter ==
    [error |-> <<>>,        \* _last_error
     made |-> <<>>]         \* responses
    @@ NewSplitter

Response(kind, text) == [kind |-> kind, text |-> text]

OnReplyElement(buf, s, e) ==
    IF e.is = "err" THEN [s EXCEPT !.error = SubSeq(buf, e.from, e.to - 1)] ELSE s

\* _push_rsp.
PushedRsp(buf, s, next) ==
    IF s.error # <<>> /\ s.error[1] \in {"MOVED", "ASK", "CLUSTERDOWN"}
    THEN Response("retry", <<>>)
    ELSE Response(IF s.error = <<>> THEN "normal" ELSE "error",
                  SubSeq(buf, s.point, next - 1))

OnReplyEndKept(buf, s, next) == [s EXCEPT !.made = Append(@, PushedRsp(buf, s, next))]

\* on_split_point.
OnReplyEnd(buf, s, next) ==
    [s EXCEPT !.made = Append(@, PushedRsp(buf, s, next)), !.error = <<>>]

-----------------------------------------------------------------------------
\* split_by takes a turn for each element.  All turns but the last pass one,
\* of three bytes at least.
Turns(buf) == 1 + Len(buf) \div 3

ClientTurn(buf, s) ==
    LET e == Element(buf, s.pos)
        t == OnRequestElement(buf, s, e)
    IN  Turn(buf, s, e, t, OnRequestEnd(buf, Passed(s, t, e), e.next))

ServerTurn(buf, s) ==
    LET e == Element(buf, s.pos)
        t == OnReplyElement(buf, s, e)
    IN  Turn(buf, s, e, t, OnReplyEnd(buf, Passed(s, t, e), e.next))

SplitClientCommand(buf) ==
    LET after[n \in 0..Turns(buf)] ==
            IF n = 0 THEN ClientSplitter ELSE ClientTurn(buf, after[n - 1])
    IN  after[Turns(buf)]

SplitServerResponse(buf) ==
    LET after[n \in 0..Turns(buf)] ==
            IF n = 0 THEN ServerSplitter ELSE ServerTurn(buf, after[n - 1])
    IN  after[Turns(buf)]

Stream == FlattenSeq([i \in 1..Len(messages) |-> messages[i].text])

\* Some argument is blank, and the memory of r may matter.
Unset ==
    /\ side = "client"
    /\ \E m \in Range(messages) : \E a \in Range(m.args) : Trimmed(a) = <<>>

Init ==
    /\ \/ side = "client" /\ messages \in Requests /\ writable \in BOOLEAN
       \/ side = "server" /\ messages \in Replies /\ writable = TRUE
    /\ arrived = 0 /\ buffer = <<>> /\ out = <<>> /\ closed = "no"
    /\ unset \in IF Unset THEN {-1, 0, 1, SlotCount} ELSE {0}

\* n bytes come.
Arrive(n) ==
    /\ closed = "no" /\ arrived + n <= Len(Stream)
    /\ arrived' = arrived + n
    /\ UNCHANGED <<side, writable, messages, unset>>

\* _read_request: the groups made before a malformed message stay pushed.
ReadRequest(n) ==
    LET buf == buffer \o SubSeq(Stream, arrived + 1, arrived + n)
        s == SplitClientCommand(buf)
    IN  /\ side = "client"
        /\ Arrive(n)
        /\ out' = out \o s.made
        /\ closed' = IF s.stop = "bad" THEN "bad" ELSE "no"
        /\ buffer' = IF s.stop = "bad" THEN buf ELSE Rest(buf, s)

\* _recv_from, up to the responses: a malformed one loses those before it.
RecvFrom(n) ==
    LET buf == buffer \o SubSeq(Stream, arrived + 1, arrived + n)
        s == SplitServerResponse(buf)
    IN  /\ side = "server"
        /\ Arrive(n)
        /\ out' = IF s.stop = "bad" THEN out ELSE out \o s.made
        /\ closed' = IF s.stop = "bad" THEN "bad" ELSE "no"
        /\ buffer' = IF s.stop = "bad" THEN buf ELSE Rest(buf, s)

\* btoi looks at the byte after a colon though it may not have come: a "-"
\* left there in memory leads it past the end of the buffer.
Overrun(n) ==
    LET buf == buffer \o SubSeq(Stream, arrived + 1, arrived + n)
        s == SplitServerResponse(buf)
    IN  /\ side = "server"
        /\ Arrive(n)
        /\ s.stop = "interrupted" /\ s.pos = Len(buf) /\ buf[s.pos] = ":"
        /\ closed' = "undefined"
        /\ UNCHANGED <<buffer, out>>

\* A read of no bytes.
HungUp ==
    /\ closed = "no"
    /\ closed' = "hungup"
    /\ UNCHANGED <<side, writable, messages, arrived, buffer, out, unset>>

Next ==
    \/ \E n \in 1..(Len(Stream) - arrived) : ReadRequest(n)
    \/ \E n \in 1..(Len(Stream) - arrived) : RecvFrom(n) \/ Overrun(n)
    \/ HungUp

Spec == Init /\ [][Next]_vars

-----------------------------------------------------------------------------
(***************************************************************************)
(* What is to be made of a request, told from its arguments.               *)
(***************************************************************************)
Encode(args) ==
    <<"*">> \o Decimal(Len(args)) \o CRLF
        \o FlattenSeq([i \in 1..Len(args) |-> Bulk(args[i])])

Name(m) == IF m.args[1] = <<>> THEN "" ELSE m.args[1][1]

\* The requests that are answered with an error.
Refused(m) ==
    LET n == Len(m.args) - 1
    IN  \/ Name(m) \notin StdCommands \cup Specials
        \/ Name(m) \in StdCommands \cup {"MGET", "DEL", "SUBSCRIBE"} /\ n = 0
        \/ Name(m) \in {"MSET", "SETREMOTES"} /\ (n = 0 \/ n % 2 = 1)
        \/ Name(m) \in {"RENAME", "BLPOP", "PUBLISH", "KEYSINSLOT"} /\ n # 2
        \/ Name(m) = "KEYSINSLOT" /\ n = 2
                /\ Atoi(m.args[2]) \notin 0..(SlotCount - 1)
        \/ Name(m) = "EVAL" /\ (n < 3 \/ (n >= 3 /\ Atoi(m.args[3]) # 1))

SameSlot(m) == HashTag(m.args[2]) = HashTag(m.args[3])

Kind(m) ==
    CASE m.args = <<>> -> "single"
      [] m.args # <<>> /\ Refused(m) -> "direct"
      [] OTHER ->
            CASE Name(m) \in {"PING", "INFO", "UPDATESLOTMAP", "SETREMOTES"} -> "direct"
              [] Name(m) \in {"MGET", "DEL", "MSET"} -> "multi"
              [] Name(m) \in {"SUBSCRIBE", "BLPOP"} -> "long"
              [] Name(m) = "RENAME" /\ ~SameSlot(m) -> "rename"
              [] OTHER -> "single"

\* The texts to be sent, and the keys of each.
Texts(m) ==
    LET a == m.args
        n == Len(a) - 1
    IN  CASE Kind(m) = "direct" -> <<>>
          [] Kind(m) = "rename" -> <<Bulk(a[2]), Bulk(a[3])>>
          [] Kind(m) = "multi" /\ Name(m) = "MSET" ->
                [i \in 1..(n \div 2) |-> Encode(<<<<"SET">>, a[2 * i], a[2 * i + 1]>>)]
          [] Kind(m) = "multi" /\ Name(m) # "MSET" ->
                [i \in 1..n |->
                    Encode(<<<<IF Name(m) = "MGET" THEN "GET" ELSE "DEL">>, a[i + 1]>>)]
          [] OTHER ->
                IF m.args # <<>> /\ Name(m) = "KEYSINSLOT"
                THEN <<Encode(<<<<"CLUSTER">>, <<"GETKEYSINSLOT">>>> \o Tail(a))>>
                ELSE <<m.text>>

Keys(m) ==
    LET a == m.args
        n == Len(a) - 1
    IN  CASE Kind(m) = "rename" -> <<a[2], a[3]>>
          [] Kind(m) = "multi" /\ Name(m) = "MSET" -> [i \in 1..(n \div 2) |-> a[2 * i]]
          [] Kind(m) = "multi" /\ Name(m) # "MSET" -> Tail(a)
          [] OTHER -> IF m.args = <<>> THEN <<<<>>>>
                      ELSE IF Name(m) = "EVAL" THEN <<a[4]>> ELSE <<a[2]>>

-----------------------------------------------------------------------------
\* The place in the stream where the i-th message ends.
End(i) == Len(FlattenSeq([j \in 1..i |-> messages[j].text]))

Complete == Cardinality({i \in 1..Len(messages) : End(i) <= arrived})

\* The malformed messages that can be seen to be so.
Malformed ==
    {i \in 1..Len(messages) :
        messages[i].bad # 0 /\ End(i - 1) + messages[i].bad <= arrived}

Slot(part) == IF part.by = "number" THEN Number(part.of) ELSE 0

\* The shapes of the state: a command is for a slot there is (the check of
\* KEYSINSLOT), and what is kept in the buffer has been read.
TypeOK ==
    /\ side \in {"client", "server"} /\ writable \in BOOLEAN
    /\ messages \in Requests \cup Replies
    /\ arrived \in 0..Len(Stream) /\ Len(buffer) <= arrived
    /\ closed \in {"no", "bad", "hungup", "undefined"}
    /\ side = "client" => \A i \in 1..Len(out) : \A j \in 1..Len(out[i].parts) :
        /\ out[i].parts[j].by \in {"key", "number", "any"}
        /\ Slot(out[i].parts[j]) < SlotCount

\* However the input is cut into reads, a message counts as soon as it is
\* complete and only once, and the buffer keeps what follows the last
\* complete one (split_by, finished, interrupt_point): until the connection
\* is closed for a malformed message.  (Nothing is said of a cut after the
\* colon of an integer that Overrun makes undefined.)
CutsInvisible ==
    closed \notin {"bad", "undefined"} =>
        /\ Len(out) = Complete
        /\ buffer = SubSeq(Stream, End(Complete) + 1, arrived)

\* The i-th group is what the arguments of the i-th request call for,
\* whatever the requests around it (on_split_point resets the splitter) and
\* wherever reads have cut it: an error for a wrong number of arguments or a
\* command that is not known, and else commands that redis can read.  A
\* request of no arguments is passed on as it is.  The number of keys of EVAL
\* and the slot of KEYSINSLOT are what util::atoi makes of them; for blanks
\* that is no matter of the request, and any number is tried.
RequestsRight ==
    side = "client" => \A i \in 1..Len(out) :
        /\ out[i].kind = Kind(messages[i])
        /\ [j \in 1..Len(out[i].parts) |-> out[i].parts[j].text] = Texts(messages[i])
        /\ messages[i].args # <<>> =>
                (out[i] = Error <=> Refused(messages[i]))

\* A command with a key is for the slot redis cluster gives that key, also
\* where the request is taken apart (KeySlotCalc, spawn_commands).  Not so
\* for BLPOP, which takes its timeout for a part of the key.
SlotsRight ==
    side = "client" => \A i \in 1..Len(out) : \A j \in 1..Len(out[i].parts) :
        out[i].parts[j].by = "key" /\ Kind(messages[i]) # "long" =>
            out[i].parts[j].of = HashTag(Keys(messages[i])[j])

\* The i-th response is made of the i-th reply: it is retried if that is a
\* redirection, an error if that is any other error, and else its text
\* (_push_rsp; _last_error must not outlive its message).
RepliesRight ==
    side = "server" => \A i \in 1..Len(out) :
        out[i] = Response(messages[i].is,
                          IF messages[i].is = "retry" THEN <<>> ELSE messages[i].text)

\* A connection is closed for a malformed message exactly when enough of it
\* has come, not for one that is merely incomplete (BadRedisMessage against
\* MessageInterrupted).  The client's requests before it have all been made
\* into groups.
ClosedIfBad ==
    /\ closed = "bad" <=> Malformed # {}
    /\ closed = "bad" /\ side = "client" => Len(out) = Min(Malformed) - 1
=============================================================================
