----------------------------- MODULE MCRequests -----------------------------
(***************************************************************************)
(* Requests on a few keys with braces, and a few replies.                  *)
(***************************************************************************)
EXTENDS Requests

CONSTANTS
    MaxKey          \* bound: the length of the keys tried one by one

\* A request, its name given apart; bad as in Requests.
Ask(name, args) ==
    LET all == <<<<name>>>> \o args
    IN  [args |-> all, text |-> Encode(all), bad |-> 0]

Broken(text, bad) == [args |-> <<>>, text |-> text, bad |-> bad]

k == <<"k">>
tagged == <<"{", "k", "}">>
long == [i \in 1..10 |-> "v"]

\* A key of each kind, for every way the reads may cut it.
SingleKeys ==
    {<<Ask("GET", <<key>>)>> :
        key \in UNION {[1..n -> {"{", "}", "k"}] : n \in 0..MaxKey}}

Pool ==
    {Ask("GET", <<k>>), Ask("SET", <<tagged, long>>), Ask("GET", <<>>),
     Ask("NONE", <<k>>), Ask("PING", <<>>), Ask("MGET", <<k, tagged>>),
     Ask("RENAME", <<k, <<"x">>>>),
     Ask("EVAL", <<k, <<"1">>, tagged>>),
     [args |-> <<>>, text |-> Encode(<<>>), bad |-> 0]}

Others ==
    {Ask("MSET", <<tagged, <<>>>>), Ask("RENAME", <<k, tagged>>),
     Ask("BLPOP", <<k, <<"0">>>>),
     Ask("PING", <<k>>), Ask("INFO", <<>>), Ask("UPDATESLOTMAP", <<>>),
     Ask("SETREMOTES", <<k, <<"7">>>>), Ask("SETREMOTES", <<k>>), Ask("MGET", <<>>),
     Ask("DEL", <<k, <<>>>>), Ask("MSET", <<k>>),
     Ask("MSET", <<k, k, tagged, long>>),
     Ask("RENAME", <<k>>), Ask("RENAME", <<k, k, k>>), Ask("SUBSCRIBE", <<k, k>>),
     Ask("SUBSCRIBE", <<>>), Ask("BLPOP", <<k, k, <<"0">>>>),
     Ask("EVAL", <<k, <<"2">>, k, k>>),
     Ask("EVAL", <<k, <<"1">>>>), Ask("EVAL", <<k, <<"1">>, k, tagged>>),
     Ask("PUBLISH", <<k, long>>), Ask("PUBLISH", <<k>>),
     Ask("KEYSINSLOT", <<<<"3">>, <<"9">>>>),
     Ask("EVAL", <<k, <<"+", "1", " ">>, k>>), Ask("EVAL", <<k, <<"-", "1">>, k>>),
     Ask("EVAL", <<k, <<>>, tagged>>),
     Ask("KEYSINSLOT", <<<<" ", "2">>, <<"9">>>>),
     Ask("KEYSINSLOT", <<<<"-">>, <<"9">>>>), Ask("KEYSINSLOT", <<<<"-", "1">>, <<"9">>>>),
     Ask("KEYSINSLOT", <<<<" ">>, <<"9">>>>),
     Ask("KEYSINSLOT", <<<<"4">>, <<"9">>>>), Ask("KEYSINSLOT", <<<<"1">>>>),
     [args |-> <<<<>>>>, text |-> Encode(<<<<>>>>), bad |-> 0]}

\* A byte that begins no element, a nested array, an array that is too
\* large, a text where a number is due, and a number with more behind it.
Malformeds ==
    {Broken(<<"?", "CR", "LF">>, 1),
     Broken(<<"*", "1", "CR", "LF", "*", "1", "CR", "LF">> \o Bulk(k), 8),
     Broken(<<"*", "9", "CR", "LF">>, 4),
     Broken(Encode(<<<<"SETREMOTES">>, k, k>>), 25),
     Broken(Encode(<<<<"SETREMOTES">>, k, <<"-", "1", "k">>>>), 27)}

MCRequestSeqs ==
    SingleKeys
        \cup {<<m, n>> : m \in Pool, n \in Pool}
        \cup {<<m>> : m \in Others}
        \cup {<<Ask("GET", <<k>>), m, Ask("PING", <<>>)>> : m \in Malformeds}

Reply(is, text) == [is |-> is, text |-> text, bad |-> 0]
Line(type, bytes) == <<type>> \o bytes \o CRLF

ReplyPool ==
    {Reply("normal", Line("+", <<"OK">>)), Reply("normal", Line(":", <<"1", "2">>)),
     Reply("normal", Bulk(long)), Reply("normal", Bulk(<<>>)),
     Reply("normal", <<"$", "-", "1", "CR", "LF">>),
     Reply("normal", <<"*", "-", "1", "CR", "LF">>),
     Reply("normal", <<"*", "0", "CR", "LF">>),
     Reply("normal", <<"*", "2", "CR", "LF", "*", "2", "CR", "LF">>
                        \o Bulk(k) \o Bulk(<<>>) \o Line(":", <<"-", "1">>)),
     Reply("error", Line("-", <<"ERR", "e">>)),
     Reply("retry", Line("-", <<"MOVED", "s">>)),
     Reply("retry", Line("-", <<"ASK">>))}

MCReplySeqs ==
    {<<m, n>> : m \in ReplyPool, n \in ReplyPool}
        \cup {<<m, Broken(<<"?", "CR", "LF">>, 1)>> : m \in ReplyPool}
=============================================================================
