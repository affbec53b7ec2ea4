----------------------------- MODULE MCUMIORead -----------------------------
(* Instances of UMIORead for TLC: every short text over three bytes, and   *)
(* encoded objects.                                                        *)
EXTENDS UMIORead

TextBytes == {Delim, CR, LF}
ShortTexts == UNION {[1..n -> TextBytes] : n \in 1..4}

TextCalls == {
  <<"read_line", 0>>, <<"read_line", 2>>, <<"read_line", 3>>,
  <<"read", 0>>, <<"read", 2>>, <<"read", -2>>,
  <<"read_to_delim", 0>>, <<"read_to_delim", 2>>, <<"read_to_delim", -2>>,
  <<"skip", 2>>, <<"read_int_be", 2>>}

\* An object and the bytes that encode it: those of resp_encode, or others.
Wire(obj) == [bytes |-> Encode(obj), obj |-> obj]
Raw(bytes, obj) == [bytes |-> bytes, obj |-> obj]

StrA == <<"str", <<97>>>>
StrB == <<"str", <<98, 98>>>>
Int7 == <<"int", 7>>
NilObj == <<"nil">>

Messages == {
  <<Wire(Int7), Wire(NilObj)>>,
  <<Wire(StrA), Wire(<<"bool", TRUE>>)>>,
  <<Wire(<<"arr", <<Int7, StrB>>>>)>>,
  <<Wire(<<"arr", <<StrA, StrB>>>>)>>,
  <<Wire(<<"str", <<>>>>), Wire(Int7)>>,
  <<Wire(<<"hash", <<<<Int7, StrA>>>>>>)>>,
  <<Wire(<<"hash", <<<<StrA, Int7>>>>>>)>>,
  <<Wire(<<"arr", <<<<"arr", <<NilObj>>>>, <<"arr", <<>>>>, <<"int", 10>>>>>>)>>,
  <<Raw(<<Plus, 97>> \o Eol, StrA), Raw(<<Minus, 98>> \o Eol, <<"err", <<98>>>>)>>,
  <<Raw(<<Bang, 49>> \o Eol \o <<98>> \o Eol, <<"err", <<98>>>>)>>,
  <<Raw(<<Equals, 53>> \o Eol \o <<116, 120, 116, Colon, 97>> \o Eol, StrA)>>}

TextSetups ==
  {[stream |-> t, calls |-> TextCalls, sent |-> <<>>, most |-> 2] : t \in ShortTexts}

RespSetup(m) ==
  LET upto(k) == Len(FlattenSeq([j \in 1..(k - 1) |-> m[j].bytes]))
  IN  [stream |-> FlattenSeq([j \in DOMAIN m |-> m[j].bytes]),
       calls |-> {<<"resp_read", 0>>},
       sent |-> [p \in {upto(k) : k \in DOMAIN m} |->
                   LET k == CHOOSE j \in DOMAIN m : upto(j) = p
                   IN  [obj |-> m[k].obj, size |-> Len(m[k].bytes)]],
       most |-> Len(m)]

Instances == TextSetups \cup {RespSetup(m) : m \in Messages}
=============================================================================
