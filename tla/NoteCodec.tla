------------------------------ MODULE NoteCodec ------------------------------
(***************************************************************************)
(* Notes in memory and notes as json: the builder (ndb_builder) packs      *)
(* strings into a table, ndb_note_json writes the note out, and the parser *)
(* (jsmn, ndb_ws_event_from_json, ndb_client_event_from_json,              *)
(* ndb_parse_json_note) builds it again from the tokens, stopping early    *)
(* when it meets the id of a note that is stored.                          *)
(*                                                                         *)
(* A text is a sequence of symbols.  A symbol is a character, or a word    *)
(* whose characters no property tells apart: a field name, the 64 digits   *)
(* of an id.  An escaped character is a backslash symbol and a letter.     *)
(***************************************************************************)
EXTENDS Integers, Sequences, FiniteSets, SequencesExt

CONSTANTS Contents,         \* the contents clients give their notes
          TagTexts,         \* the texts they put in tags
          Ids,              \* symbols: 64 lower case hexadecimal digits
          Lower,            \* Lower[u]: the id that u spells in upper case
          Orders,           \* the orders in which senders write the fields
          Times,            \* creation times of notes
          IntRange,         \* 2^32: unsigned ints wrap here
          MaxTags,          \* bound: tags of a note
          MaxItems,         \* bound: items of a tag
          Strings,          \* room in a client builder's string table
          JsonStrings,      \* room in the parser's
          Indices,          \* room in its list of strings
          Items             \* room for tags and items

ASSUME CodecAssumption ==
    /\ IntRange \in Nat \ {0}
    /\ Times \subseteq Nat
    /\ {MaxTags, MaxItems, Strings, JsonStrings, Indices, Items} \subseteq Nat
    /\ \A u \in DOMAIN Lower : u \notin Ids /\ Lower[u] \in Ids

VARIABLES stage,        \* building, sending, parsing, or how it ended
          b,            \* the builder at work
          want,         \* what the client asked for, or the sender meant
          toks,         \* the tokens of the message
          i,            \* the parser's position
          hexbuf,       \* the buffer ids are decoded into
          parsed,       \* the fields seen
          stored        \* ids of stored notes

vars == <<stage, b, want, toks, i, hexbuf, parsed, stored>>

NUL == "nul"

Escape == "backslash"

-----------------------------------------------------------------------------
(* Texts *)

Upper == DOMAIN Lower

Words == {"id", "pubkey", "created_at", "kind", "tags", "content", "sig"}

\* Characters of a text.
Width(s) ==
    IF Len(s) = 1 /\ s[1] \in Ids \cup Upper THEN 64
    ELSE IF Len(s) = 1 /\ s[1] \in Words THEN IF s[1] = "id" THEN 2 ELSE 3
    ELSE Len(s)

\* hex_decode of 64 digits, of either case.
Decoded(s) == IF s[1] \in Ids THEN s[1] ELSE Lower[s[1]]

IsHex(s) == Width(s) = 64

\* Mutant: the backslash is not escaped.
EscapedCharOnce(c) ==
    CASE c = "newline" -> <<Escape, "n">>
      [] c = "quote"   -> <<Escape, "quote">>
      [] OTHER         -> <<c>>

\* cursor_push_escaped_char
EscapedChar(c) ==
    CASE c = "newline" -> <<Escape, "n">>
      [] c = "quote"   -> <<Escape, "quote">>
      [] c = Escape    -> <<Escape, Escape>>
      [] OTHER         -> <<c>>

Escaped(s) == FlattenSeq([k \in 1..Len(s) |-> EscapedChar(s[k])])

\* The text in a message: senders write the symbol "wide" as \uXXXX.
SentChar(c) == IF c = "wide" THEN <<Escape, "u">> ELSE EscapedChar(c)

Sent(s) == FlattenSeq([k \in 1..Len(s) |-> SentChar(s[k])])

-----------------------------------------------------------------------------
(* The builder *)

\* ndb_builder_init
NewBuilder(room) ==
    [room |-> room, strings |-> <<>>, indices |-> <<>>, tags |-> <<>>, used |-> 0,
     content |-> [flag |-> "str", text |-> <<>>], id |-> NUL, pubkey |-> NUL,
     sig |-> NUL, at |-> 0, ok |-> TRUE]

Fails(x) == [x EXCEPT !.ok = FALSE]

\* ndb_note_str: the text a packed string stands for.
ReadStr(x, p) ==
    IF p.flag = "str" THEN p.text
    ELSE LET rest == SubSeq(x.strings, p.at, Len(x.strings))
             n    == CHOOSE n \in 1..Len(rest) :
                        rest[n] = NUL /\ \A m \in 1..(n - 1) : rest[m] # NUL
         IN  SubSeq(rest, 1, IF p.flag = "id" THEN 1 ELSE n - 1)

\* cursor_push on the string table, with the terminating zero.
WithString(x, s) ==
    IF Len(x.strings) + Len(s) + 1 > x.room THEN Fails(x)
    ELSE [x EXCEPT !.strings = @ \o s \o <<NUL>>]

\* ndb_builder_push_str: an index that does not fit is not recorded.
PushStr(x, s) ==
    LET y == WithString(x, s)
    IN  IF y.ok /\ Len(x.indices) < Indices
        THEN [y EXCEPT !.indices = Append(@, Len(x.strings) + 1)] ELSE y

\* Mutant: a string that begins with the text is taken for it.
FoundPrefix(x, s) ==
    {at \in Range(x.indices) : IsPrefix(s, SubSeq(x.strings, at, Len(x.strings)))}

\* ndb_builder_find_str
Found(x, s) ==
    {at \in Range(x.indices) : IsPrefix(s \o <<NUL>>, SubSeq(x.strings, at, Len(x.strings)))}

\* ndb_builder_try_compact_str: up to two characters go into the reference, an
\* id in a tag becomes its bytes.
Compact(s, packIds) == Width(s) <= 2 \/ (packIds /\ IsHex(s))

\* The builder and the reference after ndb_builder_try_compact_str.
MakeCompact(x, s) ==
    IF Width(s) <= 2 THEN <<x, [flag |-> "str", text |-> s]>>
    ELSE <<PushStr(x, <<Decoded(s), "bytes">>), [flag |-> "id", at |-> Len(x.strings) + 1]>>

\* ndb_builder_make_str
MakeStr(x, s, packIds) ==
    IF Compact(s, packIds) THEN MakeCompact(x, s)
    ELSE IF Found(x, s) # {}
    THEN <<x, [flag |-> "offset",
               at |-> CHOOSE at \in Found(x, s) : \A o \in Found(x, s) : at <= o]>>
    ELSE <<PushStr(x, s), [flag |-> "offset", at |-> Len(x.strings) + 1]>>

\* cursor_push_unescaped_char, over a text: 0 for \u.
Unescaped(s) ==
    LET upto[k \in 0..Len(s)] ==
            IF k = 0 THEN <<>>
            ELSE IF k > 1 /\ s[k - 1] = Escape /\ Cardinality({m \in 1..(k - 1) :
                       \A l \in m..(k - 1) : s[l] = Escape}) % 2 = 1
            THEN Append(Front(upto[k - 1]), IF s[k] = "n" THEN "newline" ELSE s[k])
            ELSE Append(upto[k - 1], s[k])
    IN  upto[Len(s)]

HasUnicode(s) == \E k \in 2..Len(s) : s[k] = "u" /\ s[k - 1] = Escape

\* ndb_builder_make_json_str: compact strings are taken as they stand in the
\* json, others are unescaped into the table; \u is not handled.  What a failing
\* call has pushed before it fails is left out: nothing refers to it.
MakeJsonStr(x, s, packIds) ==
    IF Compact(s, packIds) THEN MakeCompact(x, s)
    ELSE <<IF HasUnicode(s) THEN Fails(x) ELSE WithString(x, Unescaped(s)),
           [flag |-> "offset", at |-> Len(x.strings) + 1]>>

\* ndb_builder_new_tag: the tag is counted even when there is no room for it.
NewTag(x) ==
    IF x.used = Items THEN [x EXCEPT !.tags = Append(@, <<>>), !.ok = FALSE]
    ELSE [x EXCEPT !.tags = Append(@, <<>>), !.used = @ + 1]

\* ndb_builder_finalize_tag
FinalizeTag(x, p) ==
    IF ~x.ok \/ x.used = Items THEN Fails(x)
    ELSE [x EXCEPT !.tags[Len(x.tags)] = Append(@, p), !.used = @ + 1]

-----------------------------------------------------------------------------
(* A client builds a note *)

Note(x) ==
    [content |-> ReadStr(x, x.content),
     tags    |-> [t \in 1..Len(x.tags) |->
                    [k \in 1..Len(x.tags[t]) |-> ReadStr(x, x.tags[t][k])]]]

Init ==
    /\ stage = "building"
    /\ b = NewBuilder(Strings)
    /\ \E at \in Times : want = [content |-> <<>>, tags |-> <<>>, at |-> at]
    /\ toks = <<>>
    /\ i = 0
    /\ hexbuf = NUL
    /\ parsed = {}
    /\ stored = {}

parserVars == <<toks, i, hexbuf, parsed, stored>>

\* A builder call returned; its caller gives up when it failed.
Built(x, w) ==
    /\ b' = x
    /\ want' = w
    /\ stage' = IF x.ok THEN stage ELSE "gave up"
    /\ UNCHANGED parserVars

\* ndb_builder_new_tag
AddTag ==
    /\ stage = "building"
    /\ Len(want.tags) < MaxTags
    /\ Built(NewTag(b), [want EXCEPT !.tags = Append(@, <<>>)])

\* ndb_builder_push_tag_str, and ndb_builder_push_tag_id for an id.
PushTagStr(s) ==
    /\ stage = "building"
    /\ want.tags # <<>>
    /\ Len(Last(want.tags)) < MaxItems
    /\ LET r == MakeStr(b, s, TRUE)
       IN  Built(FinalizeTag(r[1], r[2]),
                 [want EXCEPT !.tags[Len(want.tags)] = Append(@, s)])

\* ndb_builder_set_content
SetContent(s) ==
    /\ stage = "building"
    /\ want.content = <<>>
    /\ LET r == MakeStr(b, s, FALSE)
       IN  Built([r[1] EXCEPT !.content = r[2]], [want EXCEPT !.content = s])

\* ndb_builder_finalize
Finalize ==
    /\ stage = "building"
    /\ stage' = "sending"
    /\ UNCHANGED <<b, want, parserVars>>

-----------------------------------------------------------------------------
(* Json *)

Token(type, text, size, num) == [type |-> type, text |-> text, size |-> size, num |-> num]

TextToken(s) == Token("string", s, 0, 0)

TagTokens(tag) == <<Token("array", <<"bracket">>, Len(tag), 0)>> \o
                  [k \in 1..Len(tag) |-> TextToken(Sent(tag[k]))]

\* The value of a field as tokens: what jsmn makes of ndb_note_json's text.
ValueTokens(field) ==
    CASE field = "id"         -> <<TextToken(<<"own id">>)>>
      [] field = "pubkey"     -> <<TextToken(<<"own key">>)>>
      [] field = "sig"        -> <<TextToken(<<"own sig">>)>>
      [] field = "created_at" -> <<Token("primitive", <<"digit">>, 0, want.at)>>
      [] field = "kind"       -> <<Token("primitive", <<"digit">>, 0, 1)>>
      [] field = "content"    -> <<TextToken(Sent(want.content))>>
      [] field = "tags"       ->
            <<Token("array", <<"bracket">>, Len(want.tags), 0)>> \o
            FlattenSeq([t \in 1..Len(want.tags) |-> TagTokens(want.tags[t])])

NoteTokens(order) ==
    <<Token("object", <<"brace">>, Len(order), 0)>> \o
    FlattenSeq([k \in 1..Len(order) |->
                   <<Token("string", <<order[k]>>, 1, 0)>> \o ValueTokens(order[k])])

\* A bare note, or a relay's or a client's EVENT message.
Message(frame, order) ==
    CASE frame = "raw"    -> NoteTokens(order)
      [] frame = "relay"  -> <<Token("array", <<"bracket">>, 3, 0), TextToken(<<"EVENT">>),
                               TextToken(<<"sub">>)>> \o NoteTokens(order)
      [] frame = "client" -> <<Token("array", <<"bracket">>, 2, 0), TextToken(<<"EVENT">>)>>
                             \o NoteTokens(order)

\* The other messages of a relay.
OtherMessage(type) ==
    <<Token("array", <<"bracket">>, 2, 0), TextToken(<<type>>), TextToken(<<"sub">>)>> \o
    IF type = "OK" THEN <<Token("primitive", <<"digit">>, 0, 0), TextToken(<<>>)>> ELSE <<>>

\* ndb_ws_event_from_json, ndb_client_event_from_json: where the note begins, 0
\* for no note.
NoteAt(ts, client) ==
    IF ts[1].type = "object" THEN 1
    ELSE IF \/ ts[1].type # "array"
            \/ Len(ts) < 3
            \/ (client /\ Len(ts) = 3)
            \/ ts[2].type # "string"
            \/ ts[2].text # <<"EVENT">>
    THEN 0
    ELSE IF client THEN 3
    ELSE IF ts[3].type = "string" THEN 4 ELSE 0

\* ndb_tce's evtype of a message without a note.
EventType(ts) ==
    IF ts[2].text \in {<<"EOSE">>, <<"AUTH">>} /\ ts[3].type = "string" THEN ts[2].text[1]
    ELSE IF /\ ts[2].text = <<"OK">>
            /\ Len(ts) = 5
            /\ ts[3].type = "string"
            /\ ts[4].type = "primitive"
            /\ ts[5].type = "string"
    THEN "OK" ELSE "unknown"

\* Mutant: the first 64 digits of the message are looked up.
IdMetAny(ts) ==
    LET met == {k \in 1..Len(ts) : ts[k].text # <<>> /\ ts[k].text[1] \in Ids \cup {"own id", "own key"}}
    IN  IF met = {} THEN {} ELSE {ts[CHOOSE k \in met : \A m \in met : k <= m].text[1]}

\* jsmn_parse with stop_at_id: the first string of 64 characters after a string
\* "id", wherever the two stand.
IdMet(ts) ==
    LET met == {k \in 1..Len(ts) :
                   /\ ts[k].type = "string"
                   /\ Len(ts[k].text) = 1
                   /\ ts[k].text[1] \in Ids \cup Upper \cup {"own id", "own key"}
                   /\ \E j \in 1..(k - 1) : ts[j].type = "string" /\ ts[j].text = <<"id">>}
        digits == ts[CHOOSE k \in met : \A m \in met : k <= m].text[1]
    IN  IF met = {} THEN {}
        ELSE {IF digits \in Upper THEN Lower[digits] ELSE digits}

\* A message arrives at an ingester that has some notes stored.
Receive(frame, order, client, known) ==
    /\ stage = "sending"
    /\ LET ts == Message(frame, order)
           at == NoteAt(ts, client)
       IN  /\ toks' = ts
           /\ stage' = IF IdMet(ts) \cap known # {} THEN "known"
                       ELSE IF at # 0 /\ ts[at].type = "object" THEN "parsing" ELSE "no note"
           /\ stored' = IF stage' = "known" THEN known ELSE stored
           /\ i' = at + 1
    /\ b' = NewBuilder(JsonStrings)
    /\ UNCHANGED <<want, hexbuf, parsed>>

\* A message without a note.
ReceiveOther(type, client) ==
    /\ stage = "building"
    /\ b = NewBuilder(Strings)
    /\ toks' = OtherMessage(type)
    /\ stage' = IF client THEN "unknown" ELSE EventType(OtherMessage(type))
    /\ UNCHANGED <<b, want, i, hexbuf, parsed, stored>>

-----------------------------------------------------------------------------
(* ndb_parse_json_note_custom *)

Tok == toks[i]

Value == toks[i + 1]

\* The token is read as the name of this field.
At(field) ==
    /\ stage = "parsing"
    /\ i < Len(toks)
    /\ Tok.text = <<field>>
    /\ Tok.type = "string"

\* hex_decode writes the pairs of digits it can read and then gives up: a text
\* that does not begin with two digits leaves the buffer alone.
HexOf(s) ==
    IF Len(s) = 1 /\ s[1] \in Ids \cup Upper THEN Decoded(s)
    ELSE IF Len(s) > 1 /\ s[1] = "e" /\ s[2] = "e" THEN "mixed"
    ELSE IF s \in {<<"own id">>, <<"own key">>, <<"own sig">>} THEN s[1]
    ELSE hexbuf

\* id, pubkey and sig
ParseHex(field) ==
    /\ At(field)
    /\ hexbuf' = HexOf(Value.text)
    /\ b' = [b EXCEPT ![field] = hexbuf']
    /\ parsed' = parsed \cup {field}
    /\ i' = i + 1
    /\ UNCHANGED <<stage, want, toks, stored>>

\* kind and created_at: parse_unsigned_int refuses what does not fit.
ParseInt(field) ==
    /\ At(field)
    /\ IF Value.type = "primitive" /\ Value.num < IntRange
       THEN /\ b' = IF field = "kind" THEN b ELSE [b EXCEPT !.at = Value.num]
            /\ parsed' = parsed \cup {field}
            /\ i' = i + 1
            /\ UNCHANGED stage
       ELSE stage' = "refused" /\ UNCHANGED <<b, parsed, i>>
    /\ UNCHANGED <<want, toks, hexbuf, stored>>

ParseContent ==
    /\ At("content")
    /\ LET r == MakeJsonStr(b, Value.text, FALSE)
       IN  IF r[1].ok
           THEN /\ b' = [r[1] EXCEPT !.content = r[2]]
                /\ parsed' = parsed \cup {"content"}
                /\ i' = i + 1
                /\ UNCHANGED stage
           ELSE stage' = "refused" /\ UNCHANGED <<b, parsed, i>>
    /\ UNCHANGED <<want, toks, hexbuf, stored>>

\* ndb_builder_tag_from_json_array, for the array at token k.
TagFrom(x, k) ==
    LET upto[n \in 0..toks[k].size] ==
            IF n = 0 THEN NewTag(x)
            ELSE IF ~upto[n - 1].ok \/ k + n > Len(toks) THEN Fails(upto[n - 1])
            ELSE LET r == MakeJsonStr(upto[n - 1], toks[k + n].text, TRUE)
                 IN  FinalizeTag(r[1], r[2])
    IN  IF toks[k].size = 0 THEN Fails(x) ELSE upto[toks[k].size]

\* ndb_builder_process_json_tags: up to the first tag that fails.
TagsFrom(x, k) ==
    LET upto[n \in 0..toks[k].size] ==
            IF n = 0 THEN [x |-> x, at |-> k + 1]
            ELSE LET s == upto[n - 1]
                 IN  IF ~s.x.ok \/ s.at > Len(toks) THEN s
                     ELSE [x |-> TagFrom(s.x, s.at), at |-> s.at + toks[s.at].size + 1]
    IN  upto[toks[k].size].x

\* The result of ndb_builder_process_json_tags is not looked at, and the parser
\* moves on by the number of tags, not of tokens.
ParseTags ==
    /\ At("tags")
    /\ b' = [TagsFrom(b, i + 1) EXCEPT !.ok = TRUE]
    /\ parsed' = parsed \cup {"tags"}
    /\ i' = i + Value.size + 1
    /\ UNCHANGED <<stage, want, toks, hexbuf, stored>>

SkipToken ==
    /\ stage = "parsing"
    /\ i <= Len(toks)
    /\ ~(i < Len(toks) /\ Tok.type = "string" /\ Len(Tok.text) = 1 /\ Tok.text[1] \in Words)
    /\ i' = i + 1
    /\ UNCHANGED <<stage, b, want, toks, hexbuf, parsed, stored>>

\* ndb_event_commitment: created_at is printed as a signed int.
Commitment(x) ==
    [pubkey |-> x.pubkey,
     at     |-> IF x.at * 2 >= IntRange THEN x.at - IntRange ELSE x.at,
     tags   |-> [t \in 1..Len(x.tags) |->
                   [k \in 1..Len(x.tags[t]) |-> Escaped(Note(x).tags[t][k])]],
     content |-> Escaped(Note(x).content)]

\* What the sender hashed.
SentCommitment ==
    [pubkey |-> "own key", at |-> want.at,
     tags   |-> [t \in 1..Len(want.tags) |->
                   [k \in 1..Len(want.tags[t]) |-> Escaped(want.tags[t][k])]],
     content |-> Escaped(want.content)]

\* The end of the loop, and ndb_note_verify.
ParseEnd ==
    /\ stage = "parsing"
    /\ i > Len(toks)
    /\ stage' = IF parsed # Words THEN "refused"
                ELSE IF b.id = "own id" /\ b.sig = "own sig" /\ Commitment(b) = SentCommitment
                THEN "accepted" ELSE "invalid"
    /\ UNCHANGED <<b, want, parserVars>>

Ended == stage \notin {"building", "sending", "parsing"} /\ UNCHANGED vars

Next ==
    \/ AddTag
    \/ \E s \in TagTexts : PushTagStr(s)
    \/ \E s \in Contents : SetContent(s)
    \/ Finalize
    \/ \E frame \in {"raw", "relay", "client"}, order \in Orders, client \in BOOLEAN,
          known \in {{}, {"own id"}, Ids} : Receive(frame, order, client, known)
    \/ \E type \in {"EOSE", "AUTH", "NOTICE", "OK"}, client \in BOOLEAN :
          ReceiveOther(type, client)
    \/ \E field \in {"id", "pubkey", "sig"} : ParseHex(field)
    \/ \E field \in {"kind", "created_at"} : ParseInt(field)
    \/ ParseContent
    \/ ParseTags
    \/ SkipToken
    \/ ParseEnd
    \/ Ended

Spec == Init /\ [][Next]_vars

-----------------------------------------------------------------------------
(* Properties *)

\* Tables, lists and tags stay within the memory the builder was given, and every
\* reference points into the table (nostrdb.c:9440-9471, 10018-10035).
TypeOK ==
    /\ Len(b.strings) <= b.room
    /\ Len(b.indices) <= Indices
    /\ b.used <= Items
    /\ i \in 0..(Len(toks) + MaxTags + MaxItems + 2)
    /\ \A t \in 1..Len(b.tags) : \A k \in 1..Len(b.tags[t]) :
          b.tags[t][k].flag # "str" => b.tags[t][k].at \in 1..Len(b.strings)

\* What a client pushed is what the note says, whatever was packed, shared with
\* an earlier string or decoded on the way; hexadecimal digits come back in lower
\* case (nostrdb.c:9993-10045, 10096-10153).
StringsIntact ==
    TypeOK /\ (stage \in {"building", "sending"} =>
       /\ Note(b).content = want.content
       /\ Note(b).tags =
             [t \in 1..Len(want.tags) |->
                [k \in 1..Len(want.tags[t]) |->
                   IF IsHex(want.tags[t][k]) THEN <<Decoded(want.tags[t][k])>>
                   ELSE want.tags[t][k]]])

\* A note that passes verification says what its sender wrote: no two different
\* notes the parser can build commit to the same bytes (nostrdb.c:9669-9712,
\* 10192-10237).
AcceptedIntact ==
    stage = "accepted" => Note(b) = [content |-> want.content, tags |-> want.tags]

\* A text the parser takes over unchanged: not the name of a field, without
\* \u, and not so short that it is kept with its escapes.
Ordinary(s) ==
    /\ ~(Len(s) = 1 /\ s[1] \in Words)
    /\ "wide" \notin Range(s)
    /\ Len(Sent(s)) <= 2 => Escape \notin Range(Sent(s))

\* A note of ordinary texts, without empty tags or upper case ids.
OrdinaryNote ==
    /\ Ordinary(want.content)
    /\ \A t \in 1..Len(want.tags) :
          /\ want.tags[t] # <<>>
          /\ \A k \in 1..Len(want.tags[t]) :
                Ordinary(want.tags[t][k]) /\ Range(want.tags[t][k]) \cap Upper = {}

\* Every note of ordinary texts is understood, in whatever order its fields are
\* written and however it is framed: it is not refused and not found invalid
\* while its time fits in 31 bits (nostrdb.c:10753-10857, 10192-10237).
OrdinaryAccepted ==
    stage \in {"refused", "invalid"} => ~OrdinaryNote \/ want.at * 2 >= IntRange

\* A note is taken if and only if it is understood as its sender meant it.
ReadAsSent == AcceptedIntact /\ OrdinaryAccepted

\* Violated: the same for every time before 2106, when 32 bits are full
\* (nostrdb.c:9691, "TODO: update in 2106").
AcceptedUntil2106 ==
    stage \in {"refused", "invalid"} => ~OrdinaryNote \/ want.at >= IntRange

\* A message is dropped as known only when the note it carries is stored, unless
\* a text of it is "id" (nostrdb.c:3832, "It parsed the id and found that we
\* already have it in the database").
KnownIsStored ==
    stage = "known" =>
       \/ "own id" \in stored
       \/ want.content = <<"id">>
       \/ \E t \in 1..Len(want.tags) : <<"id">> \in Range(want.tags[t])

=============================================================================
