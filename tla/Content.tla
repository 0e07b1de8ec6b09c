------------------------------ MODULE Content ------------------------------
(***************************************************************************)
(* Note contents as blocks: ndb_parse_content cuts a content into text,    *)
(* hashtags, urls, mentions and invoices and packs them into a buffer, the *)
(* block iterator reads them back, and ndb_get_blocks_by_key makes the     *)
(* blocks of a note that has none stored and hands a copy to the writer.   *)
(*                                                                         *)
(* A content is a sequence of symbols.  A symbol is a character, or a word *)
(* that the parser looks for: "npub" stands for a whole valid mention,     *)
(* "nbad" for one with a wrong checksum, "nevent" for one whose checksum   *)
(* is right and whose payload names no event, "note" for a prefix with too *)
(* little data, "lnbc" and "lnbad" for invoices.  One element of a buffer  *)
(* stands for the bytes of one number or field.                            *)
(***************************************************************************)
EXTENDS Integers, Sequences, FiniteSets, SequencesExt

CONSTANTS Contents,         \* contents of notes
          Rooms,            \* sizes of the parser's buffer
          Align,            \* records are padded to this size
          InboxSize,        \* room in the writer's inbox
          MaxGets           \* bound: calls of ndb_get_blocks_by_key

\* What the bech32 parser takes for a mention, and what for an invoice.
Mentions == {"npub", "nbad", "nevent", "note"}

Invoices == {"lnbc", "lnbad"}

\* What consists of letters and digits.
Words == {"a", "1", "http", "damus", "io", "nostr", "lightning"} \cup Mentions \cup Invoices

\* Blanks, a character beyond ASCII and the punctuation the parser tells apart.
Alphabet == {" ", "utf8", ".", ":", "/", "?", "#", "@", "[", "]", "(", ")"} \cup Words

ASSUME ContentAssumption ==
    /\ Contents \subseteq Seq(Alphabet)
    /\ Rooms \subseteq Nat
    /\ Align \in Nat \ {0}
    /\ {InboxSize, MaxGets} \subseteq Nat

VARIABLES content,      \* the content of the note
          room,         \* the size of the parser's buffer
          stage,        \* idle, or who parses: "writer" or "client"
          p,            \* the parser's position
          start,        \* where the text since the last block begins
          buf,          \* what it has packed
          pushed,       \* the blocks it meant to pack
          num,          \* blocks->num_blocks
          db,           \* the stored record, if any
          inbox,        \* records on their way to the writer
          held,         \* the record a client has, if any
          copies,       \* records made for the writer and not freed
          gets          \* calls of ndb_get_blocks_by_key

parserVars == <<p, start, buf, pushed, num>>
recordVars == <<db, inbox, held, copies>>
vars == <<content, room, stage, parserVars, recordVars, gets>>

None == [src |-> "none"]

-----------------------------------------------------------------------------
(* Characters *)

IsWhite(c) == c = " "

IsAlnum(c) == c \in Words

IsUtf8(c) == c = "utf8"

\* is_right_boundary
IsBoundary(c) == ~IsAlnum(c) /\ ~IsUtf8(c)

Positions == 1..Len(content)

\* The first of these places from k on, the end of the content if there is none.
Stop(k, places) == Min({q \in places : q >= k} \cup {Len(content) + 1})

\* The symbols s stand at position k, and something follows them.
Str(k, s) == k + Len(s) <= Len(content) /\ SubSeq(content, k, k + Len(s) - 1) = s

Char(k, c) == k <= Len(content) /\ content[k] = c

-----------------------------------------------------------------------------
(* What may begin at position k: a set of at most one block, with the     *)
(* symbols it is made of and the position after it.                        *)

Block(type, from, to, next) == [type |-> type, from |-> from, to |-> to, next |-> next]

\* parse_mention_index: #[1]
MentionIndex(k) ==
    IF /\ Str(k, <<"#", "[">>)
       /\ Char(k + 2, "1")
    THEN LET e == Stop(k + 2, {q \in Positions : content[q] # "1" \/ q = k + 5})
         IN  IF Char(e, "]") THEN {Block("index", k, e + 1, e + 1)} ELSE {}
    ELSE {}

\* parse_hashtag: the text may be empty.
Hashtag(k) ==
    IF k + 1 > Len(content) \/ IsWhite(content[k + 1]) \/ content[k + 1] = "#" THEN {}
    ELSE LET e == Stop(k + 1, {q \in Positions : IsBoundary(content[q])})
         IN  {Block("hashtag", k + 1, e, e)}

\* Mutant: a mention goes on to the next white space.
Bech32ToSpace(k) ==
    IF k <= Len(content) /\ content[k] \in Mentions
    THEN LET e == Stop(k, {q \in Positions : IsWhite(content[q])})
         IN  {Block("mention", k, e, e)}
    ELSE {}

\* parse_nostr_bech32_str: a known prefix, and enough letters and digits.
Bech32(k) ==
    IF k <= Len(content) /\ content[k] \in Mentions
    THEN LET e == Stop(k, {q \in Positions : ~IsAlnum(content[q])})
         IN  IF \E q \in k..(e - 1) : content[q] \in (Mentions \ {"note"}) \cup Invoices
             THEN {Block("mention", k, e, e)} ELSE {}
    ELSE {}

\* parse_mention_bech32
Mention(k) ==
    LET at == IF Char(k, "@") THEN k + 1 ELSE k
    IN  Bech32(IF Str(at, <<"nostr", ":">>) THEN at + 2 ELSE at)

\* is_final_url_char
Final(q) ==
    \/ IsWhite(content[q])
    \/ content[q] = "." /\ (q = Len(content) \/ IsWhite(content[q + 1]))

\* consume_url_host, consume_url_path
HostEnd(h) == Stop(h, {q \in Positions : ~(IsAlnum(content[q]) \/ content[q] = ".") \/ Final(q)})

PathEnd(h) ==
    IF Char(h, "/") THEN Stop(h, {q \in Positions : content[q] \in {"?", "#"} \/ Final(q)}) ELSE h

\* consume_url_fragment: 0 when it fails, on a mark at the end of a word.
FragmentEnd(h) ==
    IF ~(Char(h, "?") \/ Char(h, "#")) THEN h
    ELSE LET e == Stop(h + 1, {q \in Positions : Final(q)})
         IN  IF e = h + 1 /\ e <= Len(content) THEN 0 ELSE e

\* parse_url: a link to a mention at damus.io is the mention.
Url(k) ==
    IF ~Str(k, <<"http", ":", "/", "/">>) THEN {}
    ELSE LET host   == HostEnd(k + 4)
             end    == FragmentEnd(PathEnd(host))
             parens == k > 1 /\ Char(k - 1, "(") /\ Char(end - 1, ")")
             next   == IF parens THEN end - 1 ELSE end
             path   == IF host + 1 <= Len(content) THEN host + 1 ELSE host
             link   == IF SubSeq(content, k + 4, host - 1) = <<"damus", ".", "io">>
                       THEN Bech32(path) ELSE {}
         IN  IF host = k + 4 \/ end = 0 THEN {}
             ELSE IF link # {} THEN {[m EXCEPT !.next = next] : m \in link}
             ELSE {Block("url", k, next, next)}

\* parse_invoice, at k or behind the scheme; up to white space.
Invoice(k) ==
    LET at == IF Str(k, <<"lightning", ":">>) THEN k + 2 ELSE k
    IN  IF at <= Len(content) /\ content[at] \in Invoices
        THEN LET e == Stop(at, {q \in Positions : IsWhite(content[q])})
             IN  {Block("invoice", at, e, e)}
        ELSE {}

\* The tests at the head of ndb_parse_content's loop.
Found(k) ==
    LET c == content[k]
    IN  IF ~(k = 1 \/ IsBoundary(content[k - 1]) \/ IsUtf8(content[k - 1]) \/ c = "#") THEN {}
        ELSE IF c = "#" THEN IF MentionIndex(k) # {} THEN MentionIndex(k) ELSE Hashtag(k)
        ELSE IF c = "http" THEN Url(k)
        ELSE IF c \in {"lightning"} \cup Invoices THEN Invoice(k)
        ELSE IF c \in {"@", "nostr"} \cup Mentions THEN Mention(k)
        ELSE {}

-----------------------------------------------------------------------------
(* Packing.  An element is pushed when there is room; a number that does not *)
(* fit is lost without notice, cursor_push_varint returning -1 for failure.   *)

PushVarint(b, x) == IF Len(b) < room THEN Append(b, x) ELSE b

\* Several of them.
PushVarints(b, xs) == b \o SubSeq(xs, 1, IF Len(xs) <= room - Len(b) THEN Len(xs) ELSE room - Len(b))

\* push_str_block
StrBlock(m) == <<m.from, m.to - m.from>>

Symbols(m) == SubSeq(content, m.from, m.to - 1)

\* bech32_decode_len, bech32_convert_bits: the payload of a mention, if any.
Payload(m) ==
    CASE Symbols(m) = <<"npub">>   -> {"a key"}
      [] Symbols(m) = <<"nevent">> -> {"no event"}
      [] OTHER                     -> {}

\* push_bech32_mention: the record or, when it fails, nothing.  It needs room to
\* decode into, and works on what PushVarints left.
PackMention(b, m) ==
    LET withStr  == PushVarints(b, StrBlock(m))
        withType == PushVarint(withStr \o <<"size", "size">>, "type")
        scratch  == 2 * (m.to - m.from)
    IN  IF /\ Len(withStr) + 2 < room
           /\ Len(withType) + scratch <= room
        THEN {withType \o <<data>> : data \in Payload(m)} ELSE {}

\* bolt11_decode_minimal: what is decoded is the rest of the content.
InvoiceDecodes(m) == SubSeq(content, m.from, Len(content)) = <<"lnbc">>

\* push_invoice_str, ndb_encode_invoice
PackInvoice(b, m) ==
    LET withStr == PushVarints(b, StrBlock(m))
        numbers == PushVarints(Append(withStr, "version"), <<"msat", "timestamp", "expiry">>)
    IN  IF /\ InvoiceDecodes(m)
           /\ Len(withStr) < room
           /\ Len(numbers) + 3 <= room
        THEN {numbers \o <<"described", "description", "nul">>} ELSE {}

\* push_block for a block of plain text.
PackText(b, m) == PushVarints(b, <<"text">> \o StrBlock(m))

\* Mutant: the tag of a block that could not be packed stays.
PushBlockKeepsTag(s, m) ==
    LET tagged == PushVarint(s.buf, m.type)
        packed == CASE m.type = "mention" -> PackMention(tagged, m)
                    [] m.type = "invoice" -> PackInvoice(tagged, m)
                    [] m.type = "index"   -> {PushVarint(tagged, m.to - m.from - 3)}
                    [] OTHER              -> {PushVarints(tagged, StrBlock(m))}
    IN  IF packed # {}
        THEN [buf |-> CHOOSE b \in packed : TRUE, num |-> s.num + 1,
              pushed |-> Append(s.pushed, m)]
        ELSE [buf |-> PackText(tagged, m), num |-> s.num + 2,
              pushed |-> Append(s.pushed, [m EXCEPT !.type = "text"])]

\* push_block: the parser's buffer, its count of blocks and the blocks meant.  A
\* mention or an invoice that cannot be packed is text, and counted twice.
PushBlock(s, m) ==
    LET tagged == PushVarint(s.buf, m.type)
        packed == CASE m.type = "mention" -> PackMention(tagged, m)
                    [] m.type = "invoice" -> PackInvoice(tagged, m)
                    [] m.type = "index"   -> {PushVarint(tagged, m.to - m.from - 3)}
                    [] OTHER              -> {PushVarints(tagged, StrBlock(m))}
    IN  IF packed # {}
        THEN [buf |-> CHOOSE b \in packed : TRUE, num |-> s.num + 1,
              pushed |-> Append(s.pushed, m)]
        ELSE [buf |-> PackText(s.buf, m), num |-> s.num + 2,
              pushed |-> Append(s.pushed, [m EXCEPT !.type = "text"])]

\* add_text_block
AddText(s, from, to) == IF from = to THEN s ELSE PushBlock(s, Block("text", from, to, to))

-----------------------------------------------------------------------------
(* Reading back: ndb_blocks_iterate_next *)

Stopped == [type |-> "none"]

\* parse_nostr_bech32_buffer: the payload holds what its type asks for.
Usable(payload) == payload # "no event"

\* pull_block at position k, and the position after it; Stopped when the record
\* ends or holds what cannot be read.
Pull(b, k) ==
    LET has(n) == k + n <= Len(b)
        str(type, next) == [type |-> type, from |-> b[k + 1], len |-> b[k + 2], next |-> next]
    IN  IF ~has(0) THEN Stopped
        ELSE IF b[k] \in {"text", "hashtag", "url"}
        THEN IF has(2) THEN str(b[k], k + 3) ELSE Stopped
        ELSE IF b[k] = "index"
        THEN IF has(1) THEN [type |-> "index", from |-> 0, len |-> b[k + 1], next |-> k + 2]
             ELSE Stopped
        ELSE IF b[k] = "mention"
        THEN IF has(6) /\ Usable(b[k + 6]) THEN str("mention", k + 7) ELSE Stopped
        ELSE IF has(9) THEN str("invoice", k + 10) ELSE Stopped

\* All blocks the iterator gives.
Read(b) ==
    LET upto[n \in 0..Len(b)] ==
            IF n = 0 THEN [blocks |-> <<>>, at |-> 1, more |-> TRUE]
            ELSE LET s == upto[n - 1]
                     m == Pull(b, s.at)
                 IN  IF ~s.more \/ m = Stopped THEN [s EXCEPT !.more = FALSE]
                     ELSE [blocks |-> Append(s.blocks, m), at |-> m.next, more |-> TRUE]
    IN  upto[Len(b)].blocks

-----------------------------------------------------------------------------
(* The parser *)

Fresh(who) ==
    /\ stage' = who
    /\ p' = 1
    /\ start' = 1
    /\ buf' = <<>>
    /\ pushed' = <<>>
    /\ num' = 0

\* The writer parses the content of a text note it stores; other notes get their
\* blocks when a client asks for them.
Init ==
    /\ content \in Contents
    /\ room \in Rooms
    /\ stage \in {"writer", "idle"}
    /\ p = 1
    /\ start = 1
    /\ buf = <<>>
    /\ pushed = <<>>
    /\ num = 0
    /\ db = None
    /\ inbox = <<>>
    /\ held = None
    /\ copies = 0
    /\ gets = 0

Parsing == stage # "idle" /\ p <= Len(content)

Packed == [buf |-> buf, num |-> num, pushed |-> pushed]

Becomes(s) == buf' = s.buf /\ num' = s.num /\ pushed' = s.pushed

\* add_text_then_block
AddBlock ==
    /\ Parsing
    /\ \E m \in Found(p) :
          /\ Becomes(PushBlock(AddText(Packed, start, p), m))
          /\ p' = m.next
          /\ start' = m.next
    /\ UNCHANGED <<content, room, stage, recordVars, gets>>

\* No block begins here; parse_invoice does not go back before a scheme.
Advance ==
    /\ Parsing
    /\ Found(p) = {}
    /\ LET inWord == p > 1 /\ IsAlnum(content[p - 1])
       IN  p' = IF ~inWord /\ Str(p, <<"lightning", ":">>) THEN p + 3 ELSE p + 1
    /\ UNCHANGED <<content, room, stage, start, buf, pushed, num, recordVars, gets>>

\* cursor_align
Pad(b) == (Align - (Len(b) % Align)) % Align

\* ndb_blocks, with the flag a client looks at when it frees them.
Record(b, owned) == [src |-> "heap", owned |-> owned, buf |-> b]

\* The end of the content.  The writer stores the record, a client keeps it and
\* sends a copy, ndb_get_blocks_by_key, which the inbox may refuse.
ParseEnd ==
    /\ stage # "idle"
    /\ p > Len(content)
    /\ LET s    == AddText(Packed, start, Len(content) + 1)
           fits == Pad(s.buf) > 0 => Len(s.buf) + Pad(s.buf) < room
           mine == Record(s.buf, TRUE)
       IN  /\ Becomes(s)
           /\ IF ~fits THEN UNCHANGED recordVars
              ELSE IF stage = "writer"
              THEN db' = [Record(s.buf, FALSE) EXCEPT !.src = "db"] /\ UNCHANGED <<inbox, held, copies>>
              ELSE /\ held' = mine
                   /\ copies' = copies + 1
                   /\ inbox' = IF Len(inbox) < InboxSize THEN Append(inbox, mine) ELSE inbox
                   /\ UNCHANGED db
    /\ stage' = "idle"
    /\ start' = Len(content) + 1
    /\ UNCHANGED <<content, room, p, gets>>

\* ndb_get_blocks_by_key
GetBlocks ==
    /\ stage = "idle"
    /\ held = None
    /\ gets < MaxGets
    /\ gets' = gets + 1
    /\ IF db # None
       THEN held' = db /\ UNCHANGED <<stage, parserVars>>
       ELSE Fresh("client") /\ UNCHANGED held
    /\ UNCHANGED <<content, room, db, inbox, copies>>

\* Mutant: the flag is stored as the client set it.
StoreOwned ==
    /\ inbox # <<>>
    /\ db' = [Head(inbox) EXCEPT !.src = "db"]
    /\ inbox' = Tail(inbox)
    /\ UNCHANGED <<content, room, stage, parserVars, held, copies, gets>>

\* The writer takes a record from its inbox: ndb_write_blocks clears the flag of
\* the copy it stores, and ndb_blocks_free, which comes after, looks at it.
Store ==
    /\ inbox # <<>>
    /\ LET written == [Head(inbox) EXCEPT !.owned = FALSE]
       IN  /\ db' = [written EXCEPT !.src = "db"]
           /\ copies' = IF written.owned THEN copies - 1 ELSE copies
    /\ inbox' = Tail(inbox)
    /\ UNCHANGED <<content, room, stage, parserVars, held, gets>>

\* ndb_blocks_free by the client.
Free ==
    /\ stage = "idle"
    /\ held # None
    /\ held' = None
    /\ UNCHANGED <<content, room, stage, parserVars, db, inbox, copies, gets>>

Next ==
    \/ AddBlock
    \/ Advance
    \/ ParseEnd
    \/ GetBlocks
    \/ Store
    \/ Free

Spec == Init /\ [][Next]_vars

-----------------------------------------------------------------------------
(* Properties *)

Records == {r \in {db, held} : r # None}

\* Positions and the buffer keep to their bounds, and the text not yet packed
\* lies before the parser (content_parser.c:524-607).
TypeOK ==
    /\ Len(buf) <= room
    /\ start \in 1..(Len(content) + 1)
    /\ start <= p
    /\ p <= Len(content) + 2
    /\ num >= Len(pushed)
    /\ copies \in 0..MaxGets
    /\ Len(inbox) <= InboxSize

\* The blocks up to the first one that cannot be read.
Readable(blocks) ==
    LET bad == {k \in 1..Len(blocks) : blocks[k].type = "mention" /\
                                       Payload(blocks[k]) # {"a key"}}
    IN  SubSeq(blocks, 1, IF bad = {} THEN Len(blocks)
                          ELSE (CHOOSE k \in bad : \A j \in bad : k <= j) - 1)

\* What the iterator gives for a block.
Given(m) == IF m.type = "index" THEN <<"index", 0, m.to - m.from - 3>>
            ELSE <<m.type, m.from, m.to - m.from>>

GivenBack(b) == [k \in 1..Len(Read(b)) |-> <<Read(b)[k].type, Read(b)[k].from, Read(b)[k].len>>]

\* The iterator gives the blocks the parser found, in order, to the end or to
\* the first mention whose payload says nothing; from a buffer that was filled
\* to its end it may give fewer, never others (block.c:85-153,
\* content_parser.c:108-266).
ReadsBack ==
    /\ TypeOK
    /\ stage = "idle" => \A r \in Records :
          LET meant == [k \in 1..Len(Readable(pushed)) |-> Given(Readable(pushed)[k])]
          IN  IF Len(r.buf) < room THEN GivenBack(r.buf) = meant
              ELSE IsPrefix(GivenBack(r.buf), meant)

\* What may stand in front of a block without being part of it.
Markers == {<<>>, <<"#">>, <<"@">>, <<"nostr", ":">>, <<"@", "nostr", ":">>, <<"lightning", ":">>}

\* Nothing a user wrote is dropped but the marks of hashtags, mentions and
\* invoices and links to damus.io: blocks come in order, do not overlap, and
\* between them stand marks only (content_parser.c:511-522, 524-607).
NothingDropped ==
    stage = "idle" /\ Records # {} =>
        \A k \in 1..(Len(pushed) + 1) :
            LET from == IF k = 1 THEN 1 ELSE pushed[k - 1].next
                to   == IF k > Len(pushed) THEN Len(content) + 1 ELSE pushed[k].from
                gap  == SubSeq(content, from, to - 1)
            IN  /\ from <= to
                /\ \/ gap \in Markers
                   \/ IsPrefix(<<"http", ":", "/", "/", "damus", ".", "io">>, gap)

\* What stands before position k in its word.
Before(k) ==
    {content[j] : j \in {j \in 1..(k - 1) : \A l \in j..(k - 1) : ~IsWhite(content[l])}}

\* A valid mention that stands by itself is found, whatever is around it: not
\* behind a hash, in a url or behind a lightning scheme or invoice, and when the
\* buffer has room (content_parser.c:491-509, 524-607, cursor.h:673-688).
MentionsFound ==
    stage = "idle" /\ Records # {} =>
        \A k \in 1..Len(content) :
            \/ content[k] # "npub"
            \/ k > 1 /\ IsAlnum(content[k - 1])
            \/ k < Len(content) /\ IsAlnum(content[k + 1])
            \/ Before(k) \cap ({"#", "http", "lightning"} \cup Invoices) # {}
            \/ \E r \in Rooms : r > room
            \/ \E j \in 1..Len(pushed) : pushed[j].type = "mention" /\ pushed[j].from = k

\* What a user wrote is shown: all of the text, and the mentions as mentions.
ContentKept == NothingDropped /\ MentionsFound

\* A client frees the record it has if and only if it is its own: never one that
\* lies in the database (block.c:191-196, nostrdb.c:6754-6755, 11567).
OwnersFree == held # None => (held.owned <=> held.src = "heap")

\* Violated: the writer frees the records it was sent (nostrdb.c:8124-8125).
CopiesFreed == stage = "idle" /\ inbox = <<>> /\ db # None => copies = 0

\* Violated: the count of blocks is the number of blocks (test.c:2516, 2549).
CountIsLength == stage = "idle" /\ Records # {} => num = Len(pushed)

=============================================================================
