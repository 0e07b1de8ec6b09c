------------------------------- MODULE Filter -------------------------------
(* The filters of nostrdb (src/src/nostrdb.c): the builder that lays fields  *)
(* out in two fixed buffers, matching of notes, equality and inclusion of    *)
(* filters, and the way a filter is written as json and read back. Everything*)
(* here is an operator on records; Query drives them.                        *)
(*                                                                           *)
(* Ids, pubkeys, strings and relay urls are natural numbers whose order is   *)
(* the order of memcmp and strcmp. A tag value is a 32-byte id when it is at *)
(* least IdBase and a string otherwise.                                      *)
EXTENDS Integers, Sequences, SequencesExt, FiniteSets

CONSTANTS
    IdBase,      \* tag values from here on are 32-byte ids
    Buffer,      \* units of eight bytes that ndb_filter_init_with allocates
    Escaped,     \* Escaped[s]: the text between the quotes of s as a json string
    Spells,      \* the strings that start with 64 hex digits, and the id in those
    Longer,      \* those of them that do not end there
    UintRange    \* UINT_MAX + 1

ASSUME FilterAssumption ==
    /\ IdBase \in Nat /\ Buffer \in Nat /\ UintRange \in Nat
    /\ Escaped \in [0..IdBase - 1 -> 0..IdBase - 1]
    /\ \A s \in DOMAIN Spells : s \in 0..IdBase - 1 /\ Spells[s] \in Nat /\ Spells[s] >= IdBase
    /\ Longer \subseteq DOMAIN Spells

FieldTypes == {"ids", "authors", "kinds", "tags", "since", "until", "limit",
               "search", "relays", "custom"}
ElemTypes == {"unknown", "string", "id", "int", "custom"}

NoField == [type |-> "none", tag |-> 0, etype |-> "unknown", elems |-> <<>>]

-----------------------------------------------------------------------------
(* The builder. elem and data are the free units of the two buffers; a field *)
(* header takes two units of the first and an element one.                   *)

HeaderUnits == 2
DataUnits(etype) == CASE etype = "id" -> 4
                      [] etype = "string" -> 1
                      [] etype = "custom" -> 2
                      [] OTHER -> 0

FilterInit == [fields |-> <<>>, current |-> NoField, finalized |-> FALSE,
               elem |-> Buffer \div 4, data |-> Buffer - Buffer \div 4,
               empty |-> FALSE]

StartField(f, type, tag) ==
    [f EXCEPT !.current = [type |-> type, tag |-> tag, etype |-> "unknown", elems |-> <<>>],
              !.elem = @ - HeaderUnits]

StartsField(f, type) ==
    /\ f.current = NoField
    /\ type # "tags" => \A i \in 1..Len(f.fields) : f.fields[i].type # type
    /\ f.elem >= HeaderUnits

(* Which kind of element ndb_filter_add_{str,custom,int,id}_element accept   *)
(* for the field in progress, and ndb_filter_set_elem_type's rule that the   *)
(* elements of a field are of one type.                                      *)
Accepts(etype) == CASE etype = "string" -> {"search", "relays", "tags"}
                    [] etype = "custom" -> {"custom"}
                    [] etype = "int" -> {"kinds", "since", "until", "limit"}
                    [] etype = "id" -> {"ids", "authors", "tags"}

OneElement == {"since", "until", "limit", "search"}

Typed(f, etype) ==
    /\ f.current.type \in Accepts(etype)
    /\ f.current.etype \in {"unknown", etype}
    /\ (f.current.type = "search") => (f.current.elems = <<>>)

Fits(f, etype) ==
    /\ f.current.type \in OneElement => f.current.elems = <<>>
    /\ f.data >= DataUnits(etype)

AddsElement(f, etype) == Typed(f, etype) /\ Fits(f, etype) /\ f.elem >= 1

(* A refused element may already have set the element type, and may have     *)
(* taken its room in the data buffer.                                        *)
AddElement(f, etype, v) ==
    IF ~Typed(f, etype) THEN f
    ELSE LET typed == [f EXCEPT !.current.etype = etype]
             stored == [typed EXCEPT !.data = @ - DataUnits(etype)]
         IN  IF ~Fits(f, etype) THEN typed
             ELSE IF f.elem < 1 THEN stored
             ELSE [stored EXCEPT !.elem = @ - 1, !.current.elems = Append(@, v)]

(* The assertion in sort_filter_elements: a field that is sorted through     *)
(* pointers has the element type of one.                                     *)
SortAsserts(f) ==
    f.current.type \in {"ids", "authors", "relays"} => f.current.etype \in {"id", "string"}

Sorted(elems) == SortSeq(elems, LAMBDA a, b : a < b)

(* Mutant: the elements stay in the order they were added. *)
EndFieldUnsorted(f) ==
    IF f.current = NoField THEN f
    ELSE [f EXCEPT !.fields = Append(@, f.current), !.current = NoField]

EndField(f) ==
    LET cur == f.current
        done == IF cur.type \in {"ids", "authors", "relays", "kinds"}
                THEN [cur EXCEPT !.elems = Sorted(@)] ELSE cur
    IN  IF cur = NoField THEN f
        ELSE [f EXCEPT !.fields = Append(@, done), !.current = NoField]

FilterEnd(f) ==
    IF f.finalized THEN f
    ELSE [f EXCEPT !.finalized = TRUE, !.elem = 0, !.data = 0,
                   !.empty = (f.fields = <<>> /\ f.current = NoField)]

FilterClone(f) == f

-----------------------------------------------------------------------------
(* Lookups.                                                                  *)

FindElements(f, type) ==
    LET found == {i \in 1..Len(f.fields) : f.fields[i].type = type}
    IN  IF found = {} THEN NoField
        ELSE f.fields[CHOOSE i \in found : \A j \in found : i <= j]

Has(f, type) == FindElements(f, type) # NoField
GetInt(f, type, default) == IF Has(f, type) THEN FindElements(f, type).elems[1] ELSE default

-----------------------------------------------------------------------------
(* Matching. A note has an id, a pubkey, a kind, a created_at, tags, which   *)
(* are sequences of a letter and a value, and the relays it was seen on.     *)

(* bsearch over the elements in the order the field keeps them.              *)
BSearch(elems, key) ==
    LET find[lo \in 1..Len(elems) + 1, hi \in 0..Len(elems)] ==
            LET mid == (lo + hi) \div 2
            IN  IF lo > hi THEN FALSE
                ELSE IF elems[mid] = key THEN TRUE
                ELSE IF elems[mid] < key THEN find[mid + 1, hi] ELSE find[lo, mid - 1]
    IN  find[1, Len(elems)]

TagMatches(field, note) ==
    \E t \in Range(note.tags) :
        /\ t[1] = field.tag
        /\ field.etype = (IF t[2] >= IdBase THEN "id" ELSE "string")
        /\ t[2] \in Range(field.elems)

FieldMatches(field, note) ==
    CASE field.type = "kinds" -> note.kind \in Range(field.elems)
      [] field.type = "relays" -> \E r \in note.relays : BSearch(field.elems, r)
      [] field.type = "ids" -> BSearch(field.elems, note.id)
      [] field.type = "authors" -> BSearch(field.elems, note.pubkey)
      [] field.type = "tags" -> TagMatches(field, note)
      [] field.type = "since" -> note.created_at >= field.elems[1]
      [] field.type = "until" -> note.created_at < field.elems[1]
      [] field.type = "custom" -> note.id \in field.elems[1]
      [] OTHER -> TRUE

(* already is the set of field types an index scan answers for.              *)
MatchesWith(f, note, already) ==
    \A i \in 1..Len(f.fields) :
        f.fields[i].type \notin already => FieldMatches(f.fields[i], note)

GroupMatches(group, note) ==
    group # <<>> => \E i \in 1..Len(group) : MatchesWith(group[i], note, {})

-----------------------------------------------------------------------------
(* Equality and inclusion of filters.                                        *)

FieldEq(a, b) ==
    /\ Len(a.elems) = Len(b.elems)
    /\ a.type = b.type
    /\ a.etype = b.etype
    /\ a.etype # "unknown"
    /\ a.elems = b.elems

EachFoundIn(a, b) ==
    \A i \in 1..Len(a.fields) :
        /\ Has(b, a.fields[i].type)
        /\ FieldEq(a.fields[i], FindElements(b, a.fields[i].type))

FilterEq(a, b) == Len(a.fields) = Len(b.fields) /\ EachFoundIn(a, b)

IsSubsetOf(a, b) ==
    \/ Len(b.fields) = 0
    \/ Len(b.fields) = Len(a.fields) /\ FilterEq(a, b)
    \/ Len(b.fields) < Len(a.fields) /\ EachFoundIn(b, a)

-----------------------------------------------------------------------------
(* Json. A filter is written as the tokens jsmn finds in it. A key is a      *)
(* string token with the field it names; relays is written but not a name    *)
(* that ndb_filter_parse_field knows. The text of a token is an id for its   *)
(* hex digits, a string for its escaped form and a number for its digits.    *)

Token(kind, size, v) == [kind |-> kind, size |-> size, v |-> v, field |-> "none", tag |-> 0]
KeyToken(type, tag) == [Token("str", 0, 0) EXCEPT !.field = type, !.tag = tag]

ElemToken(etype, v) ==
    CASE etype = "int" -> Token("prim", 0, v)
      [] etype = "string" -> Token("str", 0, Escaped[v])
      [] OTHER -> Token("str", 0, v)

ElemTokens(etype, elems) ==
    <<Token("arr", Len(elems), 0)>> \o [i \in 1..Len(elems) |-> ElemToken(etype, elems[i])]

FieldTokens(field) ==
    CASE field.type = "custom" -> <<>>
      [] field.type = "search" -> <<KeyToken("search", 0), ElemToken("string", field.elems[1])>>
      [] field.type \in {"since", "until", "limit"} ->
             <<KeyToken(field.type, 0), ElemToken("int", field.elems[1])>>
      [] OTHER -> <<KeyToken(field.type, field.tag)>> \o ElemTokens(field.etype, field.elems)

FilterJson(f) == <<Token("obj", 0, 0)>> \o FlattenSeq([i \in 1..Len(f.fields) |-> FieldTokens(f.fields[i])])

ParsedFields == FieldTypes \ {"relays", "custom"}

(* hex_decode of the first 64 characters of a text, and of a text of 64.     *)
StartsHex(text) == text >= IdBase \/ text \in DOMAIN Spells
IsHex(text) == StartsHex(text) /\ text \notin Longer
IdOf(text) == IF text \in DOMAIN Spells THEN Spells[text] ELSE text

(* What a field accepts as the text of its element tok, first being the text *)
(* of its first one: numbers of 32 bits, ids, strings just as they are       *)
(* written, and in a tag field ids if the first is one.                      *)
ParsedElem(type, first, tok) ==
    CASE type \in {"since", "until", "limit", "kinds"} ->
             [ok |-> tok.kind = "prim" /\ tok.v < UintRange, v |-> tok.v]
      [] type \in {"ids", "authors"} ->
             [ok |-> tok.kind = "str" /\ IsHex(tok.v), v |-> IdOf(tok.v)]
      [] type = "tags" /\ IsHex(first) ->
             [ok |-> tok.kind = "str" /\ StartsHex(tok.v), v |-> IdOf(tok.v)]
      [] OTHER -> [ok |-> tok.kind = "str", v |-> tok.v]

(* The value at token i of a field: its elements and how many tokens it took;*)
(* a value of the wrong json type, or one that does not parse, fails the     *)
(* parse.                                                                    *)
ParsedValue(toks, i, type) ==
    LET tok == IF i <= Len(toks) THEN toks[i] ELSE Token("none", 0, 0)
        items == IF type \in OneElement THEN <<tok>> ELSE SubSeq(toks, i + 1, i + tok.size)
        parsed(j) == ParsedElem(type, items[1].v, items[j])
        good == /\ type \notin OneElement => tok.kind = "arr"
                /\ \A j \in 1..Len(items) : parsed(j).ok
    IN  [ok |-> good,
         elems |-> IF good THEN [j \in 1..Len(items) |-> parsed(j).v] ELSE <<>>,
         taken |-> 1 + tok.size]

ParsedType(type, elems) ==
    CASE type \in {"since", "until", "limit", "kinds"} -> "int"
      [] type = "search" -> "string"
      [] type = "tags" /\ elems[1] < IdBase -> "string"
      [] OTHER -> "id"

(* The fields ndb_filter_parse_json meets, in order. An unknown key skips    *)
(* one token, whatever its value is made of.                                 *)
ParsedJson(toks) ==
    LET from[i \in 2..Len(toks) + 3] ==
            IF i > Len(toks) THEN <<>>
            ELSE IF toks[i].field \notin ParsedFields THEN from[i + 2]
            ELSE LET val == ParsedValue(toks, i + 1, toks[i].field)
                 IN  <<[type |-> toks[i].field, tag |-> toks[i].tag, val |-> val]>> \o
                     IF val.ok THEN from[i + 1 + val.taken] ELSE <<>>
    IN  from[2]

Folded(op(_, _), base, s) ==
    LET upto[i \in 0..Len(s)] == IF i = 0 THEN base ELSE op(upto[i - 1], s[i])
    IN  upto[Len(s)]

ParseField(acc, p) ==
    LET put(g, v) == IF g.ok /\ AddsElement(g.f, ParsedType(p.type, p.val.elems))
                     THEN [g EXCEPT !.f = AddElement(@, ParsedType(p.type, p.val.elems), v)]
                     ELSE [g EXCEPT !.ok = FALSE]
        filled == Folded(put, [ok |-> TRUE, f |-> StartField(acc.f, p.type, p.tag)], p.val.elems)
    IN  IF acc.ok /\ p.val.ok /\ StartsField(acc.f, p.type) /\ filled.ok
        THEN [ok |-> TRUE, f |-> EndField(filled.f)] ELSE [acc EXCEPT !.ok = FALSE]

FilterFromJson(toks) ==
    LET read == Folded(ParseField, [ok |-> TRUE, f |-> FilterInit], ParsedJson(toks))
    IN  [read EXCEPT !.f = FilterEnd(@)]
=============================================================================
