----------------------------- MODULE TextSearch -----------------------------
(* Full text search and profile search (src/src/nostrdb.c): the words of a   *)
(* note's content are written to the NOTE_TEXT index, and a search walks the *)
(* entries of its longest word and looks, for each, for the other words in   *)
(* the same note. Names of profiles are written to the PROFILE_SEARCH index. *)
(*                                                                           *)
(* A character is a number: 0 is whitespace or punctuation, c + Upper is the *)
(* upper case of c. A text is a sequence of characters.                      *)
EXTENDS Integers, Sequences, SequencesExt, FiniteSets

CONSTANTS
    Contents,     \* the contents of notes
    Times,        \* their created_at
    MaxNotes,     \* bound on the notes written
    Queries,      \* the texts clients search for
    Filters,      \* the filters they give: NoFilter or [since, until, limit, keys]
    Limits,       \* the limits of their ndb_text_search_config
    MaxWords,     \* MAX_TEXT_SEARCH_WORDS
    MaxResults,   \* MAX_TEXT_SEARCH_RESULTS
    Longest,      \* the longest word with room in an index key
    SearchRoom,   \* the longest word with room in the search's key buffer
    IntRange,     \* 2^32: the keys cut timestamps to an int
    LongRange,    \* 2^64: the range of a varint
    Int32Max,     \* INT32_MAX, above every note key
    Names,        \* names of profiles
    MaxProfiles,  \* bound on the profiles written
    NameRoom,     \* characters of a name that its key keeps
    Pubkeys       \* whose they are

Upper == 100
NoFilter == [since |-> -1, until |-> -1, limit |-> -1, keys |-> {}]

ASSUME SearchAssumption ==
    /\ {MaxNotes, MaxWords, MaxResults, Longest, SearchRoom, NameRoom, MaxProfiles} \subseteq Nat
    /\ {IntRange, LongRange} \subseteq Nat \ {0} /\ IntRange <= LongRange
    /\ Int32Max \in Nat /\ MaxNotes < Int32Max /\ Longest <= SearchRoom
    /\ Times \subseteq Nat /\ Limits \subseteq Int
    /\ Contents \cup Queries \cup Names \subseteq Seq(Nat)
    /\ \A f \in Filters : {f.since, f.until, f.limit} \subseteq Int
    /\ Pubkeys \subseteq Nat \ {0}

VARIABLES
    notes,     \* the notes written: content and created_at, by note key
    index,     \* the NOTE_TEXT index
    words,     \* the words of the search, longest first
    filter, order, limit,  \* what the search was started with
    phase,     \* "write", "root", "word", "done" or "overrun"; "walk" for profiles
    j,         \* the word the search is at
    saved,     \* saved_buf: the entry of the root word to continue from
    last,      \* last_result
    root,      \* the entry of the root word that the candidate started from
    results,   \* the notes found, with their root entries
    profiles,  \* the profiles written
    names,     \* the PROFILE_SEARCH index
    query,     \* the name searched for
    hits       \* the entries a profile search has returned

text == <<notes, index, words, filter, order, limit, j, saved, last, root, results>>
people == <<profiles, names, query, hits>>
vars == <<text, people, phase>>

-----------------------------------------------------------------------------
(* Words and keys.                                                           *)

Lower(c) == IF c > Upper THEN c - Upper ELSE c
Lowered(w) == [i \in 1..Len(w) |-> Lower(w[i])]

(* ndb_parse_words: the maximal runs without a boundary, in order. *)
WordsWith(ws, s, i) ==
    IF s[i] = 0 THEN ws
    ELSE IF i = 1 \/ s[i - 1] = 0 THEN Append(ws, <<s[i]>>)
    ELSE [ws EXCEPT ![Len(ws)] = Append(@, s[i])]

ParseWords(s) ==
    LET upto[i \in 0..Len(s)] == IF i = 0 THEN <<>> ELSE WordsWith(upto[i - 1], s, i)
    IN  upto[Len(s)]

(* (int)timestamp, sign-extended to the 64 bits of a varint. *)
KeyTime(t) == LET low == t % IntRange
              IN  IF low < IntRange \div 2 THEN low ELSE LongRange - IntRange + low

TextKey(word, time, note, idx) ==
    [word |-> Lowered(word), time |-> KeyTime(time), note |-> note, idx |-> idx]

KeyHigh(word, until) == TextKey(word, until, Int32Max, 0)
KeyLow(word, since) == TextKey(word, since, 0, 0)
KeyNoted(word, entry) == [entry EXCEPT !.word = Lowered(word), !.idx = 0]

(* mdb_cmp_memn: bytes first, and the shorter of equal ones. *)
MemLess(a, b) ==
    \/ \E i \in 1..Len(b) : /\ \A k \in 1..(i - 1) : k <= Len(a) /\ a[k] = b[k]
                            /\ (i > Len(a) \/ a[i] < b[i])

Less3(a, b) == \/ a[1] < b[1]
               \/ (a[1] = b[1] /\ a[2] < b[2])
               \/ (a[1] = b[1] /\ a[2] = b[2] /\ a[3] < b[3])

KeyLess(a, b) ==
    \/ MemLess(a.word, b.word)
    \/ a.word = b.word /\ Less3(<<a.time, a.note, a.idx>>, <<b.time, b.note, b.idx>>)

NoEntry == [word |-> <<>>, time |-> 0, note |-> 0, idx |-> 0]
LeastOf(S) == IF S = {} THEN NoEntry ELSE CHOOSE e \in S : \A o \in S : o = e \/ KeyLess(e, o)
GreatestOf(S) == IF S = {} THEN NoEntry ELSE CHOOSE e \in S : \A o \in S : o = e \/ KeyLess(o, e)
SetRange(key) == LeastOf({e \in index : ~KeyLess(e, key)})
NextEntry(e) == LeastOf({o \in index : KeyLess(e, o)})
PrevEntry(e) == GreatestOf({o \in index : KeyLess(o, e)})

-----------------------------------------------------------------------------
(* Writing. A word without room in a key is skipped and not counted.         *)

WordEntries(content, time, key) ==
    LET all == ParseWords(content)
        kept == {i \in 1..Len(all) : Len(all[i]) <= Longest}
    IN  {TextKey(all[i], time, key, Cardinality({k \in kept : k < i})) : i \in kept}

WriteNote ==
    /\ phase = "write" /\ profiles = <<>> /\ Len(notes) < MaxNotes
    /\ \E c \in Contents, t \in Times :
           /\ notes' = Append(notes, [content |-> c, created_at |-> t])
           /\ index' = index \cup WordEntries(c, t, Len(notes) + 1)
    /\ UNCHANGED <<words, filter, order, limit, j, saved, last, root, results, people, phase>>

-----------------------------------------------------------------------------
(* Searching.                                                                *)

Least(S) == CHOOSE x \in S : \A y \in S : x <= y

(* sort_largest_to_smallest leaves the order of words of one length to qsort. *)
LongestFirst(ws) ==
    {p \in {[i \in 1..Len(ws) |-> ws[s[i]]] : s \in [1..Len(ws) -> 1..Len(ws)]} :
        /\ \A i \in 1..Len(ws) - 1 : Len(p[i]) >= Len(p[i + 1])
        /\ \A w \in Range(ws) : Cardinality({i \in 1..Len(ws) : p[i] = w}) = Cardinality({i \in 1..Len(ws) : ws[i] = w})}

SearchWords(q) == SubSeq(ParseWords(q), 1, Least({MaxWords, Len(ParseWords(q))}))

(* A uint64 that is assigned to an int. *)
ToInt(x) == LET low == x % IntRange
            IN  IF low < IntRange \div 2 THEN low ELSE low - IntRange

(* The limit of a filter replaces MAX_TEXT_SEARCH_RESULTS, whatever it is... *)
FilterLimit(f) == IF f = NoFilter \/ f.limit < 0 THEN MaxResults ELSE ToInt(f.limit)

(* ...and the limit of a config, any int, can only lower it. *)
SearchLimit(f, l) == Least({FilterLimit(f), l})

StartSearch ==
    /\ phase = "write" /\ notes # <<>>
    /\ \E q \in Queries, f \in Filters :
           /\ SearchWords(q) # <<>>
           /\ words' \in LongestFirst(SearchWords(q))
           /\ filter' = f
           /\ \/ order' = "desc" /\ limit' = FilterLimit(f)
              \/ \E l \in Limits, o \in {"asc", "desc"} : order' = o /\ limit' = SearchLimit(f, l)
    /\ phase' = "root"
    /\ UNCHANGED <<notes, index, j, saved, last, root, results, people>>

(* The key that a search starts from. *)
RootKey ==
    IF order = "desc" THEN KeyHigh(words[1], IF filter.until < 0 THEN IntRange - 1 ELSE filter.until)
    ELSE KeyLow(words[1], IF filter.since < 0 THEN 0 ELSE filter.since)

PrefixCount(a, b) ==
    Cardinality({i \in 1..Least({Len(a), Len(b)}) : \A k \in 1..i : a[k] = b[k]})

(* Mutant: any common prefix will do. *)
PrefixMatchesAny(stored, word) ==
    PrefixCount(stored, Lowered(word)) > 0

PrefixMatches(stored, word) ==
    LET low == Lowered(word)
    IN  /\ Len(stored) >= 2 /\ Len(low) >= 2
        /\ stored[1] = low[1] \/ stored[2] = low[2]
        /\ PrefixCount(stored, low) > (2 * Len(low)) \div 3

(* Mutant: a descending search does not look before the place it was put at. *)
NextWordOnce(fresh, key, word) ==
    LET at == IF ~fresh THEN (IF order = "desc" THEN PrevEntry(saved) ELSE NextEntry(saved))
              ELSE SetRange(key)
    IN  IF at # NoEntry /\ (last = NoEntry \/ at.note = last.note) /\ PrefixMatches(at.word, word)
        THEN at ELSE NoEntry

(* ndb_text_search_next_word: the entry that answers for a word, NoEntry when *)
(* there is none. A fresh search starts from a key (MDB_SET_RANGE), any other *)
(* goes on from the saved entry. A fresh descending search looks once before  *)
(* the place where it was put.                                                *)
NextWord(fresh, key, word) ==
    LET at == IF ~fresh THEN (IF order = "desc" THEN PrevEntry(saved) ELSE NextEntry(saved))
              ELSE IF SetRange(key) # NoEntry THEN SetRange(key)
              ELSE IF order = "desc" THEN GreatestOf(index) ELSE NoEntry
        ours(e) == last = NoEntry \/ e.note = last.note
        before == IF PrevEntry(at) = NoEntry THEN at ELSE PrevEntry(at)
    IN  IF at = NoEntry \/ ~ours(at) THEN NoEntry
        ELSE IF PrefixMatches(at.word, word) THEN at
        ELSE IF fresh /\ order = "desc" /\ ours(before) /\ PrefixMatches(before.word, word) THEN before
        ELSE NoEntry

FilterMatches(note) ==
    filter = NoFilter \/ ( /\ note \in filter.keys
                           /\ filter.since < 0 \/ notes[note].created_at >= filter.since
                           /\ filter.until < 0 \/ notes[note].created_at < filter.until )

(* The top of the loop over root words. A root word with no room in the      *)
(* buffer is tried again for ever: no step is enabled.                       *)
NextRoot ==
    /\ phase = "root"
    /\ \/ Len(results) >= limit /\ phase' = "done"
       \/ /\ Len(results) < limit
          /\ saved # NoEntry \/ Len(words[1]) <= SearchRoom
          /\ phase' = "word"
    /\ j' = 1 /\ last' = NoEntry
    /\ UNCHANGED <<notes, index, words, filter, order, limit, saved, root, results, people>>

RootEntry == NextWord(saved = NoEntry, RootKey, words[1])

(* The candidate of a root word is stored behind the results there are: past *)
(* the end of their array once it is full and the limit allows for more. What*)
(* the program does from there on is not defined.                            *)
Overrun ==
    /\ phase = "word" /\ j = 1
    /\ RootEntry # NoEntry /\ Len(results) >= MaxResults
    /\ phase' = "overrun"
    /\ UNCHANGED <<text, people>>

(* The root word. *)
RootWord ==
    /\ phase = "word" /\ j = 1
    /\ RootEntry = NoEntry \/ Len(results) < MaxResults
    /\ LET e == RootEntry
       IN  /\ phase' = (IF e = NoEntry THEN "done" ELSE IF ~FilterMatches(e.note) THEN "root"
                        ELSE IF Len(words) = 1 THEN "root" ELSE "word")
           /\ saved' = e
           /\ results' = (IF e # NoEntry /\ FilterMatches(e.note) /\ Len(words) = 1
                          THEN Append(results, [note |-> e.note, root |-> e]) ELSE results)
           /\ root' = e /\ last' = e
    /\ j' = 2
    /\ UNCHANGED <<notes, index, words, filter, order, limit, people>>

Known == \E i \in 1..Len(results) : results[i].note = last.note

(* A further word, in the note of the last one. *)
FurtherWord ==
    /\ phase = "word" /\ j > 1
    /\ LET e == IF Known THEN NoEntry ELSE NextWord(TRUE, KeyNoted(words[j], last), words[j])
       IN  /\ phase' = (IF e = NoEntry \/ j = Len(words) THEN "root" ELSE "word")
           /\ results' = (IF e # NoEntry /\ j = Len(words)
                          THEN Append(results, [note |-> e.note, root |-> root]) ELSE results)
           /\ last' = e
    /\ j' = j + 1
    /\ UNCHANGED <<notes, index, words, filter, order, limit, saved, root, people>>

-----------------------------------------------------------------------------
(* Profiles. A name's key is the lowered name, cut to NameRoom and padded    *)
(* with zeros, the pubkey and the created_at.                                *)

NameKey(name) == [i \in 1..NameRoom |-> IF i <= Len(name) THEN Lower(name[i]) ELSE 0]
NameLess(a, b) ==
    \/ MemLess(a.name, b.name)
    \/ a.name = b.name /\ Less3(<<a.pubkey, a.time, 0>>, <<b.pubkey, b.time, 0>>)

NoName == [name |-> <<>>, pubkey |-> 0, time |-> 0]
LeastName(S) == IF S = {} THEN NoName ELSE CHOOSE e \in S : \A o \in S : o = e \/ NameLess(e, o)

(* ndb_write_profile_search_indices, for a profile with a name and perhaps a *)
(* display name. Entries of older profiles stay.                             *)
WriteProfile ==
    /\ phase = "write" /\ notes = <<>> /\ Len(profiles) < MaxProfiles
    /\ \E p \in Pubkeys, n \in Names, d \in Names \cup {<<>>} :
           LET key(s) == [name |-> NameKey(s), pubkey |-> p, time |-> Len(profiles)]
           IN  /\ profiles' = Append(profiles, [pubkey |-> p, names |-> {n, d} \ {<<>>}])
               /\ names' = names \cup {key(s) : s \in {n, d} \ {<<>>}}
    /\ UNCHANGED <<text, query, hits, phase>>

(* ndb_search_profile *)
SearchProfile ==
    /\ phase = "write" /\ profiles # <<>>
    /\ \E q \in Names :
           LET first == LeastName({e \in names : ~NameLess(e, [name |-> NameKey(q), pubkey |-> 0, time |-> 0])})
           IN  /\ query' = q
               /\ hits' = (IF first = NoName THEN <<>> ELSE <<first>>)
               /\ phase' = (IF first = NoName THEN "done" ELSE "walk")
    /\ UNCHANGED <<text, profiles, names>>

(* Mutant: the entry after the last one is taken, whoever it names. *)
NextNameAny(e) == LeastName({o \in names : NameLess(e, o)})
(* ndb_search_profile_next skips entries of the pubkey it is at. *)
NextName(e) == LeastName({o \in names : NameLess(e, o) /\ o.pubkey # e.pubkey})

SearchProfileNext ==
    /\ phase = "walk"
    /\ LET o == NextName(Last(hits))
       IN  IF o = NoName THEN phase' = "done" /\ UNCHANGED hits
           ELSE hits' = Append(hits, o) /\ UNCHANGED phase
    /\ UNCHANGED <<text, profiles, names, query>>

Finished == phase \in {"done", "overrun"} /\ UNCHANGED vars

-----------------------------------------------------------------------------
Init ==
    /\ notes = <<>> /\ index = {} /\ words = <<>> /\ filter = NoFilter /\ order = "desc"
    /\ limit = 0 /\ phase = "write" /\ j = 1
    /\ saved = NoEntry /\ last = NoEntry /\ root = NoEntry /\ results = <<>>
    /\ profiles = <<>> /\ names = {} /\ query = <<>> /\ hits = <<>>

Search == NextRoot \/ RootWord \/ Overrun \/ FurtherWord \/ SearchProfileNext

Next == WriteNote \/ StartSearch \/ WriteProfile \/ SearchProfile \/ Search \/ Finished

Spec == Init /\ [][Next]_vars

-----------------------------------------------------------------------------
(* Properties.                                                               *)

TypeOK ==
    /\ phase \in {"write", "root", "word", "done", "overrun", "walk"}
    /\ Len(notes) <= MaxNotes /\ j \in 1..MaxWords + 1
    /\ \A i \in 1..Len(results) : results[i].note \in DOMAIN notes /\ results[i].root \in index
    /\ saved \in index \cup {NoEntry} /\ last \in index \cup {NoEntry}
    /\ \A i \in 1..Len(hits) : hits[i] \in names

(* A note that is returned contains, for every word searched for, a word     *)
(* that begins like it, and passes the filter: the loops of                  *)
(* ndb_text_search_with tie the words to one note and test the filter once.  *)
AllWordsFound ==
    \A i \in 1..Len(results) :
        /\ FilterMatches(results[i].note)
        /\ \A k \in 1..Len(words) :
              \E w \in Range(ParseWords(notes[results[i].note].content)) :
                  Len(w) >= 2 /\ PrefixCount(Lowered(w), Lowered(words[k])) * 3 > 2 * Len(words[k])

(* A search of several words returns a note once, however often its longest  *)
(* word occurs ("if we already have this note id, just continue").           *)
NoteOnce ==
    Len(words) > 1 => \A i, k \in 1..Len(results) : results[i].note = results[k].note => i = k

(* The results are no more than the filter and the config ask for, and fit   *)
(* the array of struct ndb_text_search_results; nothing is stored past its   *)
(* end unless they ask for more than it holds.                               *)
ResultsFit ==
    /\ results = <<>> \/ Len(results) <= limit
    /\ Len(results) <= MaxResults
    /\ phase = "overrun" => limit > MaxResults

(* Whatever limit it is given, a search stores nothing past the end of       *)
(* "results[MAX_TEXT_SEARCH_RESULTS]".                                       *)
NeverOverrun == phase # "overrun"

(* What a search returns is what was asked for, no more than there is room   *)
(* for, and nothing twice.                                                   *)
ResultsSound == TypeOK /\ AllWordsFound /\ NoteOnce /\ ResultsFit

(* Whether a note holds each of the words, in any case. *)
Holds(n) ==
    \A k \in 1..Len(words) :
        /\ Len(words[k]) \in 2..Longest
        /\ \E w \in Range(ParseWords(notes[n].content)) : Lowered(w) = Lowered(words[k])

(* A search that is over has returned every note that holds its words and    *)
(* passes the filter, unless its results are full; a full descending search  *)
(* has left out none that is newer than one it returned for the word itself. *)
NewestFound ==
    phase = "done" =>
        \A n \in DOMAIN notes :
            (words # <<>> /\ Holds(n) /\ FilterMatches(n) /\ notes[n].created_at < IntRange) =>
                \/ \E i \in 1..Len(results) : results[i].note = n
                \/ /\ Len(results) >= limit
                   /\ order = "desc" =>
                         \A i \in 1..Len(results) :
                             results[i].root.word = Lowered(words[1]) =>
                                 results[i].root.time >= KeyTime(notes[n].created_at)

(* A profile search reaches everyone whose name, old names included, begins  *)
(* with the query, in the order of the names, and never the same person      *)
(* twice in a row.                                                           *)
PeopleFound ==
    /\ \A i \in 1..Len(hits) - 1 : hits[i].pubkey # hits[i + 1].pubkey /\ NameLess(hits[i], hits[i + 1])
    /\ (phase = "done" /\ query # <<>>) =>
           \A i \in 1..Len(profiles) : \A n \in profiles[i].names :
               Len(query) <= NameRoom /\ IsPrefix(Lowered(query), Lowered(n)) =>
                   \E h \in 1..Len(hits) : hits[h].pubkey = profiles[i].pubkey
=============================================================================
