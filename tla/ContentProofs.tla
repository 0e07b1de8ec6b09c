---------------------------- MODULE ContentProofs ----------------------------
(***************************************************************************)
(* Proofs about Content, for contents of any length, any size of the       *)
(* parser's buffer and any number of clients: the parser stays within the  *)
(* content and the buffer, the blocks it makes leave nothing out, and a    *)
(* client frees what is its own.                                           *)
(***************************************************************************)
EXTENDS Content, SequenceTheorems, WellFoundedInduction, TLAPS

-----------------------------------------------------------------------------
(* Numbers and sequences *)

\* A set of numbers that is not empty has a least one.
LEMMA LeastNat ==
    ASSUME NEW S \in SUBSET Nat, S # {}
    PROVE  Min(S) \in S /\ \A y \in S : Min(S) <= y
  <1> DEFINE R == {ss \in Nat \X Nat : ss[1] < ss[2]}
  <1>a. IsWellFoundedOn(R, Nat)
    BY NatLessThanWellFounded DEF OpToRel
  <1>b. \A x, y \in Nat : x < y => <<x, y>> \in R
    OBVIOUS
  <1> HIDE DEF R
  <1>1. PICK x \in S : \A y \in S : ~(<<y, x>> \in R)
    BY <1>a, WFMin
  <1>2. \A y \in S : x <= y
    <2> SUFFICES ASSUME NEW y \in S PROVE x <= y
      OBVIOUS
    <2>1. x \in Nat /\ y \in Nat /\ ~(y < x)
      BY <1>1, <1>b
    <2> QED BY <2>1
  <1> QED BY <1>2 DEF Min

\* Where a search that begins at k comes to rest.
LEMMA StopIs ==
    ASSUME content \in Seq(Alphabet), NEW k \in 1..Len(content) + 1, NEW places \in SUBSET Positions
    PROVE  /\ Stop(k, places) \in k..Len(content) + 1
           /\ \A q \in places : q >= k => Stop(k, places) <= q
           /\ Stop(k, places) <= Len(content) => Stop(k, places) \in places
  <1> DEFINE S == {q \in places : q >= k} \cup {Len(content) + 1}
  <1>1. Len(content) \in Nat
    OBVIOUS
  <1>2. S \in SUBSET Nat /\ S # {} /\ \A q \in S : q \in k..Len(content) + 1
    <2>1. \A q \in places : q \in Nat /\ q <= Len(content)
      BY <1>1 DEF Positions
    <2>2. \A q \in S : q \in Nat /\ q \in k..Len(content) + 1
      BY <1>1, <2>1
    <2> QED BY <2>2
  <1> HIDE DEF S
  <1>3. Min(S) \in S /\ \A y \in S : Min(S) <= y
    BY <1>2, LeastNat
  <1>4. Stop(k, places) = Min(S)
    BY DEF Stop, S
  <1>5. Min(S) \in k..Len(content) + 1
    BY <1>2, <1>3
  <1>6. \A q \in places : q >= k => Min(S) <= q
    BY <1>3 DEF S
  <1>7. Min(S) <= Len(content) => Min(S) \in places
    BY <1>1, <1>3 DEF S
  <1> QED BY <1>4, <1>5, <1>6, <1>7

\* The part of a sequence from one position to another.
LEMMA SubSeqIs ==
    ASSUME NEW S, NEW s \in Seq(S), NEW a \in Int, NEW b \in Int, 1 <= a, a <= b + 1, b <= Len(s)
    PROVE  /\ SubSeq(s, a, b) \in Seq(S)
           /\ Len(SubSeq(s, a, b)) = b - a + 1
           /\ \A i \in 1..(b - a + 1) : SubSeq(s, a, b)[i] = s[a + i - 1]
  <1>1. \A i \in a..b : s[i] \in S
    BY LenProperties
  <1>2. /\ SubSeq(s, a, b) \in Seq(S)
        /\ Len(SubSeq(s, a, b)) = IF a <= b THEN b - a + 1 ELSE 0
        /\ \A i \in 1..b - a + 1 : SubSeq(s, a, b)[i] = s[a + i - 1]
    BY <1>1, SubSeqProperties
  <1>3. Len(SubSeq(s, a, b)) = b - a + 1
    BY <1>2
  <1> QED BY <1>2, <1>3

\* Two sequences that agree up to n.
LEMMA SamePrefix ==
    ASSUME NEW S, NEW s \in Seq(S), NEW t \in Seq(S), NEW n \in Nat, n <= Len(s), n <= Len(t),
           \A i \in 1..n : s[i] = t[i]
    PROVE  SubSeq(s, 1, n) = SubSeq(t, 1, n)
  <1> DEFINE x == SubSeq(s, 1, n)
             y == SubSeq(t, 1, n)
  <1>1. x \in Seq(S) /\ Len(x) = n - 1 + 1 /\ \A i \in 1..(n - 1 + 1) : x[i] = s[1 + i - 1]
    BY SubSeqIs
  <1>2. y \in Seq(S) /\ Len(y) = n - 1 + 1 /\ \A i \in 1..(n - 1 + 1) : y[i] = t[1 + i - 1]
    BY SubSeqIs
  <1> HIDE DEF x, y
  <1>3. Len(x) = Len(y) /\ \A i \in 1..Len(x) : x[i] = y[i]
    BY <1>1, <1>2
  <1>4. x = y
    BY <1>1, <1>2, <1>3, SeqEqual
  <1> QED BY <1>4 DEF x, y

\* The symbols at a position, one by one.
LEMMA StrIs ==
    ASSUME content \in Seq(Alphabet), NEW k \in Nat \ {0}, NEW s \in Seq(Alphabet), Str(k, s)
    PROVE  /\ k + Len(s) <= Len(content)
           /\ \A i \in 1..Len(s) : content[k + i - 1] = s[i]
           /\ SubSeq(content, k, k + Len(s) - 1) = s
  <1>1. k + Len(s) <= Len(content) /\ SubSeq(content, k, k + Len(s) - 1) = s
    BY DEF Str
  <1> DEFINE b == k + Len(s) - 1
  <1>2. b \in Int /\ 1 <= k /\ k <= b + 1 /\ b <= Len(content) /\ b - k + 1 = Len(s) /\ k \in Int
    BY <1>1
  <1> HIDE DEF b
  <1>3. \A i \in 1..(b - k + 1) : SubSeq(content, k, b)[i] = content[k + i - 1]
    BY <1>2, SubSeqIs
  <1>4. SubSeq(content, k, b) = s
    BY <1>1 DEF b
  <1>5. \A i \in 1..Len(s) : content[k + i - 1] = s[i]
    BY <1>2, <1>3, <1>4
  <1> QED BY <1>1, <1>5

-----------------------------------------------------------------------------
(* What the parser finds *)

Types == {"text", "hashtag", "url", "index", "mention", "invoice"}

Blocks == [type : Types, from : Int, to : Int, next : Int]

\* What the content c holds between two blocks is a mark, or a link to damus.io.
Skipped(g) == g \in Markers \/ IsPrefix(<<"http", ":", "/", "/", "damus", ".", "io">>, g)

Gap(c, from, to) ==
    /\ from <= to
    /\ Skipped(SubSeq(c, from, to - 1))

\* A block m found at position k: in the content, ahead of k, and with no more
\* than a mark before it.
FoundAt(m, k) ==
    /\ m \in Blocks
    /\ k <= m.from
    /\ m.type = "mention" => m.from < m.to
    /\ k < m.next
    /\ m.next <= Len(content) + 1
    /\ Gap(content, k, m.from)

\* What lies between two positions is a gap when it is empty or one of the markers.
LEMMA GapIs ==
    \A c, from, to, g :
       from <= to /\ g = SubSeq(c, from, to - 1) /\ Skipped(g) => Gap(c, from, to)
  BY Zenon DEF Gap

\* A marker in front of a mention or invoice is a text a block may leave out.
LEMMA MarkerSkipped == \A g \in Markers : Skipped(g)
  BY DEF Skipped

\* Nothing lies between a position and itself.
LEMMA EmptyGap ==
    ASSUME content \in Seq(Alphabet), NEW k \in Int
    PROVE  Gap(content, k, k)
  <1>1. SubSeq(content, k, k - 1) = <<>>
    BY SubSeqEmpty
  <1>2. <<>> \in Markers
    BY DEF Markers
  <1>3. k <= k
    OBVIOUS
  <1>4. Skipped(<<>>)
    BY <1>2, MarkerSkipped
  <1> QED BY <1>1, <1>3, <1>4, GapIs

\* One symbol before a block.
LEMMA OneBefore ==
    ASSUME content \in Seq(Alphabet), NEW k \in Positions, <<content[k]>> \in Markers
    PROVE  Gap(content, k, k + 1)
  <1> DEFINE s == SubSeq(content, k, k)
             x == content[k]
             to == k + 1
  <1>1. s \in Seq(Alphabet) /\ Len(s) = 1
    BY SubSeqIs DEF Positions
  <1>2. s[1] = x /\ x \in Alphabet
    BY SubSeqIs DEF Positions
  <1>3. to - 1 = k /\ k <= to
    BY DEF Positions
  <1>4. s = SubSeq(content, k, to - 1)
    BY <1>3
  <1> HIDE DEF s, x, to
  <1>5. s = <<x>>
    BY <1>1, <1>2, SeqEqual
  <1>6. Skipped(s)
    BY <1>5, MarkerSkipped DEF x
  <1>7. Gap(content, k, to)
    BY <1>3, <1>4, <1>6, GapIs
  <1> QED BY <1>7 DEF to

\* A scheme before a block.
LEMMA SchemeBefore ==
    ASSUME content \in Seq(Alphabet), NEW k \in Positions, NEW s \in Markers, NEW to, Str(k, s),
           Len(s) = 2, to = k + 2
    PROVE  Gap(content, k, to)
  <1>1. to - 1 = k + Len(s) - 1 /\ k <= to
    BY DEF Positions
  <1>2. SubSeq(content, k, k + Len(s) - 1) = s
    BY DEF Str
  <1>3. s = SubSeq(content, k, to - 1)
    BY <1>1, <1>2, Zenon
  <1>4. Skipped(s)
    BY MarkerSkipped
  <1> QED BY <1>1, <1>3, <1>4, GapIs

\* parse_mention_index
LEMMA MentionIndexFound ==
    ASSUME content \in Seq(Alphabet), NEW k \in Positions, NEW m \in MentionIndex(k)
    PROVE  FoundAt(m, k)
  <1> DEFINE places == {q \in Positions : content[q] # "1" \/ q = k + 5}
             e == Stop(k + 2, places)
  <1>1. Char(k + 2, "1") /\ Char(e, "]") /\ m = Block("index", k, e + 1, e + 1)
    BY DEF MentionIndex
  <1>2. k \in Nat /\ k >= 1 /\ k + 2 <= Len(content)
    BY <1>1 DEF Char, Positions
  <1>3. places \in SUBSET Positions /\ k + 2 \in 1..Len(content) + 1
    BY <1>2
  <1> HIDE DEF places
  <1>4. e \in k + 2..Len(content) + 1
    BY <1>3, StopIs
  <1> HIDE DEF e
  <1>5. e <= Len(content)
    BY <1>1 DEF Char
  <1>6. Gap(content, k, k)
    BY <1>2, EmptyGap
  <1> QED BY <1>1, <1>2, <1>4, <1>5, <1>6 DEF FoundAt, Block, Blocks, Types

\* parse_hashtag
LEMMA HashtagFound ==
    ASSUME content \in Seq(Alphabet), NEW k \in Positions, content[k] = "#", NEW m \in Hashtag(k)
    PROVE  FoundAt(m, k)
  <1> DEFINE places == {q \in Positions : IsBoundary(content[q])}
             e == Stop(k + 1, places)
  <1>1. m = Block("hashtag", k + 1, e, e) /\ k + 1 <= Len(content)
    BY DEF Hashtag, Positions
  <1>2. k \in Nat /\ k >= 1 /\ places \in SUBSET Positions /\ k + 1 \in 1..Len(content) + 1
    BY <1>1 DEF Positions
  <1> HIDE DEF places
  <1>3. e \in k + 1..Len(content) + 1
    BY <1>2, StopIs
  <1> HIDE DEF e
  <1>4. Gap(content, k, k + 1)
    BY OneBefore DEF Markers
  <1> QED BY <1>1, <1>2, <1>3, <1>4 DEF FoundAt, Block, Blocks, Types

\* parse_nostr_bech32_str
LEMMA Bech32Found ==
    ASSUME content \in Seq(Alphabet), NEW k \in Nat \ {0}, NEW m \in Bech32(k)
    PROVE  /\ m \in Blocks
           /\ m.from = k
           /\ m.type = "mention"
           /\ m.to = m.next
           /\ k < m.to
           /\ m.to <= Len(content) + 1
           /\ k <= Len(content)
  <1> DEFINE places == {q \in Positions : ~IsAlnum(content[q])}
             e == Stop(k, places)
  <1>1. k <= Len(content) /\ content[k] \in Mentions /\ m = Block("mention", k, e, e)
    BY DEF Bech32
  <1>2. places \in SUBSET Positions /\ k \in 1..Len(content) + 1
    BY <1>1
  <1>3. k \notin places
    BY <1>1 DEF IsAlnum, Words
  <1> HIDE DEF places
  <1>4. e \in k..Len(content) + 1 /\ (e <= Len(content) => e \in places)
    BY <1>2, StopIs
  <1> HIDE DEF e
  <1>5. e # k
    BY <1>1, <1>3, <1>4
  <1> QED BY <1>1, <1>4, <1>5 DEF Block, Blocks, Types

\* parse_mention_bech32
LEMMA MentionFound ==
    ASSUME content \in Seq(Alphabet), NEW k \in Positions, NEW m \in Mention(k)
    PROVE  FoundAt(m, k)
  <1> DEFINE scheme == <<"nostr", ":">>
             at == IF Char(k, "@") THEN k + 1 ELSE k
             b == IF Str(at, scheme) THEN at + 2 ELSE at
  <1>1. k \in Nat /\ k >= 1 /\ k <= Len(content)
    BY DEF Positions
  <1>2. m \in Bech32(b)
    BY DEF Mention
  <1>3. at \in Nat \ {0} /\ b \in Nat \ {0} /\ at \in {k, k + 1} /\ b \in {at, at + 2} /\ k <= b
    BY <1>1
  <1>4. /\ m \in Blocks
        /\ m.from = b
        /\ m.type = "mention"
        /\ m.to = m.next
        /\ b < m.to
        /\ m.to <= Len(content) + 1
        /\ b <= Len(content)
    <2> HIDE DEF b
    <2> QED BY <1>2, <1>3, Bech32Found
  <1>5. Gap(content, k, b)
    <2>1. scheme \in Seq(Alphabet) /\ Len(scheme) = 2 /\ scheme \in Markers
      <3>1. "nostr" \in Alphabet /\ ":" \in Alphabet
        BY DEF Alphabet, Words
      <3>2. scheme \in Seq(Alphabet)
        BY <3>1
      <3>3. Len(scheme) = 2
        OBVIOUS
      <3>4. scheme \in Markers
        BY DEF Markers
      <3> QED BY <3>2, <3>3, <3>4
    <2>2. CASE ~Char(k, "@") /\ ~Str(at, scheme)
      <3>1. b = k
        BY <2>2
      <3> QED BY <3>1, <1>1, EmptyGap
    <2>3. CASE Char(k, "@") /\ ~Str(at, scheme)
      <3>1. b = k + 1 /\ content[k] = "@"
        BY <2>3 DEF Char
      <3>2. Gap(content, k, k + 1)
        BY <3>1, OneBefore DEF Markers
      <3> QED BY <3>1, <3>2
    <2>4. CASE ~Char(k, "@") /\ Str(at, scheme)
      <3>1. b = k + 2 /\ Str(k, scheme)
        BY <2>4
      <3> HIDE DEF scheme
      <3>2. Gap(content, k, k + 2)
        BY <2>1, <3>1, SchemeBefore
      <3> QED BY <3>1, <3>2
    <2>5. CASE Char(k, "@") /\ Str(at, scheme)
      <3>1. b = k + 3 /\ at = k + 1 /\ content[k] = "@" /\ Str(k + 1, scheme) /\ k + 1 \in Nat \ {0}
        BY <1>1, <2>5 DEF Char
      <3>2. /\ k + 1 + Len(scheme) <= Len(content)
            /\ \A i \in 1..Len(scheme) : content[k + 1 + i - 1] = scheme[i]
        <4> HIDE DEF scheme
        <4> QED BY <2>1, <3>1, StrIs
      <3>3. k + 3 <= Len(content)
        BY <3>2, <2>1, <1>1
      <3>4. content[k + 1] = "nostr" /\ content[k + 2] = ":"
        <4>1. content[k + 1 + 1 - 1] = scheme[1] /\ content[k + 1 + 2 - 1] = scheme[2]
          BY <3>2, <2>1
        <4> QED BY <4>1, <1>1
      <3> DEFINE g == SubSeq(content, k, k + 2)
      <3>5. g \in Seq(Alphabet) /\ Len(g) = 3 /\ \A i \in 1..3 : g[i] = content[k + i - 1]
        <4>1. /\ k \in Int /\ k + 2 \in Int /\ 1 <= k /\ k <= k + 2 + 1 /\ k + 2 <= Len(content)
              /\ k + 2 - k + 1 = 3
          BY <1>1, <3>3
        <4> DEFINE f == k + 2
        <4>2. /\ k \in Int /\ f \in Int /\ 1 <= k /\ k <= f + 1 /\ f <= Len(content) /\ f - k + 1 = 3
          BY <4>1
        <4>3. g = SubSeq(content, k, f)
          OBVIOUS
        <4> HIDE DEF f, g
        <4>4. /\ SubSeq(content, k, f) \in Seq(Alphabet)
              /\ Len(SubSeq(content, k, f)) = f - k + 1
              /\ \A i \in 1..(f - k + 1) : SubSeq(content, k, f)[i] = content[k + i - 1]
          BY <4>2, SubSeqIs
        <4> QED BY <4>2, <4>3, <4>4
      <3> HIDE DEF g
      <3>6. g[1] = "@" /\ g[2] = "nostr" /\ g[3] = ":"
        <4>1. g[1] = content[k + 1 - 1] /\ g[2] = content[k + 2 - 1] /\ g[3] = content[k + 3 - 1]
          BY <3>5
        <4> QED BY <4>1, <3>1, <3>4, <1>1
      <3>7. g = <<"@", "nostr", ":">>
        <4> DEFINE h == <<"@", "nostr", ":">>
        <4>1. "@" \in Alphabet /\ "nostr" \in Alphabet /\ ":" \in Alphabet
          BY DEF Alphabet, Words
        <4>2. h \in Seq(Alphabet) /\ Len(h) = 3 /\ h[1] = "@" /\ h[2] = "nostr" /\ h[3] = ":"
          BY <4>1
        <4> HIDE DEF h
        <4>3. \A i \in 1..Len(g) : g[i] = h[i]
          BY <3>5, <3>6, <4>2
        <4>4. g = h
          BY <3>5, <4>2, <4>3, SeqEqual
        <4> QED BY <4>4 DEF h
      <3>8. k + 3 - 1 = k + 2 /\ k <= k + 3
        BY <1>1
      <3> DEFINE to == k + 3
      <3>a. to - 1 = k + 2 /\ k <= to
        BY <1>1
      <3> HIDE DEF to
      <3>9. g = SubSeq(content, k, to - 1)
        BY <3>a, Zenon DEF g
      <3>10. g \in Markers
        BY <3>7 DEF Markers
      <3>11. Gap(content, k, to)
        BY <3>a, <3>9, <3>10, MarkerSkipped, GapIs
      <3> QED BY <3>1, <3>11 DEF to
    <2> QED BY <2>2, <2>3, <2>4, <2>5
  <1> HIDE DEF b
  <1>6. m.from < m.to /\ k < m.next /\ m.next <= Len(content) + 1 /\ k <= m.from
    <2>1. b \in Nat /\ k \in Nat /\ k <= b /\ b < m.to /\ m.to \in Int
      BY <1>1, <1>3, <1>4 DEF Blocks
    <2>2. k < m.to
      BY <2>1
    <2> QED BY <1>4, <2>1, <2>2
  <1> QED BY <1>4, <1>5, <1>6 DEF FoundAt

\* consume_url_host, consume_url_path, consume_url_fragment
LEMMA UrlEnds ==
    ASSUME content \in Seq(Alphabet), NEW h \in 1..Len(content) + 1
    PROVE  /\ HostEnd(h) \in h..Len(content) + 1
           /\ PathEnd(h) \in h..Len(content) + 1
           /\ FragmentEnd(h) = 0 \/ FragmentEnd(h) \in h..Len(content) + 1
  <1>1. Len(content) \in Nat /\ h \in Nat /\ h >= 1
    OBVIOUS
  <1>2. HostEnd(h) \in h..Len(content) + 1
    <2> DEFINE places == {q \in Positions : ~(IsAlnum(content[q]) \/ content[q] = ".") \/ Final(q)}
    <2>1. places \in SUBSET Positions
      OBVIOUS
    <2> HIDE DEF places
    <2>2. Stop(h, places) \in h..Len(content) + 1
      BY <2>1, StopIs
    <2> QED BY <2>2 DEF HostEnd, places
  <1>3. PathEnd(h) \in h..Len(content) + 1
    <2> DEFINE places == {q \in Positions : content[q] \in {"?", "#"} \/ Final(q)}
    <2>1. places \in SUBSET Positions
      OBVIOUS
    <2> HIDE DEF places
    <2>2. Stop(h, places) \in h..Len(content) + 1
      BY <2>1, StopIs
    <2>3. PathEnd(h) \in {h, Stop(h, places)}
      BY DEF PathEnd, places
    <2> QED BY <1>1, <2>2, <2>3
  <1>4. FragmentEnd(h) = 0 \/ FragmentEnd(h) \in h..Len(content) + 1
    <2>1. CASE ~(Char(h, "?") \/ Char(h, "#"))
      BY <1>1, <2>1 DEF FragmentEnd
    <2>2. CASE Char(h, "?") \/ Char(h, "#")
      <3> DEFINE places == {q \in Positions : Final(q)}
      <3>1. places \in SUBSET Positions
        OBVIOUS
      <3>2. h <= Len(content)
        BY <2>2 DEF Char
      <3>3. h + 1 \in 1..Len(content) + 1
        BY <1>1, <3>2
      <3>4. FragmentEnd(h) \in {0, Stop(h + 1, places)}
        BY <2>2 DEF FragmentEnd
      <3> HIDE DEF places
      <3>5. Stop(h + 1, places) \in h + 1..Len(content) + 1
        BY <3>1, <3>3, StopIs
      <3> QED BY <1>1, <3>4, <3>5
    <2> QED BY <2>1, <2>2
  <1> QED BY <1>2, <1>3, <1>4

\* The start of a link to damus.io before a mention.
LEMMA LinkBefore ==
    ASSUME content \in Seq(Alphabet), NEW k \in Positions, NEW host \in Int, NEW to \in Int,
           Str(k, <<"http", ":", "/", "/">>),
           SubSeq(content, k + 4, host - 1) = <<"damus", ".", "io">>,
           k + 4 < host, host <= Len(content) + 1, host <= to, to <= Len(content)
    PROVE  Gap(content, k, to)
  <1> DEFINE scheme == <<"http", ":", "/", "/">>
             name == <<"damus", ".", "io">>
             link == <<"http", ":", "/", "/", "damus", ".", "io">>
             g == SubSeq(content, k, to - 1)
  <1>1. k \in Nat \ {0} /\ k \in Int /\ k >= 1 /\ Len(content) \in Nat
    BY DEF Positions
  <1>2. \A i \in 1..4 : content[k + i - 1] = scheme[i]
    <2>1. scheme \in Seq(Alphabet) /\ Len(scheme) = 4
      <3>1. {"http", ":", "/"} \subseteq Alphabet
        BY DEF Alphabet, Words
      <3> QED BY <3>1
    <2>2. Str(k, scheme)
      OBVIOUS
    <2> HIDE DEF scheme
    <2>3. \A i \in 1..Len(scheme) : content[k + i - 1] = scheme[i]
      BY <1>1, <2>1, <2>2, StrIs
    <2> QED BY <2>1, <2>3
  <1>3. host = k + 7 /\ \A i \in 1..3 : content[k + 4 + i - 1] = name[i]
    <2> DEFINE a == k + 4
               b == host - 1
    <2>1. a \in Int /\ b \in Int /\ 1 <= a /\ a <= b + 1 /\ b <= Len(content)
      BY <1>1
    <2>2. SubSeq(content, a, b) = name
      OBVIOUS
    <2>3. Len(name) = 3
      OBVIOUS
    <2> HIDE DEF a, b, name
    <2>4. /\ Len(SubSeq(content, a, b)) = b - a + 1
          /\ \A i \in 1..(b - a + 1) : SubSeq(content, a, b)[i] = content[a + i - 1]
      BY <2>1, SubSeqIs
    <2>5. b - a + 1 = 3 /\ \A i \in 1..3 : name[i] = content[a + i - 1]
      BY <2>2, <2>3, <2>4
    <2>6. host = k + 7
      BY <1>1, <2>5 DEF a, b
    <2> QED BY <2>5, <2>6 DEF a
  <1>4. g \in Seq(Alphabet) /\ Len(g) = to - k /\ \A i \in 1..(to - k) : g[i] = content[k + i - 1]
    <2> DEFINE b == to - 1
    <2>1. b \in Int /\ 1 <= k /\ k <= b + 1 /\ b <= Len(content) /\ b - k + 1 = to - k
      BY <1>1, <1>3
    <2>2. g = SubSeq(content, k, b)
      OBVIOUS
    <2> HIDE DEF b, g
    <2>3. /\ SubSeq(content, k, b) \in Seq(Alphabet)
          /\ Len(SubSeq(content, k, b)) = b - k + 1
          /\ \A i \in 1..(b - k + 1) : SubSeq(content, k, b)[i] = content[k + i - 1]
      BY <1>1, <2>1, SubSeqIs
    <2> QED BY <2>1, <2>2, <2>3
  <1> HIDE DEF g
  <1>5. Len(g) >= 7 /\ Len(g) \in Nat
    BY <1>1, <1>3, <1>4
  <1>6. \A i \in 1..7 : g[i] = link[i]
    <2> DEFINE sym(i) == content[k + i - 1]
    <2>1. \A i \in 1..7 : g[i] = sym(i)
      BY <1>1, <1>3, <1>4
    <2>2. \A i \in 1..4 : sym(i) = scheme[i]
      BY <1>2
    <2>3. \A i \in 1..3 : sym(i + 4) = name[i]
      <3> SUFFICES ASSUME NEW i \in 1..3 PROVE sym(i + 4) = name[i]
        OBVIOUS
      <3>1. k + (i + 4) - 1 = k + 4 + i - 1
        BY <1>1
      <3>2. content[k + 4 + i - 1] = name[i]
        BY <1>3
      <3> HIDE DEF name
      <3> QED BY <3>1, <3>2
    <2> HIDE DEF sym
    <2>4. sym(1) = "http" /\ sym(2) = ":" /\ sym(3) = "/" /\ sym(4) = "/"
      <3>1. scheme[1] = "http" /\ scheme[2] = ":" /\ scheme[3] = "/" /\ scheme[4] = "/"
        OBVIOUS
      <3> HIDE DEF scheme
      <3> QED BY <2>2, <3>1
    <2>5. sym(5) = "damus" /\ sym(6) = "." /\ sym(7) = "io"
      <3>1. name[1] = "damus" /\ name[2] = "." /\ name[3] = "io"
        OBVIOUS
      <3>2. sym(1 + 4) = name[1] /\ sym(2 + 4) = name[2] /\ sym(3 + 4) = name[3]
        BY <2>3
      <3> HIDE DEF name
      <3> QED BY <3>1, <3>2
    <2>6. /\ link[1] = "http" /\ link[2] = ":" /\ link[3] = "/" /\ link[4] = "/"
          /\ link[5] = "damus" /\ link[6] = "." /\ link[7] = "io"
      OBVIOUS
    <2> HIDE DEF link
    <2>7. \A i \in 1..7 : sym(i) = link[i]
      BY <2>4, <2>5, <2>6
    <2> QED BY <2>1, <2>7
  <1>7. link \in Seq(Alphabet) /\ Len(link) = 7
    <2>1. {"http", ":", "/", "damus", ".", "io"} \subseteq Alphabet
      BY DEF Alphabet, Words
    <2> QED BY <2>1
  <1> HIDE DEF link
  <1>8. SubSeq(link, 1, 7) = SubSeq(g, 1, 7)
    <2>1. 7 \in Nat /\ 7 <= Len(link) /\ 7 <= Len(g)
      BY <1>5, <1>7
    <2> QED BY <1>4, <1>6, <1>7, <2>1, SamePrefix
  <1>9. IsPrefix(link, g)
    BY <1>5, <1>7, <1>8 DEF IsPrefix
  <1>10. Skipped(g)
    BY <1>9 DEF Skipped, link
  <1>11. k <= to
    BY <1>1, <1>3
  <1> QED BY <1>10, <1>11, GapIs DEF g

\* parse_url
LEMMA UrlFound ==
    ASSUME content \in Seq(Alphabet), NEW k \in Positions, NEW m \in Url(k)
    PROVE  FoundAt(m, k)
  <1> DEFINE host   == HostEnd(k + 4)
             end    == FragmentEnd(PathEnd(host))
             parens == k > 1 /\ Char(k - 1, "(") /\ Char(end - 1, ")")
             next   == IF parens THEN end - 1 ELSE end
             path   == IF host + 1 <= Len(content) THEN host + 1 ELSE host
             isLink == SubSeq(content, k + 4, host - 1) = <<"damus", ".", "io">>
             link   == IF isLink THEN Bech32(path) ELSE {}
  <1>1. /\ Str(k, <<"http", ":", "/", "/">>)
        /\ host # k + 4 /\ end # 0
        /\ \/ \E b \in link : m = [b EXCEPT !.next = next]
           \/ m = Block("url", k, next, next)
    <2>1. Str(k, <<"http", ":", "/", "/">>)
      BY DEF Url
    <2>2. m \in IF host = k + 4 \/ end = 0 THEN {}
                ELSE IF link # {} THEN {[b EXCEPT !.next = next] : b \in link}
                ELSE {Block("url", k, next, next)}
      BY <2>1 DEF Url
    <2> HIDE DEF host, end, next, link
    <2> QED BY <2>1, <2>2
  <1>2. k \in Nat /\ k >= 1 /\ Len(content) \in Nat /\ k + 4 <= Len(content)
    <2>1. Len(<<"http", ":", "/", "/">>) = 4
      OBVIOUS
    <2> QED BY <1>1, <2>1 DEF Str, Positions
  <1>3. k + 4 \in 1..Len(content) + 1
    BY <1>2
  <1>4. host \in k + 4..Len(content) + 1
    BY <1>3, UrlEnds
  <1> HIDE DEF host
  <1>5. host \in 1..Len(content) + 1 /\ k + 5 <= host /\ host \in Nat
    BY <1>1, <1>2, <1>4
  <1> DEFINE pe == PathEnd(host)
  <1>6. pe \in host..Len(content) + 1
    BY <1>5, UrlEnds
  <1>7. end = FragmentEnd(pe)
    OBVIOUS
  <1> HIDE DEF pe, end
  <1>8. pe \in 1..Len(content) + 1
    BY <1>5, <1>6
  <1>9. end \in pe..Len(content) + 1
    BY <1>1, <1>7, <1>8, UrlEnds
  <1>10. next \in {end, end - 1}
    OBVIOUS
  <1> HIDE DEF next
  <1>11. next \in Int /\ k + 4 <= next /\ next <= Len(content) + 1
    BY <1>2, <1>5, <1>6, <1>9, <1>10
  <1>12. CASE m = Block("url", k, next, next)
    <2>1. Gap(content, k, k)
      BY <1>2, EmptyGap
    <2>2. m.from = k /\ m.next = next /\ m.type = "url" /\ m \in Blocks
      BY <1>2, <1>11, <1>12 DEF Block, Blocks, Types
    <2> QED BY <1>2, <1>11, <2>1, <2>2 DEF FoundAt
  <1>13. CASE \E b \in link : m = [b EXCEPT !.next = next]
    <2>1. PICK b \in link : m = [b EXCEPT !.next = next]
      BY <1>13
    <2>2. isLink /\ b \in Bech32(path)
      BY <2>1
    <2>3. path \in Nat \ {0} /\ host <= path
      BY <1>5
    <2>4. /\ b \in Blocks
          /\ b.from = path
          /\ b.type = "mention"
          /\ path < b.to
          /\ path <= Len(content)
      <3> HIDE DEF path
      <3> QED BY <2>2, <2>3, Bech32Found
    <2>5. /\ m \in Blocks /\ m.from = path /\ m.type = "mention" /\ path < m.to /\ m.next = next
      <3> HIDE DEF path
      <3> QED BY <1>11, <2>1, <2>4 DEF Blocks
    <2>6. Gap(content, k, path)
      <3>1. host \in Int /\ path \in Int /\ k + 4 < host /\ host <= Len(content) + 1
        BY <1>2, <1>5, <2>3
      <3> HIDE DEF path
      <3> QED BY <1>1, <2>2, <2>3, <2>4, <3>1, LinkBefore
    <2>7. k <= path /\ k < next
      BY <1>2, <1>5, <1>11, <2>3
    <2> HIDE DEF path
    <2> QED BY <1>11, <2>5, <2>6, <2>7 DEF FoundAt
  <1> QED BY <1>1, <1>12, <1>13

\* parse_invoice
LEMMA InvoiceFound ==
    ASSUME content \in Seq(Alphabet), NEW k \in Positions, NEW m \in Invoice(k)
    PROVE  FoundAt(m, k)
  <1> DEFINE scheme == <<"lightning", ":">>
             at == IF Str(k, scheme) THEN k + 2 ELSE k
             places == {q \in Positions : IsWhite(content[q])}
             e == Stop(at, places)
  <1>1. k \in Nat /\ k >= 1 /\ Len(content) \in Nat
    BY DEF Positions
  <1>2. at <= Len(content) /\ content[at] \in Invoices /\ m = Block("invoice", at, e, e)
    BY DEF Invoice
  <1>3. at \in Nat /\ k <= at
    BY <1>1
  <1>4. Gap(content, k, at)
    <2>1. CASE ~Str(k, scheme)
      <3>1. at = k
        BY <2>1
      <3> QED BY <3>1, <1>1, EmptyGap
    <2>2. CASE Str(k, scheme)
      <3>1. scheme \in Markers /\ Len(scheme) = 2
        BY DEF Markers
      <3>2. at = k + 2
        BY <2>2
      <3> HIDE DEF scheme, at
      <3> QED BY <2>2, <3>1, <3>2, SchemeBefore
    <2> QED BY <2>1, <2>2
  <1> HIDE DEF at
  <1>5. places \in SUBSET Positions /\ at \in 1..Len(content) + 1
    BY <1>1, <1>2, <1>3
  <1>6. at \notin places
    BY <1>2 DEF IsWhite, Invoices
  <1> HIDE DEF places
  <1>7. e \in at..Len(content) + 1 /\ (e <= Len(content) => e \in places)
    BY <1>5, StopIs
  <1> HIDE DEF e
  <1>8. e # at
    BY <1>2, <1>6, <1>7
  <1>9. m.from = at /\ m.next = e /\ m.type = "invoice" /\ m \in Blocks
    BY <1>2, <1>3, <1>7 DEF Block, Blocks, Types
  <1> QED BY <1>1, <1>3, <1>4, <1>7, <1>8, <1>9 DEF FoundAt

\* Whatever ndb_parse_content finds at a position.
LEMMA FoundIs ==
    ASSUME content \in Seq(Alphabet), NEW k \in Positions, NEW m \in Found(k)
    PROVE  FoundAt(m, k)
  <1>1. \/ m \in MentionIndex(k)
        \/ content[k] = "#" /\ m \in Hashtag(k)
        \/ m \in Url(k)
        \/ m \in Invoice(k)
        \/ m \in Mention(k)
    BY DEF Found
  <1> QED BY <1>1, MentionIndexFound, HashtagFound, UrlFound, InvoiceFound, MentionFound

-----------------------------------------------------------------------------
(* Packing *)

\* What a buffer holds.
Elems ==
    Types \cup Int
        \cup {"size", "type", "version", "msat", "timestamp", "expiry", "described",
              "description", "nul", "a key", "no event"}

\* A buffer that is not overrun.
InRoom(b, r) == b \in Seq(Elems) /\ Len(b) <= r

\* Writing one number keeps a buffer within its room, whether it fits or not.
LEMMA PushVarintFits ==
    ASSUME room \in Nat, NEW b, InRoom(b, room), NEW x \in Elems
    PROVE  InRoom(PushVarint(b, x), room)
  <1>1. CASE Len(b) < room
    <2>1. PushVarint(b, x) = Append(b, x)
      BY <1>1 DEF PushVarint
    <2>2. Append(b, x) \in Seq(Elems) /\ Len(Append(b, x)) = Len(b) + 1 /\ Len(b) \in Nat
      BY DEF InRoom
    <2> QED BY <1>1, <2>1, <2>2 DEF InRoom
  <1>2. CASE ~(Len(b) < room)
    BY <1>2 DEF PushVarint
  <1> QED BY <1>1, <1>2

\* Writing several numbers keeps a buffer within its room.
LEMMA PushVarintsFits ==
    ASSUME room \in Nat, NEW b, InRoom(b, room), NEW xs \in Seq(Elems)
    PROVE  InRoom(PushVarints(b, xs), room)
  <1> DEFINE n == IF Len(xs) <= room - Len(b) THEN Len(xs) ELSE room - Len(b)
             y == SubSeq(xs, 1, n)
  <1>1. b \in Seq(Elems) /\ Len(b) \in Nat /\ Len(b) <= room /\ Len(xs) \in Nat
    BY DEF InRoom
  <1>2. n \in Nat /\ n <= Len(xs) /\ n <= room - Len(b)
    BY <1>1
  <1> HIDE DEF n
  <1>3. y \in Seq(Elems) /\ Len(y) = n - 1 + 1
    BY <1>2, SubSeqIs
  <1>4. PushVarints(b, xs) = b \o y
    BY DEF PushVarints, n
  <1> HIDE DEF y
  <1>5. b \o y \in Seq(Elems) /\ Len(b \o y) = Len(b) + Len(y)
    BY <1>1, <1>3, ConcatProperties
  <1>6. Len(b \o y) <= room
    BY <1>1, <1>2, <1>3, <1>5
  <1> QED BY <1>4, <1>5, <1>6 DEF InRoom

\* The encoding of a text block is a sequence of elements the buffer can hold.
LEMMA StrBlockTyped == \A m \in Blocks : StrBlock(m) \in Seq(Elems)
  <1> SUFFICES ASSUME NEW m \in Blocks PROVE StrBlock(m) \in Seq(Elems)
    OBVIOUS
  <1>1. m.from \in Elems /\ m.to - m.from \in Elems
    <2>1. m.from \in Int /\ m.to - m.from \in Int
      BY DEF Blocks
    <2> QED BY <2>1 DEF Elems
  <1> QED BY <1>1 DEF StrBlock

\* push_bech32_mention
LEMMA PackMentionFits ==
    ASSUME room \in Nat, NEW b, InRoom(b, room), NEW m \in Blocks, m.from < m.to,
           NEW x \in PackMention(b, m)
    PROVE  InRoom(x, room)
  <1> DEFINE withStr  == PushVarints(b, StrBlock(m))
             sized    == withStr \o <<"size", "size">>
             withType == PushVarint(sized, "type")
             scratch  == 2 * (m.to - m.from)
  <1>1. PICK data \in Payload(m) : /\ Len(withStr) + 2 < room
                                   /\ Len(withType) + scratch <= room
                                   /\ x = withType \o <<data>>
    BY DEF PackMention
  <1>2. scratch \in Nat /\ scratch >= 1
    BY DEF Blocks
  <1> HIDE DEF scratch
  <1>3. data \in Elems
    BY DEF Payload, Elems
  <1>4. InRoom(withStr, room)
    BY StrBlockTyped, PushVarintsFits
  <1> HIDE DEF withStr
  <1>5. <<"size", "size">> \in Seq(Elems) /\ Len(<<"size", "size">>) = 2
    <2>1. "size" \in Elems
      BY DEF Elems
    <2> QED BY <2>1
  <1>6. InRoom(sized, room)
    <2> DEFINE two == <<"size", "size">>
    <2>1. two \in Seq(Elems) /\ Len(two) = 2
      BY <1>5
    <2> HIDE DEF two
    <2>2. withStr \o two \in Seq(Elems) /\ Len(withStr \o two) = Len(withStr) + Len(two)
      BY <1>4, <2>1, ConcatProperties DEF InRoom
    <2>3. Len(withStr) \in Nat
      BY <1>4 DEF InRoom
    <2>4. InRoom(withStr \o two, room)
      BY <1>1, <2>1, <2>2, <2>3 DEF InRoom
    <2> QED BY <2>4 DEF two
  <1>7. "type" \in Elems
    BY DEF Elems
  <1> HIDE DEF sized
  <1>8. InRoom(withType, room)
    BY <1>6, <1>7, PushVarintFits
  <1> HIDE DEF withType
  <1>9. x \in Seq(Elems) /\ Len(x) = Len(withType) + 1 /\ Len(withType) \in Nat
    BY <1>1, <1>3, <1>8, ConcatProperties DEF InRoom
  <1> QED BY <1>1, <1>2, <1>9 DEF InRoom

\* push_invoice_str, ndb_encode_invoice
LEMMA PackInvoiceFits ==
    ASSUME room \in Nat, NEW b, InRoom(b, room), NEW m \in Blocks, NEW x \in PackInvoice(b, m)
    PROVE  InRoom(x, room)
  <1> DEFINE withStr == PushVarints(b, StrBlock(m))
             head    == Append(withStr, "version")
             three   == <<"msat", "timestamp", "expiry">>
             last    == <<"described", "description", "nul">>
             numbers == PushVarints(head, three)
  <1>1. Len(withStr) < room /\ Len(numbers) + 3 <= room /\ x = numbers \o last
    BY DEF PackInvoice
  <1>2. InRoom(withStr, room)
    BY StrBlockTyped, PushVarintsFits
  <1> HIDE DEF withStr
  <1>3. InRoom(head, room)
    <2>1. "version" \in Elems
      BY DEF Elems
    <2>2. head \in Seq(Elems) /\ Len(head) = Len(withStr) + 1 /\ Len(withStr) \in Nat
      BY <1>2, <2>1 DEF InRoom
    <2> QED BY <1>1, <2>2 DEF InRoom
  <1>4. three \in Seq(Elems)
    <2>1. "msat" \in Elems /\ "timestamp" \in Elems /\ "expiry" \in Elems
      BY DEF Elems
    <2> QED BY <2>1
  <1>5. last \in Seq(Elems) /\ Len(last) = 3
    <2>1. "described" \in Elems /\ "description" \in Elems /\ "nul" \in Elems
      BY DEF Elems
    <2> QED BY <2>1
  <1> HIDE DEF head, three, last
  <1>6. InRoom(numbers, room)
    BY <1>3, <1>4, PushVarintsFits
  <1> HIDE DEF numbers
  <1>7. x \in Seq(Elems) /\ Len(x) = Len(numbers) + Len(last)
    BY <1>1, <1>5, <1>6, ConcatProperties DEF InRoom
  <1> QED BY <1>1, <1>5, <1>7 DEF InRoom

\* Falling back to text keeps the buffer within its room.
LEMMA PackTextFits ==
    ASSUME room \in Nat, NEW b, InRoom(b, room), NEW m \in Blocks
    PROVE  InRoom(PackText(b, m), room)
  <1> DEFINE xs == <<"text">> \o StrBlock(m)
  <1>1. <<"text">> \in Seq(Elems)
    <2>1. "text" \in Elems
      BY DEF Elems, Types
    <2> QED BY <2>1
  <1>2. xs \in Seq(Elems)
    BY <1>1, StrBlockTyped, ConcatProperties
  <1> HIDE DEF xs
  <1>3. InRoom(PushVarints(b, xs), room)
    BY <1>2, PushVarintsFits
  <1> QED BY <1>3 DEF PackText, xs

-----------------------------------------------------------------------------
(* Blocks in a row *)

\* Where the blocks q end, and what is between them.
EndOf(q) == IF q = <<>> THEN 1 ELSE q[Len(q)].next

Joined(c, q) ==
    \A k \in 1..Len(q) : Gap(c, IF k = 1 THEN 1 ELSE q[k - 1].next, q[k].from)

\* The parser's buffer b, count n and blocks q, up to position e.
Laid(c, r, b, n, q, e) ==
    /\ InRoom(b, r)
    /\ n \in Nat
    /\ q \in Seq(Blocks)
    /\ Len(q) <= n
    /\ Joined(c, q)
    /\ EndOf(q) = e

\* A block that begins where the last one ended, up to a marker, extends the chain.
LEMMA JoinedAppend ==
    ASSUME NEW c, NEW q \in Seq(Blocks), NEW x \in Blocks, Joined(c, q), Gap(c, EndOf(q), x.from)
    PROVE  Joined(c, Append(q, x)) /\ EndOf(Append(q, x)) = x.next
  <1> DEFINE y == Append(q, x)
  <1>1. /\ Len(q) \in Nat /\ y \in Seq(Blocks) /\ Len(y) = Len(q) + 1
        /\ y[Len(q) + 1] = x
        /\ \A k \in 1..Len(q) : y[k] = q[k]
    BY AppendProperties
  <1> HIDE DEF y
  <1>2. EndOf(y) = x.next
    BY <1>1 DEF EndOf
  <1>3. ASSUME NEW k \in 1..Len(y)
        PROVE  Gap(c, IF k = 1 THEN 1 ELSE y[k - 1].next, y[k].from)
    <2>1. CASE k <= Len(q)
      <3>1. k \in 1..Len(q) /\ y[k] = q[k] /\ (k # 1 => y[k - 1] = q[k - 1])
        BY <1>1, <2>1
      <3>2. Gap(c, IF k = 1 THEN 1 ELSE q[k - 1].next, q[k].from)
        BY <3>1 DEF Joined
      <3> QED BY <3>1, <3>2
    <2>2. CASE k = Len(q) + 1
      <3>1. y[k] = x
        BY <1>1, <2>2
      <3>2. EndOf(q) = IF k = 1 THEN 1 ELSE y[k - 1].next
        <4>1. CASE q = <<>>
          BY <2>2, <4>1 DEF EndOf
        <4>2. CASE q # <<>>
          <5>1. Len(q) >= 1 /\ k # 1 /\ k - 1 = Len(q)
            BY <1>1, <2>2, <4>2
          <5>2. y[k - 1] = q[Len(q)]
            BY <1>1, <5>1
          <5> QED BY <4>2, <5>1, <5>2 DEF EndOf
        <4> QED BY <4>1, <4>2
      <3> QED BY <3>1, <3>2
    <2> QED BY <1>1, <2>1, <2>2
  <1>4. Joined(c, y)
    BY <1>3 DEF Joined
  <1> QED BY <1>2, <1>4 DEF y

\* push_block
LEMMA PushBlockLaid ==
    ASSUME room \in Nat, NEW s, NEW e, Laid(content, room, s.buf, s.num, s.pushed, e),
           NEW m \in Blocks, m.type = "mention" => m.from < m.to, Gap(content, e, m.from),
           NEW r, r = PushBlock(s, m)
    PROVE  Laid(content, room, r.buf, r.num, r.pushed, m.next)
  <1> DEFINE tagged == PushVarint(s.buf, m.type)
             index  == m.to - m.from - 3
             packed == CASE m.type = "mention" -> PackMention(tagged, m)
                         [] m.type = "invoice" -> PackInvoice(tagged, m)
                         [] m.type = "index"   -> {PushVarint(tagged, index)}
                         [] OTHER              -> {PushVarints(tagged, StrBlock(m))}
             some == CHOOSE b \in packed : TRUE
             text == [m EXCEPT !.type = "text"]
  <1>1. \/ packed # {} /\ r.buf = some /\ r.num = s.num + 1 /\ r.pushed = Append(s.pushed, m)
        \/ r.buf = PackText(s.buf, m) /\ r.num = s.num + 2 /\ r.pushed = Append(s.pushed, text)
    <2>1. r = IF packed # {}
              THEN [buf |-> some, num |-> s.num + 1, pushed |-> Append(s.pushed, m)]
              ELSE [buf |-> PackText(s.buf, m), num |-> s.num + 2, pushed |-> Append(s.pushed, text)]
      BY DEF PushBlock
    <2> HIDE DEF packed, some, text
    <2> QED BY <2>1
  <1>2. /\ InRoom(s.buf, room) /\ s.num \in Nat /\ s.pushed \in Seq(Blocks)
        /\ Len(s.pushed) <= s.num /\ Joined(content, s.pushed) /\ EndOf(s.pushed) = e
    BY DEF Laid
  <1>3. InRoom(tagged, room)
    <2>1. m.type \in Elems
      BY DEF Blocks, Elems
    <2> QED BY <1>2, <2>1, PushVarintFits
  <1>4. \A b \in packed : InRoom(b, room)
    <2> HIDE DEF tagged
    <2>1. CASE m.type = "mention"
      BY <1>3, <2>1, PackMentionFits
    <2>2. CASE m.type = "invoice"
      BY <1>3, <2>2, PackInvoiceFits
    <2>3. CASE m.type = "index"
      <3>1. index \in Elems
        <4>1. index \in Int
          BY DEF Blocks
        <4> HIDE DEF index
        <4> QED BY <4>1 DEF Elems
      <3> HIDE DEF index
      <3>2. packed = {PushVarint(tagged, index)}
        BY <2>3
      <3> HIDE DEF packed
      <3> QED BY <1>3, <3>1, <3>2, PushVarintFits
    <2>4. CASE m.type \notin {"mention", "invoice", "index"}
      <3>1. packed = {PushVarints(tagged, StrBlock(m))}
        BY <2>4
      <3> HIDE DEF packed
      <3> QED BY <1>3, <3>1, StrBlockTyped, PushVarintsFits
    <2> QED BY <2>1, <2>2, <2>3, <2>4
  <1>5. InRoom(r.buf, room)
    <2>1. packed # {} => InRoom(some, room)
      <3> HIDE DEF packed
      <3> QED BY <1>4
    <2>2. InRoom(PackText(s.buf, m), room)
      BY <1>2, PackTextFits
    <2> HIDE DEF packed, some
    <2> QED BY <1>1, <2>1, <2>2
  <1>6. text \in Blocks /\ text.from = m.from /\ text.next = m.next
    BY DEF Blocks, Types
  <1> HIDE DEF packed, some, text
  <1>7. PICK x \in Blocks : x.from = m.from /\ x.next = m.next /\ r.pushed = Append(s.pushed, x)
    BY <1>1, <1>6
  <1>8. r.num \in Nat /\ s.num + 1 <= r.num
    BY <1>1, <1>2
  <1>9. r.pushed \in Seq(Blocks) /\ Len(r.pushed) = Len(s.pushed) + 1
    BY <1>2, <1>7
  <1>10. Len(r.pushed) <= r.num
    BY <1>2, <1>8, <1>9
  <1>11. Joined(content, r.pushed) /\ EndOf(r.pushed) = m.next
    <2>1. Gap(content, EndOf(s.pushed), x.from)
      BY <1>2, <1>7
    <2>2. Joined(content, Append(s.pushed, x)) /\ EndOf(Append(s.pushed, x)) = x.next
      BY <1>2, <2>1, JoinedAppend
    <2> QED BY <1>7, <2>2
  <1> QED BY <1>5, <1>8, <1>9, <1>10, <1>11 DEF Laid

\* add_text_block
LEMMA AddTextLaid ==
    ASSUME content \in Seq(Alphabet), room \in Nat, NEW s, NEW from \in Int, NEW to \in Int,
           Laid(content, room, s.buf, s.num, s.pushed, from), NEW r, r = AddText(s, from, to)
    PROVE  Laid(content, room, r.buf, r.num, r.pushed, to)
  <1>1. CASE from = to
    <2>1. r = s
      BY <1>1 DEF AddText
    <2> QED BY <1>1, <2>1
  <1>2. CASE from # to
    <2> DEFINE m == Block("text", from, to, to)
    <2>1. r = PushBlock(s, m)
      BY <1>2 DEF AddText
    <2>2. m \in Blocks /\ m.type # "mention" /\ m.from = from /\ m.next = to
      BY DEF Block, Blocks, Types
    <2>3. Gap(content, from, m.from)
      BY <2>2, EmptyGap
    <2> HIDE DEF m
    <2>4. Laid(content, room, r.buf, r.num, r.pushed, m.next)
      BY <2>1, <2>2, <2>3, PushBlockLaid
    <2> QED BY <2>2, <2>4
  <1> QED BY <1>1, <1>2

-----------------------------------------------------------------------------
(* The invariant *)

HeapRecords == [src : {"heap"}, owned : {TRUE}, buf : Seq(Elems)]

DbRecords == [src : {"db"}, owned : {FALSE}, buf : Seq(Elems)]

\* The parser is at a position of the content, behind the text it has not packed.
ParserInv ==
    /\ content \in Seq(Alphabet)
    /\ room \in Nat
    /\ stage \in {"idle", "writer", "client"}
    /\ p \in Nat
    /\ start \in 1..Len(content) + 1
    /\ start <= p
    /\ p <= Len(content) + 2
    /\ Laid(content, room, buf, num, pushed, start)

\* Whose the records are.
RecordsInv ==
    /\ db = None \/ db \in DbRecords
    /\ held = None \/ held \in HeapRecords \cup DbRecords
    /\ inbox \in Seq(HeapRecords)
    /\ Len(inbox) <= InboxSize

\* A client that parses has not made its copy yet.
CopiesInv ==
    /\ copies \in Nat
    /\ gets \in 0..MaxGets
    /\ copies <= gets
    /\ stage = "client" => copies < gets

\* Once there is a record, a parser that is idle has come to the end.
EndInv ==
    stage = "idle" =>
       \/ db = None /\ held = None /\ inbox = <<>>
       \/ start = Len(content) + 1

CInv == ParserInv /\ RecordsInv /\ CopiesInv /\ EndInv

\* The invariant holds before parsing begins.
LEMMA InitCInv == Init => CInv
  <1> SUFFICES ASSUME Init PROVE CInv
    OBVIOUS
  <1>1. content \in Seq(Alphabet) /\ room \in Nat /\ Len(content) \in Nat
    BY ContentAssumption DEF Init
  <1>2. Laid(content, room, <<>>, 0, <<>>, 1)
    <2>1. InRoom(<<>>, room)
      BY <1>1 DEF InRoom
    <2>2. Joined(content, <<>>) /\ EndOf(<<>>) = 1
      BY DEF Joined, EndOf
    <2> QED BY <2>1, <2>2 DEF Laid
  <1>3. ParserInv
    BY <1>1, <1>2 DEF Init, ParserInv
  <1>4. RecordsInv
    BY ContentAssumption DEF Init, RecordsInv
  <1>5. CopiesInv
    BY ContentAssumption DEF Init, CopiesInv
  <1>6. EndInv
    BY DEF Init, EndInv
  <1> QED BY <1>3, <1>4, <1>5, <1>6 DEF CInv

\* The variables are the fields of the record the packing operators work on.
LEMMA PackedFields == Packed.buf = buf /\ Packed.num = num /\ Packed.pushed = pushed
  BY DEF Packed

\* Pushing a block leaves the chain joined and the buffer within its room.
LEMMA AddBlockStep ==
    ASSUME CInv, AddBlock PROVE CInv'
  <1>1. PICK m \in Found(p) : /\ Becomes(PushBlock(AddText(Packed, start, p), m))
                              /\ p' = m.next
                              /\ start' = m.next
    BY DEF AddBlock
  <1>2. /\ content \in Seq(Alphabet) /\ room \in Nat /\ p \in Nat /\ start \in 1..Len(content) + 1
        /\ start <= p /\ Laid(content, room, buf, num, pushed, start) /\ Len(content) \in Nat
    BY DEF CInv, ParserInv
  <1>3. p \in Positions /\ stage # "idle"
    BY <1>2 DEF AddBlock, Parsing, Positions
  <1>4. FoundAt(m, p)
    BY <1>2, <1>3, FoundIs
  <1> DEFINE s == AddText(Packed, start, p)
             r == PushBlock(s, m)
  <1>5. Laid(content, room, s.buf, s.num, s.pushed, p)
    <2>1. start \in Int /\ p \in Int
      BY <1>2
    <2>2. Laid(content, room, Packed.buf, Packed.num, Packed.pushed, start)
      BY <1>2, PackedFields
    <2> QED BY <1>2, <2>1, <2>2, AddTextLaid
  <1> HIDE DEF s
  <1>6. /\ m \in Blocks /\ (m.type = "mention" => m.from < m.to) /\ Gap(content, p, m.from)
        /\ p < m.next /\ m.next <= Len(content) + 1
    BY <1>4 DEF FoundAt
  <1>7. Laid(content, room, r.buf, r.num, r.pushed, m.next)
    BY <1>2, <1>5, <1>6, PushBlockLaid
  <1>8. buf' = r.buf /\ num' = r.num /\ pushed' = r.pushed
    BY <1>1 DEF Becomes, s
  <1> HIDE DEF r
  <1>9. /\ UNCHANGED <<content, room, stage, db, inbox, held, copies, gets>>
    BY DEF AddBlock, recordVars
  <1>10. m.next \in Nat /\ m.next >= 1
    BY <1>2, <1>3, <1>6 DEF Blocks, Positions
  <1>11. Laid(content, room, buf', num', pushed', start')
    BY <1>1, <1>7, <1>8
  <1>12. start' \in 1..Len(content) + 1 /\ start' <= p' /\ p' <= Len(content) + 2 /\ p' \in Nat
    BY <1>1, <1>2, <1>6, <1>10
  <1>13. ParserInv'
    BY <1>9, <1>11, <1>12 DEF CInv, ParserInv
  <1>14. RecordsInv' /\ CopiesInv'
    BY <1>9 DEF CInv, RecordsInv, CopiesInv
  <1>15. EndInv'
    BY <1>3, <1>9 DEF EndInv
  <1> QED BY <1>13, <1>14, <1>15 DEF CInv

\* Moving past an ordinary character changes no block.
LEMMA AdvanceStep ==
    ASSUME CInv, Advance PROVE CInv'
  <1>1. UNCHANGED <<content, room, stage, start, buf, pushed, num, db, inbox, held, copies, gets>>
    BY DEF Advance, recordVars
  <1>2. /\ content \in Seq(Alphabet) /\ p \in Nat /\ Len(content) \in Nat /\ start <= p
        /\ start \in 1..Len(content) + 1 /\ p <= Len(content)
    BY DEF CInv, ParserInv, Advance, Parsing
  <1>3. p' = p + 1 \/ (p' = p + 3 /\ Str(p, <<"lightning", ":">>))
    BY DEF Advance
  <1>4. Len(<<"lightning", ":">>) = 2
    OBVIOUS
  <1>5. p' = p + 3 => p + 2 <= Len(content)
    BY <1>2, <1>3, <1>4 DEF Str
  <1>6. p' \in Nat /\ start <= p' /\ p' <= Len(content) + 2
    BY <1>2, <1>3, <1>5
  <1>7. ParserInv'
    BY <1>1, <1>6 DEF CInv, ParserInv
  <1> QED BY <1>1, <1>7 DEF CInv, RecordsInv, CopiesInv, EndInv

\* The flush of the last text closes the chain at the end of the content; the new record
\* has the client as its owner, and a copy for the writer if there is room.
LEMMA ParseEndStep ==
    ASSUME CInv, ParseEnd PROVE CInv'
  <1> DEFINE end  == Len(content) + 1
             s    == AddText(Packed, start, end)
             mine == Record(s.buf, TRUE)
             stored == [Record(s.buf, FALSE) EXCEPT !.src = "db"]
  <1>1. /\ content \in Seq(Alphabet) /\ room \in Nat /\ p \in Nat /\ start \in 1..Len(content) + 1
        /\ Laid(content, room, buf, num, pushed, start) /\ Len(content) \in Nat
    BY DEF CInv, ParserInv
  <1>2. Laid(content, room, s.buf, s.num, s.pushed, end)
    <2>1. start \in Int /\ end \in Int
      BY <1>1
    <2>2. Laid(content, room, Packed.buf, Packed.num, Packed.pushed, start)
      BY <1>1, PackedFields
    <2> HIDE DEF end
    <2> QED BY <1>1, <2>1, <2>2, AddTextLaid
  <1>3. /\ buf' = s.buf /\ num' = s.num /\ pushed' = s.pushed
        /\ stage' = "idle" /\ start' = end /\ p > Len(content)
        /\ stage # "idle"
        /\ UNCHANGED <<content, room, p, gets>>
    BY DEF ParseEnd, Becomes
  <1>4. \/ UNCHANGED <<db, inbox, held, copies>>
        \/ db' = stored /\ UNCHANGED <<inbox, held, copies>>
        \/ /\ stage # "writer" /\ held' = mine /\ copies' = copies + 1 /\ db' = db
           /\ inbox' = IF Len(inbox) < InboxSize THEN Append(inbox, mine) ELSE inbox
    BY DEF ParseEnd, recordVars
  <1>5. s.buf \in Seq(Elems)
    BY <1>2 DEF Laid, InRoom
  <1>6. stored \in DbRecords /\ mine \in HeapRecords
    <2> HIDE DEF s
    <2> QED BY <1>5 DEF Record, DbRecords, HeapRecords
  <1> HIDE DEF s, stored, mine
  <1>7. ParserInv'
    <2>1. Laid(content, room, buf', num', pushed', start')
      BY <1>2, <1>3
    <2>2. start' \in 1..Len(content) + 1 /\ start' <= p /\ p <= Len(content) + 2
      BY <1>1, <1>3 DEF CInv, ParserInv
    <2> QED BY <1>1, <1>3, <2>1, <2>2 DEF ParserInv
  <1>8. RecordsInv'
    <2>1. db' = None \/ db' \in DbRecords
      BY <1>4, <1>6 DEF CInv, RecordsInv
    <2>2. held' = None \/ held' \in HeapRecords \cup DbRecords
      BY <1>4, <1>6 DEF CInv, RecordsInv
    <2>3. inbox \in Seq(HeapRecords) /\ Len(inbox) <= InboxSize /\ InboxSize \in Nat /\ Len(inbox) \in Nat
      BY ContentAssumption DEF CInv, RecordsInv
    <2>4. Append(inbox, mine) \in Seq(HeapRecords) /\ Len(Append(inbox, mine)) = Len(inbox) + 1
      BY <1>6, <2>3
    <2>5. inbox' \in Seq(HeapRecords) /\ Len(inbox') <= InboxSize
      <3>1. CASE inbox' = inbox
        BY <2>3, <3>1
      <3>2. CASE Len(inbox) < InboxSize /\ inbox' = Append(inbox, mine)
        BY <2>3, <2>4, <3>2
      <3> QED BY <1>4, <3>1, <3>2
    <2> QED BY <2>1, <2>2, <2>5 DEF RecordsInv
  <1>9. CopiesInv'
    <2>1. CASE copies' = copies
      BY <1>3, <2>1 DEF CInv, CopiesInv
    <2>2. CASE stage # "writer" /\ copies' = copies + 1
      <3>1. stage = "client"
        BY <1>3, <2>2 DEF CInv, ParserInv
      <3> QED BY <1>3, <2>2, <3>1, ContentAssumption DEF CInv, CopiesInv
    <2> QED BY <1>4, <2>1, <2>2
  <1>10. EndInv'
    BY <1>3 DEF EndInv
  <1> QED BY <1>7, <1>8, <1>9, <1>10 DEF CInv

\* A lazy get returns the stored record or begins to parse.
LEMMA GetBlocksStep ==
    ASSUME CInv, GetBlocks PROVE CInv'
  <1>1. /\ stage = "idle" /\ held = None /\ gets < MaxGets /\ gets' = gets + 1
        /\ UNCHANGED <<content, room, db, inbox, copies>>
    BY DEF GetBlocks
  <1>2. CopiesInv'
    BY <1>1, ContentAssumption DEF CInv, CopiesInv
  <1>3. CASE db # None
    <2>1. held' = db /\ UNCHANGED <<stage, p, start, buf, pushed, num>>
      BY <1>3 DEF GetBlocks, parserVars
    <2>2. ParserInv'
      BY <1>1, <2>1 DEF CInv, ParserInv
    <2>3. RecordsInv'
      BY <1>1, <1>3, <2>1 DEF CInv, RecordsInv
    <2>4. EndInv'
      BY <1>1, <1>3, <2>1 DEF CInv, EndInv
    <2> QED BY <1>2, <2>2, <2>3, <2>4 DEF CInv
  <1>4. CASE db = None
    <2>1. /\ stage' = "client" /\ p' = 1 /\ start' = 1 /\ buf' = <<>> /\ pushed' = <<>> /\ num' = 0
          /\ held' = held
      BY <1>4 DEF GetBlocks, Fresh
    <2>2. content \in Seq(Alphabet) /\ room \in Nat /\ Len(content) \in Nat
      BY DEF CInv, ParserInv
    <2>3. Laid(content, room, <<>>, 0, <<>>, 1)
      <3>1. InRoom(<<>>, room)
        BY <2>2 DEF InRoom
      <3>2. Joined(content, <<>>) /\ EndOf(<<>>) = 1
        BY DEF Joined, EndOf
      <3> QED BY <3>1, <3>2 DEF Laid
    <2>4. ParserInv'
      BY <1>1, <2>1, <2>2, <2>3 DEF ParserInv
    <2>5. RecordsInv'
      BY <1>1, <2>1 DEF CInv, RecordsInv
    <2>6. EndInv'
      BY <2>1 DEF EndInv
    <2> QED BY <1>2, <2>4, <2>5, <2>6 DEF CInv
  <1> QED BY <1>3, <1>4

\* The writer copies a record and frees nothing.
LEMMA StoreStep ==
    ASSUME CInv, Store PROVE CInv'
  <1> DEFINE h == Head(inbox)
             written == [h EXCEPT !.owned = FALSE]
  <1>1. inbox \in Seq(HeapRecords) /\ inbox # <<>> /\ Len(inbox) \in Nat /\ Len(inbox) <= InboxSize
    BY DEF CInv, RecordsInv, Store
  <1>2. h \in HeapRecords /\ Tail(inbox) \in Seq(HeapRecords) /\ Len(Tail(inbox)) = Len(inbox) - 1
    BY <1>1, HeadTailProperties
  <1>3. /\ db' = [written EXCEPT !.src = "db"]
        /\ copies' = IF written.owned THEN copies - 1 ELSE copies
        /\ inbox' = Tail(inbox)
        /\ UNCHANGED <<content, room, stage, p, start, buf, pushed, num, held, gets>>
    BY DEF Store, parserVars
  <1> HIDE DEF h
  <1>4. written.owned = FALSE /\ [written EXCEPT !.src = "db"] \in DbRecords
    BY <1>2 DEF HeapRecords, DbRecords
  <1> HIDE DEF written
  <1>5. copies' = copies /\ db' \in DbRecords
    BY <1>3, <1>4
  <1>6. ParserInv'
    BY <1>3 DEF CInv, ParserInv
  <1>7. RecordsInv'
    BY <1>1, <1>2, <1>3, <1>5, ContentAssumption DEF CInv, RecordsInv
  <1>8. CopiesInv'
    BY <1>3, <1>5 DEF CInv, CopiesInv
  <1>9. EndInv'
    BY <1>1, <1>3 DEF CInv, EndInv
  <1> QED BY <1>6, <1>7, <1>8, <1>9 DEF CInv

\* Freeing ends the client's hold on its record.
LEMMA FreeStep ==
    ASSUME CInv, Free PROVE CInv'
  <1>1. held' = None /\ UNCHANGED <<content, room, stage, p, start, buf, pushed, num, db, inbox, copies, gets>>
    BY DEF Free, parserVars
  <1> QED BY <1>1 DEF CInv, ParserInv, RecordsInv, CopiesInv, EndInv

\* Every step of the parser, the clients and the writer keeps the invariant.
LEMMA NextCInv == CInv /\ [Next]_vars => CInv'
  <1> SUFFICES ASSUME CInv, [Next]_vars PROVE CInv'
    OBVIOUS
  <1>1. CASE UNCHANGED vars
    BY <1>1 DEF CInv, ParserInv, RecordsInv, CopiesInv, EndInv, vars, parserVars, recordVars
  <1> QED BY <1>1, AddBlockStep, AdvanceStep, ParseEndStep, GetBlocksStep, StoreStep, FreeStep DEF Next

\* The parser is at a position of the content, its buffer is not overrun, and the
\* blocks it has made follow each other without leaving anything out but marks.
THEOREM ContentInvariant == Spec => []CInv
  <1> QED BY InitCInv, NextCInv, PTL DEF Spec

\* Whatever the content and however small the buffer, the parser writes nothing
\* behind its end, and never leaves the content (content_parser.c:524-607).
THEOREM ContentBounds == Spec => []TypeOK
  <1>1. CInv => TypeOK
    <2> SUFFICES ASSUME CInv PROVE TypeOK
      OBVIOUS
    <2>1. Len(buf) <= room /\ num >= Len(pushed)
      <3>1. Len(buf) <= room /\ Len(pushed) <= num /\ num \in Nat /\ pushed \in Seq(Blocks)
        BY DEF CInv, ParserInv, Laid, InRoom
      <3> QED BY <3>1
    <2>2. copies \in 0..MaxGets
      BY ContentAssumption DEF CInv, CopiesInv
    <2> QED BY <2>1, <2>2 DEF CInv, ParserInv, RecordsInv, TypeOK
  <1> QED BY <1>1, ContentInvariant, PTL

\* Whatever the content, the blocks of a record cover it: they come in order, do
\* not overlap, and only marks and links to damus.io lie between them
\* (content_parser.c:511-522, 524-607).
THEOREM ContentNothingDropped == Spec => []NothingDropped
  <1>1. CInv => NothingDropped
    <2> SUFFICES ASSUME CInv, stage = "idle", Records # {}, NEW k \in 1..(Len(pushed) + 1)
                 PROVE  Gap(content, IF k = 1 THEN 1 ELSE pushed[k - 1].next,
                            IF k > Len(pushed) THEN Len(content) + 1 ELSE pushed[k].from)
      BY Zenon DEF NothingDropped, Gap, Skipped
    <2>1. /\ content \in Seq(Alphabet) /\ Len(content) \in Nat /\ pushed \in Seq(Blocks)
          /\ Joined(content, pushed) /\ EndOf(pushed) = start /\ Len(pushed) \in Nat
      BY DEF CInv, ParserInv, Laid
    <2>2. start = Len(content) + 1
      BY DEF CInv, EndInv, Records
    <2>3. CASE k <= Len(pushed)
      <3>1. k \in 1..Len(pushed) /\ ~(k > Len(pushed))
        BY <2>1, <2>3
      <3>2. Gap(content, IF k = 1 THEN 1 ELSE pushed[k - 1].next, pushed[k].from)
        BY <2>1, <3>1 DEF Joined
      <3> QED BY <3>1, <3>2
    <2>4. CASE k = Len(pushed) + 1
      <3> DEFINE end == Len(content) + 1
      <3>1. EndOf(pushed) = IF k = 1 THEN 1 ELSE pushed[k - 1].next
        <4>1. CASE pushed = <<>>
          BY <2>4, <4>1 DEF EndOf
        <4>2. CASE pushed # <<>>
          <5>1. k # 1 /\ k - 1 = Len(pushed)
            BY <2>1, <2>4, <4>2
          <5> QED BY <4>2, <5>1 DEF EndOf
        <4> QED BY <4>1, <4>2
      <3>2. end \in Int /\ k > Len(pushed) /\ EndOf(pushed) = end
        BY <2>1, <2>2, <2>4
      <3> HIDE DEF end
      <3>3. Gap(content, end, end)
        BY <2>1, <3>2, EmptyGap
      <3> QED BY <3>1, <3>2, <3>3 DEF end
    <2> QED BY <2>1, <2>3, <2>4
  <1> QED BY <1>1, ContentInvariant, PTL

\* A client frees a record if and only if it is its own, never one that lies in
\* the database (block.c:191-196, nostrdb.c:6754-6755, 11567).
THEOREM ContentOwnersFree == Spec => []OwnersFree
  <1>1. CInv => OwnersFree
    BY DEF CInv, RecordsInv, OwnersFree, HeapRecords, DbRecords
  <1> QED BY <1>1, ContentInvariant, PTL

=============================================================================
