-------------------------------- MODULE Query --------------------------------
(* ndb_query and ndb_query_visit (src/src/nostrdb.c): a client builds        *)
(* filters with Filter's operations and runs them inside one read            *)
(* transaction. The planner picks an index; its runs are walked backwards,   *)
(* one cursor step at a time, and merged through a heap where a filter spans *)
(* several of them.                                                          *)
(*                                                                           *)
(* A read transaction sees one snapshot, so the database is a constant of a  *)
(* behaviour: a sequence of notes whose position is the note key. The text   *)
(* and profile searches are TextSearch's; here their hits are given.         *)
EXTENDS Filter

CONSTANTS
    Databases,    \* the databases a behaviour may start from
    Values,       \* Values[type]: the <<element type, element>> a client adds to such a field
    TagLetters,   \* the letters of the client's tag fields
    MaxFields, MaxElems,  \* bounds on the client's filters
    Others,       \* filters the client may run beside the one it builds
    Capacities,   \* result capacities
    MaxScanners,  \* NDB_MAX_AUTHOR_KIND_SCANNERS
    TextHits,     \* TextHits[term]: note keys of the text search, best first
    ProfileHits,  \* ProfileHits[term]: pubkeys of the profile search, in order
    Careful       \* the client fills every list and never mixes search and relays

Infinity == 1000

ASSUME QueryAssumption ==
    /\ MaxFields \in Nat /\ MaxElems \in Nat /\ MaxScanners \in Nat
    /\ Capacities \subseteq Nat \ {0}
    /\ Careful \in BOOLEAN
    /\ \A d \in Databases : \A k \in DOMAIN d : d[k].created_at < Infinity

VARIABLES
    db,        \* the snapshot
    f,         \* the filter the client is building
    asked,     \* the fields it has put into it: what it means by the filter
    filters,   \* the array it will query with
    mode,      \* "standard" or "visitor"
    cap,       \* result_capacity
    phase,     \* where the query is
    fi,        \* the filter it is at
    using,     \* the filter the scan matches against
    already,   \* what the scan answers for
    todo,      \* groups, elements or hits that are still to be visited
    profiles,  \* pubkeys of a profile search that are still to be visited
    cursor,    \* the entry under the cursor of a single-run scan
    scanners, heap,  \* struct ndb_index_merger
    slab,      \* what filter fi has delivered
    slabs,     \* what the filters before it have delivered
    limit, visited, stopped,  \* struct ndb_query_state
    results    \* what ndb_query returns

client == <<db, f, asked, filters>>
ask == <<mode, cap>>
scan == <<using, already, todo, profiles, cursor, scanners, heap>>
vars == <<client, ask, phase, fi, scan, slab, slabs, limit, visited, stopped, results>>

-----------------------------------------------------------------------------
(* The indexes, as the writer fills them. An entry is its key in the order   *)
(* of the index's comparator, with the note key last.                        *)

KindIndex == {<<db[k].kind, db[k].created_at, k>> : k \in DOMAIN db}
PubkeyIndex == {<<db[k].pubkey, db[k].created_at, k>> : k \in DOMAIN db}
PubkeyKindIndex == {<<db[k].pubkey, db[k].kind, db[k].created_at, k>> : k \in DOMAIN db}
IdIndex == {<<db[k].id, db[k].created_at, k>> : k \in DOMAIN db}
TagIndex == UNION {{<<t[1], t[2], db[k].created_at, k>> : t \in Range(db[k].tags)} : k \in DOMAIN db}
RelayKindIndex == UNION {{<<r, db[k].kind, db[k].created_at, k>> : r \in db[k].relays} : k \in DOMAIN db}

Less(a, b) == \E i \in 1..Len(a) : a[i] < b[i] /\ \A j \in 1..(i - 1) : a[j] = b[j]

NoEntry == <<>>
Greatest(S) == IF S = {} THEN NoEntry ELSE CHOOSE e \in S : \A o \in S : o = e \/ Less(o, e)

(* ndb_cursor_start: whether or not an entry at or after the key exists, the *)
(* cursor ends on the last one before it.                                    *)
CursorStart(index, key) == Greatest({e \in index : Less(e, key)})
Prev(index, entry) == Greatest({e \in index : Less(e, entry)})

NoteKey(e) == e[Len(e)]
CreatedAt(e) == e[Len(e) - 1]

Until(g) == GetInt(g, "until", Infinity)
Since(g) == GetInt(g, "since", 0)

-----------------------------------------------------------------------------
(* The planner.                                                              *)

Plan(g) ==
    LET count(type) == Len(FindElements(g, type).elems)
        kinds == Has(g, "kinds")
        authors == Has(g, "authors")
    IN  CASE g.empty -> "all_notes"
          [] kinds /\ FindElements(g, "kinds").elems = <<0>> /\ Has(g, "search") -> "profile_search"
          [] Has(g, "search") -> "search"
          [] Has(g, "ids") -> "ids"
          [] Has(g, "relays") /\ kinds /\ ~authors -> "relay_kinds"
          [] kinds /\ authors /\ (count("authors") = 1 \/ count("authors") * count("kinds") <= MaxScanners)
                -> "author_kinds"
          [] authors /\ count("authors") = 1 -> "authors"
          [] Has(g, "tags") /\ count("tags") = 1 -> "tags"
          [] kinds -> "kinds"
          [] OTHER -> "created"

(* What each plan scans: the index, the groups or the elements it visits in  *)
(* turn, and the fields it does not check again.                             *)
Pairs(as, bs) == FlattenSeq([i \in 1..Len(as) |-> [j \in 1..Len(bs) |-> <<as[i], bs[j]>>]])
Singles(as) == [i \in 1..Len(as) |-> <<as[i]>>]
AllKinds == SetToSortSeq({db[k].kind : k \in DOMAIN db}, <)

Groups(g) ==
    LET elems(type) == FindElements(g, type).elems
    IN  CASE Plan(g) = "relay_kinds" -> Pairs(elems("relays"), elems("kinds"))
          [] Plan(g) = "author_kinds" -> Pairs(elems("authors"), elems("kinds"))
          [] Plan(g) = "kinds" -> Singles(elems("kinds"))
          [] Plan(g) = "created" -> Singles(AllKinds)
          [] Plan(g) = "ids" -> Singles(elems("ids"))
          [] Plan(g) = "authors" -> Singles(elems("authors"))
          [] Plan(g) = "tags" -> [i \in 1..Len(elems("tags")) |->
                                     <<FindElements(g, "tags").tag, elems("tags")[i]>>]
          [] Plan(g) = "search" -> Singles(TextHits[elems("search")[1]])
          [] Plan(g) = "profile_search" -> <<>>
          [] Plan(g) = "all_notes" -> Singles([k \in DOMAIN db |-> k])

Index(g) == CASE Plan(g) = "relay_kinds" -> RelayKindIndex
              [] Plan(g) = "author_kinds" -> PubkeyKindIndex
              [] Plan(g) \in {"kinds", "created"} -> KindIndex
              [] Plan(g) = "ids" -> IdIndex
              [] Plan(g) = "authors" -> PubkeyIndex
              [] Plan(g) = "tags" -> TagIndex

(* Mutant: a scan of kinds also answers for the authors. *)
AlreadyMatchedMore(plan) ==
    CASE plan \in {"kinds", "author_kinds"} -> {"kinds", "authors"}
      [] plan = "relay_kinds" -> {"kinds", "relays"}
      [] plan \in {"ids", "authors", "tags"} -> {plan}
      [] OTHER -> {}

AlreadyMatched(plan) == CASE plan = "relay_kinds" -> {"kinds", "relays"}
                          [] plan = "author_kinds" -> {"kinds", "authors"}
                          [] plan = "kinds" -> {"kinds"}
                          [] plan = "ids" -> {"ids"}
                          [] plan = "authors" -> {"authors"}
                          [] plan = "tags" -> {"tags"}
                          [] OTHER -> {}

(* The key a group is sought with. The relay index has the note key in its   *)
(* key, so the seek starts past every note created at until.                 *)
SeekKey(g, group) == group \o <<Until(g), IF Plan(g) = "relay_kinds" THEN Infinity ELSE 0>>

Merging == {"relay_kinds", "author_kinds", "kinds", "created"}

-----------------------------------------------------------------------------
(* The merger: a max-heap of scanners on created_at, then on the note key.   *)

InGroup(entry, group) == entry # NoEntry /\ SubSeq(entry, 1, Len(group)) = group

(* Mutant: a note created at since is not loaded. *)
LoadsAfter(entry, group) == InGroup(entry, group) /\ CreatedAt(entry) > Since(using)

(* ndb_scanner_load: is the entry under the cursor one of the scanner's?     *)
Loads(entry, group) == InGroup(entry, group) /\ CreatedAt(entry) >= Since(using)

MergerGt(s, a, b) ==
    LET ea == s[a].entry
        eb == s[b].entry
    IN  IF CreatedAt(ea) # CreatedAt(eb) THEN CreatedAt(ea) > CreatedAt(eb)
        ELSE NoteKey(ea) > NoteKey(eb)

Swap(h, i, j) == [h EXCEPT ![i] = h[j], ![j] = h[i]]

MergerPush(s, h, x) ==
    LET n == Len(h) + 1
        up[i \in 1..n, g \in Seq(1..Len(s))] ==
            IF i > 1 /\ MergerGt(s, g[i], g[i \div 2])
            THEN up[i \div 2, Swap(g, i, i \div 2)] ELSE g
    IN  up[n, Append(h, x)]

MergerSift(s, h) ==
    LET down[i \in 1..(2 * Len(h) + 1), g \in Seq(1..Len(s))] ==
            LET left == IF 2 * i <= Len(g) /\ MergerGt(s, g[2 * i], g[i]) THEN 2 * i ELSE i
                big == IF 2 * i + 1 <= Len(g) /\ MergerGt(s, g[2 * i + 1], g[left])
                       THEN 2 * i + 1 ELSE left
            IN  IF big = i THEN g ELSE down[big, Swap(g, i, big)]
    IN  IF h = <<>> THEN h ELSE down[1, h]

-----------------------------------------------------------------------------
(* The client.                                                               *)

Init ==
    /\ db \in Databases
    /\ f = FilterInit /\ asked = <<>> /\ filters = <<>>
    /\ mode = "standard" /\ cap = 0
    /\ phase = "build" /\ fi = 0
    /\ using = FilterInit /\ already = {} /\ todo = <<>> /\ profiles = <<>> /\ cursor = NoEntry
    /\ scanners = <<>> /\ heap = <<>>
    /\ slab = <<>> /\ slabs = <<>> /\ limit = 0 /\ visited = 0 /\ stopped = FALSE
    /\ results = <<>>

querying == <<ask, fi, scan, slab, slabs, limit, visited, stopped, results>>

(* Clients start their fields in one order, so that each filter is built     *)
(* once; a repeated tag field may have another letter.                       *)
Rank == [ids |-> 1, authors |-> 2, kinds |-> 3, tags |-> 4, relays |-> 5, search |-> 6,
         custom |-> 7, since |-> 8, until |-> 9, limit |-> 10]

ClientStart(type, letter) ==
    /\ phase = "build" /\ filters = <<>>
    /\ StartsField(f, type)
    /\ Len(f.fields) < MaxFields
    /\ \A i \in 1..Len(f.fields) : Rank[f.fields[i].type] <= Rank[type]
    /\ Careful => ~(type = "search" /\ Has(f, "relays"))
    /\ f' = StartField(f, type, letter)
    /\ UNCHANGED <<db, asked, filters, phase, querying>>

(* A client that repeats an element gets the notes of that element twice;    *)
(* this one adds each once.                                                  *)
ClientAdd(etype, v) ==
    /\ phase = "build"
    /\ f.current # NoField
    /\ Len(f.current.elems) < MaxElems /\ v \notin Range(f.current.elems)
    /\ f' = AddElement(f, etype, v)
    /\ f' # f
    /\ UNCHANGED <<db, asked, filters, phase, querying>>

ClientEndField ==
    /\ phase = "build"
    /\ f.current # NoField
    /\ Careful => f.current.elems # <<>>
    /\ f.current.type \in OneElement \cup {"custom"} => f.current.elems # <<>>
    /\ IF SortAsserts(f)
       THEN f' = EndField(f) /\ phase' = phase
       ELSE f' = f /\ phase' = "aborted"
    /\ asked' = Append(asked, [f.current EXCEPT !.elems = Range(@)])
    /\ UNCHANGED <<db, filters, querying>>

ClientEnd ==
    /\ phase = "build" /\ filters = <<>> /\ f.current = NoField
    /\ f' = FilterEnd(f)
    /\ \E more \in {<<>>} \cup {<<o>> : o \in Others} : filters' = <<FilterClone(f')>> \o more
    /\ UNCHANGED <<db, asked, phase, querying>>

(* ndb_filter_destroy, once the buffer of elements is used up. *)
ClientDestroy ==
    /\ phase = "build" /\ f.current # NoField /\ f.elem = 0
    /\ f' = FilterInit /\ asked' = <<>> /\ phase' = "destroyed"
    /\ UNCHANGED <<db, filters, querying>>

QueryBegin(m, c) ==
    /\ phase = "build" /\ filters # <<>>
    /\ mode' = m /\ cap' = c
    /\ phase' = "plan" /\ fi' = 1
    /\ UNCHANGED <<client, scan, slab, slabs, limit, visited, stopped, results>>

-----------------------------------------------------------------------------
(* One filter of the query.                                                  *)

Least(a, b) == IF a < b THEN a ELSE b

(* ndb_query_state_fill_limit; ndb_query_visit turns the limit into a count  *)
(* of visits to reach.                                                       *)
FillLimit(g) ==
    LET wanted == GetInt(g, "limit", 0)
    IN  IF mode = "standard" THEN (IF wanted = 0 THEN cap ELSE Least(cap, wanted))
        ELSE IF wanted = 0 THEN 0 ELSE visited + wanted

Full == IF mode = "standard"
        THEN Len(slab) >= cap \/ (limit # 0 /\ Len(slab) >= limit)
        ELSE stopped \/ (limit # 0 /\ visited >= limit)

PlanFilter ==
    LET g == filters[fi]
        plan == Plan(g)
    IN  /\ phase = "plan" /\ ~stopped
        /\ limit' = FillLimit(g)
        /\ using' = g
        /\ already' = AlreadyMatched(plan)
        /\ todo' = Groups(g)
        /\ profiles' = IF plan = "profile_search" THEN ProfileHits[FindElements(g, "search").elems[1]]
                       ELSE <<>>
        /\ cursor' = NoEntry /\ scanners' = <<>> /\ heap' = <<>> /\ slab' = <<>>
        /\ phase' = IF plan \in Merging THEN "merge" ELSE plan
        /\ UNCHANGED <<client, ask, fi, slabs, visited, stopped, results>>

(* push_query_result: the buffer may be full, a visitor may ask to stop.     *)
Deliver(k) ==
    /\ slab' = IF mode = "standard" /\ Len(slab) >= cap THEN slab ELSE Append(slab, k)
    /\ IF mode = "standard" THEN UNCHANGED <<visited, stopped>>
       ELSE visited' = visited + 1 /\ stopped' \in {stopped, TRUE}

(* The loop stops after this push.                                           *)
PushFails == (mode = "standard" /\ Len(slab) >= cap) \/ stopped'

DeliverIf(ok, k) == IF ok THEN Deliver(k) ELSE UNCHANGED <<slab, visited, stopped>>

(* ndb_index_merger_add *)
MergerAdd ==
    LET group == Head(todo)
        entry == CursorStart(Index(using), SeekKey(using, group))
        all == Append(scanners, [group |-> group, entry |-> entry])
    IN  /\ phase = "merge" /\ todo # <<>>
        /\ todo' = Tail(todo)
        /\ scanners' = all
        /\ heap' = IF Loads(entry, group) THEN MergerPush(all, heap, Len(all)) ELSE heap
        /\ UNCHANGED <<client, ask, phase, fi, using, already, profiles, cursor, slab, slabs, limit, visited,
                       stopped, results>>

(* ndb_index_merger_next and ndb_query_drain_merger's loop body.             *)
MergerNext ==
    LET top == Head(heap)
        prev == Prev(Index(using), scanners[top].entry)
        k == NoteKey(scanners[top].entry)
        loads == Loads(prev, scanners[top].group)
        moved == IF prev = NoEntry THEN scanners ELSE [scanners EXCEPT ![top].entry = prev]
        kept == IF loads THEN heap
                ELSE IF Len(heap) = 1 THEN <<>>
                ELSE <<heap[Len(heap)]>> \o SubSeq(heap, 2, Len(heap) - 1)
    IN  /\ phase = "merge" /\ todo = <<>> /\ heap # <<>> /\ ~Full
        /\ scanners' = moved
        /\ heap' = MergerSift(moved, kept)
        /\ DeliverIf(MatchesWith(using, db[k], already), k)
        /\ UNCHANGED <<client, ask, phase, fi, using, already, todo, profiles, cursor, slabs, limit, results>>

(* ndb_query_plan_execute_ids: one lookup per id. *)
IdsStep ==
    LET id == Head(todo)[1]
        entry == CursorStart(IdIndex, SeekKey(using, Head(todo)))
        k == NoteKey(entry)
    IN  /\ phase = "ids" /\ todo # <<>> /\ ~Full
        /\ DeliverIf(InGroup(entry, <<id>>) /\ MatchesWith(using, db[k], already), k)
        /\ todo' = IF PushFails THEN <<>> ELSE Tail(todo)
        /\ UNCHANGED <<client, ask, phase, fi, using, already, profiles, cursor, scanners, heap, slabs, limit, results>>

(* ndb_query_plan_execute_authors and _tags: seek an element's run ...       *)
RunSeek ==
    /\ phase \in {"authors", "tags"} /\ todo # <<>> /\ cursor = NoEntry
    /\ cursor' = CursorStart(Index(using), SeekKey(using, Head(todo)))
    /\ todo' = IF cursor' = NoEntry THEN Tail(todo) ELSE todo
    /\ UNCHANGED <<client, ask, phase, fi, using, already, profiles, scanners, heap, slab, slabs, limit, visited,
                   stopped, results>>

(* ... and walk it backwards. Only the authors scan stops at since.          *)
RunGoesOn ==
    /\ InGroup(cursor, Head(todo))
    /\ (phase = "authors") => (CreatedAt(cursor) >= Since(using))

RunStep ==
    LET k == NoteKey(cursor)
    IN  /\ phase \in {"authors", "tags"} /\ cursor # NoEntry
        /\ DeliverIf(~Full /\ RunGoesOn /\ MatchesWith(using, db[k], already), k)
        /\ cursor' = IF Full \/ ~RunGoesOn \/ PushFails THEN NoEntry ELSE Prev(Index(using), cursor)
        /\ todo' = IF cursor' = NoEntry THEN Tail(todo) ELSE todo
        /\ UNCHANGED <<client, ask, phase, fi, using, already, profiles, scanners, heap, slabs, limit, results>>

(* ndb_query_plan_all_notes: by note key, whatever the limit.                *)
AllNotesStep ==
    /\ phase = "all_notes" /\ todo # <<>>
    /\ Deliver(Head(todo)[1])
    /\ todo' = IF PushFails THEN <<>> ELSE Tail(todo)
    /\ UNCHANGED <<client, ask, phase, fi, using, already, profiles, cursor, scanners, heap, slabs, limit, results>>

(* ndb_query_plan_execute_search. The text search checks the filter without  *)
(* a relay iterator, which ndb_filter_matches_with asserts it has.           *)
SearchStep ==
    LET k == Head(todo)[1]
        before == SelectSeq(using.fields, LAMBDA x : Rank[x.type] < Rank["relays"])
        asserts == Has(using, "relays") /\ \A i \in 1..Len(before) : FieldMatches(before[i], db[k])
    IN  /\ phase = "search" /\ todo # <<>> /\ ~Full
        /\ DeliverIf(~asserts /\ MatchesWith(using, db[k], already), k)
        /\ todo' = IF PushFails THEN <<>> ELSE Tail(todo)
        /\ phase' = IF asserts THEN "aborted" ELSE phase
        /\ UNCHANGED <<client, ask, fi, using, already, profiles, cursor, scanners, heap, slabs, limit, results>>

(* ndb_query_plan_execute_profile_search: a query {kinds: [0], authors: [pk]}*)
(* for every profile found, into the same results.                           *)
ProfileFilter(pk) ==
    LET kinds == EndField(AddElement(StartField(FilterInit, "kinds", 0), "int", 0))
    IN  FilterEnd(EndField(AddElement(StartField(kinds, "authors", 0), "id", pk)))

MergeDrained == phase = "merge" /\ todo = <<>> /\ (heap = <<>> \/ Full)

ProfileNext ==
    LET g == ProfileFilter(Head(profiles))
    IN  /\ phase = "profile_search" \/ MergeDrained
        /\ profiles # <<>> /\ ~Full
        /\ profiles' = Tail(profiles)
        /\ phase' = "merge"
        /\ using' = g /\ already' = AlreadyMatched("author_kinds") /\ todo' = Groups(g)
        /\ scanners' = <<>> /\ heap' = <<>>
        /\ UNCHANGED <<client, ask, fi, cursor, slab, slabs, limit, visited, stopped, results>>

-----------------------------------------------------------------------------
(* The filter is exhausted or full; the next one, or the merged results.     *)

FilterDone ==
    \/ MergeDrained /\ (profiles = <<>> \/ Full)
    \/ phase = "profile_search" /\ (profiles = <<>> \/ Full)
    \/ phase \in {"ids", "search"} /\ (todo = <<>> \/ Full)
    \/ phase \in {"authors", "tags"} /\ todo = <<>>
    \/ phase = "all_notes" /\ todo = <<>>
    \/ phase = "plan" /\ stopped

(* qsort by created_at, newest first. It is not stable: of the notes with    *)
(* one created_at any may come first.                                        *)
NewestFirst(s) == SortSeq(s, LAMBDA a, b : db[a].created_at > db[b].created_at)

QueryNext ==
    LET done == IF phase = "plan" THEN slabs ELSE Append(slabs, slab)
        total == NewestFirst(FlattenSeq(done))
    IN  /\ FilterDone
        /\ slabs' = done
        /\ IF fi < Len(filters) /\ ~stopped
           THEN phase' = "plan" /\ fi' = fi + 1 /\ UNCHANGED results
           ELSE /\ phase' = "done" /\ fi' = fi
                /\ results' = IF mode = "standard" THEN SubSeq(total, 1, Least(cap, Len(total)))
                              ELSE FlattenSeq(done)
        /\ UNCHANGED <<client, ask, scan, slab, limit, visited, stopped>>

Client ==
    \/ \E type \in FieldTypes \ {"tags"} : ClientStart(type, 0)
    \/ \E letter \in TagLetters : ClientStart("tags", letter)
    \/ f.current # NoField /\ \E v \in Values[f.current.type] : ClientAdd(v[1], v[2])
    \/ ClientEndField
    \/ ClientEnd
    \/ ClientDestroy
    \/ \E m \in {"standard", "visitor"}, c \in Capacities : QueryBegin(m, c)

Engine ==
    \/ PlanFilter \/ MergerAdd \/ MergerNext \/ IdsStep \/ RunSeek \/ RunStep
    \/ AllNotesStep \/ SearchStep \/ ProfileNext \/ QueryNext

Finished == phase \in {"done", "aborted", "destroyed"} /\ UNCHANGED vars

Next == Client \/ Engine \/ Finished

Spec == Init /\ [][Next]_vars
-----------------------------------------------------------------------------
TypeOK ==
    /\ db \in Databases
    /\ phase \in {"build", "plan", "merge", "ids", "authors", "tags", "search", "profile_search",
                 "all_notes", "done", "aborted", "destroyed"}
    /\ f.elem \in Nat /\ f.data \in Nat /\ f.finalized \in BOOLEAN
    /\ Len(f.fields) <= MaxFields
    /\ Len(filters) <= 2 /\ fi \in 0..2
    /\ mode \in {"standard", "visitor"} /\ cap \in Nat
    /\ Range(heap) \subseteq DOMAIN scanners
    /\ Range(slab) \subseteq DOMAIN db
    /\ (mode = "standard") => (Len(slab) <= cap)
    /\ limit \in Nat /\ visited \in Nat /\ stopped \in BOOLEAN

(* What the client asked for, field by field, in terms of the elements it    *)
(* added and not of the buffers they are kept in.                            *)
Wanted(w, note) ==
    CASE w.type = "ids" -> note.id \in w.elems
      [] w.type = "authors" -> note.pubkey \in w.elems
      [] w.type = "kinds" -> note.kind \in w.elems
      [] w.type = "tags" -> \E t \in Range(note.tags) : t[1] = w.tag /\ t[2] \in w.elems
      [] w.type = "relays" -> note.relays \cap w.elems # {}
      [] w.type = "since" -> \A v \in w.elems : note.created_at >= v
      [] w.type = "until" -> \A v \in w.elems : note.created_at < v
      [] w.type = "custom" -> \A v \in w.elems : note.id \in v
      [] OTHER -> TRUE

Reference == {k \in DOMAIN db : \A i \in 1..Len(asked) : Wanted(asked[i], db[k])}

Built == phase = "build" /\ f.finalized

(* A finished filter matches exactly the notes the client asked for, although*)
(* matching searches sorted arrays of offsets by bisection; so does the      *)
(* filter group of a subscription to it (ndb_filter_matches_with,            *)
(* ndb_filter_end_field, ndb_filter_group_matches).                          *)
MatchesAsAsked ==
    Built =>
        /\ {k \in DOMAIN db : MatchesWith(f, db[k], {})} = Reference
        /\ (Len(filters) = 1 /\ ~Has(f, "relays")) =>
               {k \in DOMAIN db : GroupMatches(filters, db[k])} = Reference

(* What json can carry of a filter: no relays and no callback, numbers of 32 *)
(* bits, strings that are written as they are, and no tag field of strings   *)
(* that starts with the hex digits of an id.                                 *)
JsonCarries(field) ==
    /\ field.type \notin {"relays", "custom"}
    /\ field.etype = "int" => \A v \in Range(field.elems) : v < UintRange
    /\ field.etype = "string" => \A v \in Range(field.elems) : Escaped[v] = v
    /\ (field.type = "tags" /\ field.etype = "string") => ~IsHex(field.elems[1])

(* A filter written with ndb_filter_json and read with ndb_filter_from_json  *)
(* is the filter it was if json can carry all its fields, and only then.     *)
JsonKeepsFilter ==
    Built =>
        LET back == FilterFromJson(FilterJson(f))
        IN  (back.ok /\ back.f = f) <=> \A i \in 1..Len(f.fields) : JsonCarries(f.fields[i])

(* ndb_filter_is_subset_of between the client's filter and another one: every*)
(* note that matches the subset matches the other. Filters on tags are left  *)
(* out: the comparison does not look at the letter of a tag field.           *)
SubsetSound ==
    Built => \A o \in Others : \A k \in DOMAIN db :
        ~Has(f, "tags") =>
            /\ IsSubsetOf(f, o) => (MatchesWith(f, db[k], {}) => MatchesWith(o, db[k], {}))
            /\ IsSubsetOf(o, f) => (MatchesWith(o, db[k], {}) => MatchesWith(f, db[k], {}))

(* A filter means what the client put into it, in whatever form it is used.  *)
FilterFaithful == MatchesAsAsked /\ JsonKeepsFilter /\ SubsetSound

(* The heap of the merger keeps a scanner with the newest entry on top, and  *)
(* only scanners whose cursor is inside their group and not below since      *)
(* (ndb_merger_push, ndb_merger_sift, ndb_scanner_load).                     *)
HeapOrdered ==
    phase = "merge" =>
        /\ \A i \in 2..Len(heap) : ~MergerGt(scanners, heap[i], heap[i \div 2])
        /\ \A i \in 1..Len(heap) : Loads(scanners[heap[i]].entry, scanners[heap[i]].group)
        /\ Cardinality(Range(heap)) = Len(heap)

(* Answers of the client's own filter. A tags scan marks every tag field as  *)
(* matched, so a filter with two of them is judged by its first only; a      *)
(* profile search looks at nothing but the search term.                      *)
Answered == phase = "done" /\ slabs # <<>>
OneTagField == Cardinality({i \in 1..Len(asked) : asked[i].type = "tags"}) <= 1

(* Whatever plan is chosen and wherever it stops, every note returned matches*)
(* the whole filter, and the merger's heap is in order on the way there      *)
(* (ndb_query_filter).                                                       *)
ResultsMatch ==
    /\ TypeOK
    /\ HeapOrdered
    /\ (Answered /\ OneTagField /\ Plan(filters[1]) # "profile_search") => Range(slabs[1]) \subseteq Reference

(* The same for every filter, as the comment at the index scans has it.      *)
ResultsMatchAllTags ==
    (Answered /\ Plan(filters[1]) # "profile_search") => Range(slabs[1]) \subseteq Reference

OrderedPlans == {"kinds", "created", "author_kinds", "authors", "tags", "relay_kinds"}
OneRun == Plan(filters[1]) = "relay_kinds" => Len(FindElements(filters[1], "relays").elems) = 1

(* The scans that walk runs by created_at deliver newest first, each note    *)
(* once, and as many as the limit and the capacity allow: no note that was   *)
(* left out is newer than one that was delivered. (With several relays a     *)
(* note seen on two of them is delivered twice.)                             *)
NewestDelivered ==
    LET got == slabs[1]
        wanted == GetInt(filters[1], "limit", 0)
        most == IF mode = "standard" THEN (IF wanted = 0 THEN cap ELSE Least(cap, wanted))
                ELSE IF wanted = 0 THEN Len(db) ELSE wanted
        complete == Least(most, Cardinality(Reference))
    IN  (Answered /\ OneTagField /\ OneRun /\ Plan(filters[1]) \in OrderedPlans) =>
            /\ Cardinality(Range(got)) = Len(got)
            /\ Len(got) <= complete
            /\ ~stopped => Len(got) = complete
            /\ \A i, j \in 1..Len(got) : i < j => db[got[i]].created_at >= db[got[j]].created_at
            /\ \A k \in Reference \ Range(got), i \in 1..Len(got) : db[k].created_at <= db[got[i]].created_at

(* No assertion of the filter code fails (sort_filter_elements,              *)
(* ndb_filter_matches_with).                                                 *)
NoAssertionFails == phase # "aborted"
=============================================================================
