------------------------------- MODULE Cache --------------------------------
(***************************************************************************)
(* The document cache of elinks (cache/cache.c) and those who use it:      *)
(* connections that load into an entry, formatted documents that lock one  *)
(* (document/document.c), and the cache manager that deletes some          *)
(* (cache/dialogs.c, bfu/hierbox.c).  What an entry holds is Fragments'    *)
(* business; here it has a size.                                           *)
(*                                                                         *)
(* A connection and a download remember the address of an entry, a         *)
(* document only its URI: it looks its entry up again to unlock it.        *)
(***************************************************************************)
EXTENDS Naturals, Sequences, FiniteSets, FiniteSetsExt, SequencesExt

CONSTANTS
    Uris,
    Options,       \* bound: what a document is formatted with (its width, say)
    Conns,         \* bound: the connections of connection_queue
    MaxEntries,    \* bound: the entries of the cache
    MaxDocuments,  \* bound: the length of format_cache
    MaxViews,      \* bound: the views of a document
    Sizes,         \* bound: the sizes of an entry
    CacheSize,     \* document.cache.memory.size
    GcPercent,     \* MEMORY_CACHE_GC_PERCENT
    FormatSize     \* document.cache.format.size

ASSUME CacheAssumption ==
    /\ {MaxEntries, MaxDocuments, MaxViews} \subseteq Nat
    /\ 0 \in Sizes /\ Sizes \subseteq Nat
    /\ {CacheSize, FormatSize} \subseteq Nat
    /\ GcPercent \in 0 .. 100

VARIABLES
    cache,         \* cache_entries, the most recently used first
    docs,          \* format_cache
    conn,          \* connection_queue: a connection, or Idle
    dialog,        \* a dialog about an entry, which is locked meanwhile
    broken         \* done_cache_entry() has met a failed assertion

vars == <<cache, docs, conn, dialog, broken>>

-----------------------------------------------------------------------------

Null == 0

\* Where an entry can be allocated.
Addresses == 1 .. MaxEntries

\* struct cache_entry, at its address.
Entry == [at : Addresses, uri : Uris, size : Sizes,
          incomplete : BOOLEAN, valid : BOOLEAN, locks : Nat]

\* struct document.  current: document->id = cached->id.
Doc == [uri : Uris, options : Options, at : Addresses, current : BOOLEAN,
        locks : Nat]

\* struct connection.
Idle == [uri |-> Null, cached |-> Null, detached |-> FALSE]

Busy(s) == conn[s].uri # Null

\* struct listbox_context.  deletes: it asks whether to delete the entry.
NoDialog == [at |-> Null, deletes |-> FALSE]

Init ==
    /\ cache = << >>
    /\ docs = << >>
    /\ conn = [s \in Conns |-> Idle]
    /\ dialog = NoDialog
    /\ broken = FALSE

-----------------------------------------------------------------------------
(***************************************************************************)
(* Finding an entry moves it to the top of the list.                       *)
(***************************************************************************)

Matches(c, u) == {i \in 1 .. Len(c) : c[i].valid /\ c[i].uri = u}

Known(c, u) == Matches(c, u) # {}

MoveToTop(c, i) == <<c[i]>> \o SubSeq(c, 1, i - 1) \o SubSeq(c, i + 1, Len(c))

\* find_in_cache(): what is found is then the first entry of the list.
FindInCache(c, u) ==
    IF Known(c, u) THEN MoveToTop(c, Min(Matches(c, u))) ELSE c

At(c, a) == CHOOSE i \in 1 .. Len(c) : c[i].at = a

Allocated(c) == {c[i].at : i \in 1 .. Len(c)}

\* is_entry_used()
Loading == {conn[s].cached : s \in Conns}

\* Mutant of Used: connections are forgotten.
UsedLocked(e) == e.locks > 0

\* is_object_used() or is_entry_used()
Used(e) == e.locks > 0 \/ e.at \in Loading

\* del_from_list() of the elements with the numbers is.
Without(l, is) ==
    LET kept[k \in 0 .. Len(l)] ==
            IF k = 0 THEN << >>
            ELSE IF k \in is THEN kept[k - 1] ELSE Append(kept[k - 1], l[k])
    IN  kept[Len(l)]

\* delete_cache_entry(c[i]): the assertion of done_cache_entry().
Deleted(c, i) ==
    /\ cache' = RemoveAt(c, i)
    /\ broken' = Used(c[i])

\* cached->id has changed: the documents made from it are out of date.
Outdated(d, a) ==
    [i \in 1 .. Len(d) |-> [d[i] EXCEPT !.current = @ /\ d[i].at # a]]

-----------------------------------------------------------------------------
(***************************************************************************)
(* shrink_format_cache() and garbage_collection().                         *)
(***************************************************************************)

\* Mutant of Unlocked: the lock is not given back.
UnlockedNot(c, u) == FindInCache(c, u)

\* done_document(): the entry is found by the URI of the document.
Unlocked(c, u) ==
    IF Known(c, u) THEN [FindInCache(c, u) EXCEPT ![1].locks = @ - 1] ELSE c

\* The first loop: unused documents look for their entry, and those out of
\* date go.
DropObsolete(c, d) ==
    LET obsolete == {i \in 1 .. Len(d) : d[i].locks = 0 /\ ~d[i].current}
        seen[k \in 0 .. Len(d)] ==
            IF k = 0 THEN c
            ELSE IF k \in obsolete THEN Unlocked(seen[k - 1], d[k].uri)
            ELSE IF d[k].locks = 0 THEN FindInCache(seen[k - 1], d[k].uri)
            ELSE seen[k - 1]
    IN  [cache |-> seen[Len(d)], docs |-> Without(d, obsolete)]

\* done_document() of the documents with the numbers is, from the oldest on.
UnlockedAll(c, d, is) ==
    LET done[k \in 0 .. Len(d)] ==
            IF k = 0 THEN c
            ELSE IF Len(d) + 1 - k \in is
            THEN Unlocked(done[k - 1], d[Len(d) + 1 - k].uri)
            ELSE done[k - 1]
    IN  done[Len(d)]

\* The second: from the oldest on, until there are few enough.
DropSurplus(c, d, whole) ==
    LET unused == {i \in 1 .. Len(d) : d[i].locks = 0}
        n == Cardinality(unused)
        surplus == IF whole THEN n
                   ELSE IF n > FormatSize THEN n - FormatSize ELSE 0
        gone == {i \in unused :
                    Cardinality({j \in unused : j >= i}) <= surplus}
    IN  [cache |-> UnlockedAll(c, d, gone), docs |-> Without(d, gone)]

ShrinkFormatCache(c, d, whole) ==
    LET r == DropObsolete(c, d)
    IN  DropSurplus(r.cache, r.docs, whole)

GcSize == (CacheSize * GcPercent) \div 100

\* What the entries with the numbers is add up to.
SizeOf(c, is) ==
    LET sum[k \in 0 .. Len(c)] ==
            IF k = 0 THEN 0
            ELSE sum[k - 1] + (IF k \in is THEN c[k].size ELSE 0)
    IN  sum[Len(c)]

Unused(c) == {i \in 1 .. Len(c) : ~Used(c[i])}

UnusedSize(c) == SizeOf(c, Unused(c))

\* The size left once the unused entries from i on have been marked (#2).
Left(c, i) == SizeOf(c, {j \in Unused(c) : j < i})

\* The newest of the entries that have to be looked at: marking stops before
\* the first one that need not go.
Oldest(c) == Max({i \in 1 .. Len(c) : Left(c, i) <= GcSize})

\* Mutant of Spared: filled up to the whole size of the cache.
SparedFull(c) ==
    LET m == Oldest(c)
        pass[k \in 0 .. Len(c)] ==
            IF k < m THEN [size |-> Left(c, m), back |-> {}]
            ELSE LET r == pass[k - 1]
                     size == r.size + c[k].size
                 IN  IF size > CacheSize THEN r
                     ELSE [size |-> size, back |-> r.back \cup {k}]
    IN  pass[Len(c)].back

\* Pass #3: from there back to the oldest, what still fits is unmarked.
\* Used entries on the way are counted as well.
Spared(c) ==
    LET m == Oldest(c)
        pass[k \in 0 .. Len(c)] ==
            IF k < m THEN [size |-> Left(c, m), back |-> {}]
            ELSE LET r == pass[k - 1]
                     size == r.size + c[k].size
                 IN  IF size > GcSize THEN r
                     ELSE [size |-> size, back |-> r.back \cup {k}]
    IN  pass[Len(c)].back

Marked(c, whole) ==
    IF whole THEN Unused(c)
    ELSE (Unused(c) \cap (Oldest(c) .. Len(c))) \ Spared(c)

\* Nothing to do: the unused entries fit in.
SmallEnough(c) == UnusedSize(c) <= CacheSize

GarbageCollection(c, whole) ==
    IF ~whole /\ SmallEnough(c) THEN c
    ELSE Without(c, Marked(c, whole))

\* shrink_memory()
ShrinkMemory(c, d, whole) ==
    LET r == ShrinkFormatCache(c, d, whole)
    IN  [r EXCEPT !.cache = GarbageCollection(@, whole)]

-----------------------------------------------------------------------------
(***************************************************************************)
(* load_uri(): an entry that is complete and may be used is the answer.    *)
(***************************************************************************)

\* The connections a load can join; whose it is then is Connection's business.
Joins(u) == {s \in Conns : Busy(s) /\ conn[s].uri = u /\ ~conn[s].detached}

Connect(u) ==
    \/ Joins(u) # {} /\ UNCHANGED conn
    \/ /\ Joins(u) = {}
       /\ \E s \in Conns :
            /\ ~Busy(s)
            /\ conn' = [conn EXCEPT ![s] = [Idle EXCEPT !.uri = u]]

\* The mode is more than CACHE_MODE_NORMAL: the cache is not asked.
Reload(u) ==
    /\ Connect(u)
    /\ UNCHANGED <<cache, docs, dialog, broken>>

Usable(c, u) == Known(c, u) /\ ~FindInCache(c, u)[1].incomplete

\* get_validated_cache_entry().  An entry that is not locked may prove to
\* have expired, to be a redirect or never to be cached: then it is deleted.
Load(u) ==
    LET c == FindInCache(cache, u)
    IN  /\ \/ /\ ~Usable(cache, u)
              /\ Connect(u)
              /\ cache' = c
              /\ UNCHANGED broken
           \/ /\ Usable(cache, u) /\ c[1].locks = 0
              /\ Connect(u)
              /\ Deleted(c, 1)
           \/ /\ Usable(cache, u)
              /\ cache' = c
              /\ UNCHANGED <<conn, broken>>
        /\ UNCHANGED <<docs, dialog>>

-----------------------------------------------------------------------------
(***************************************************************************)
(* A protocol and the entry it loads into.                                 *)
(***************************************************************************)

\* malloc() reuses what was freed.
FreeAddress(c) == Min(Addresses \ Allocated(c))

New(a, u) == [at |-> a, uri |-> u, size |-> 0,
              incomplete |-> TRUE, valid |-> TRUE, locks |-> 0]

\* Mutant of GotEntry: a new one without looking for the old.
GotAnother(u) ==
    LET r == ShrinkMemory(cache, docs, FALSE)
    IN  [r EXCEPT !.cache = <<New(FreeAddress(@), u)>> \o @]

\* get_cache_entry(): an entry, or room is made and a new one put first.
GotEntry(u) ==
    IF Known(cache, u)
    THEN [cache |-> FindInCache(cache, u), docs |-> docs]
    ELSE LET r == ShrinkMemory(cache, docs, FALSE)
         IN  [r EXCEPT !.cache = <<New(FreeAddress(@), u)>> \o @]

\* http_got_header(), after a retry too.  It may say that the document has
\* been modified (delete_entry_content()).
Header(s, modified) ==
    LET r == GotEntry(conn[s].uri)
        e == r.cache[1]
    IN  /\ Busy(s)
        /\ Known(cache, conn[s].uri) \/ Len(cache) < MaxEntries
        /\ cache' = [r.cache EXCEPT ![1] =
                        IF modified
                        THEN [e EXCEPT !.size = 0, !.incomplete = TRUE]
                        ELSE e]
        /\ docs' = IF modified THEN Outdated(r.docs, e.at) ELSE r.docs
        /\ conn' = [conn EXCEPT ![s].cached = e.at]
        /\ UNCHANGED <<dialog, broken>>

\* add_fragment(): the entry grows, or is cut and then incomplete; see
\* Fragments.
Data(s, size) ==
    /\ conn[s].cached # Null
    /\ LET i == At(cache, conn[s].cached)
       IN  \E incomplete \in {cache[i].incomplete, TRUE} :
             cache' = [cache EXCEPT ![i].size = size,
                                    ![i].incomplete = incomplete]
    /\ docs' = Outdated(docs, conn[s].cached)
    /\ UNCHANGED <<conn, dialog, broken>>

\* normalize_cache_entry() and the end of the connection.
Finish(s, size) ==
    /\ conn[s].cached # Null
    /\ LET i == At(cache, conn[s].cached)
       IN  /\ size <= cache[i].size
           /\ cache' = [cache EXCEPT ![i].size = size,
                                     ![i].incomplete = FALSE]
    /\ conn' = [conn EXCEPT ![s] = Idle]
    /\ UNCHANGED <<docs, dialog, broken>>

\* An error, an interruption, or the last owner of a detached connection has
\* left.
Abort(s) ==
    /\ Busy(s)
    /\ conn' = [conn EXCEPT ![s] = Idle]
    /\ UNCHANGED <<cache, docs, dialog, broken>>

\* Nobody has locked the entry.
Detaches(s, c) == c[At(c, conn[s].cached)].locks = 0

\* detach_connection(), of a document that does not fit into the cache.  If
\* the connection has another owner or the entry is locked, it only shrinks
\* the format cache.
Detach(s) ==
    /\ conn[s].cached # Null /\ ~conn[s].detached
    /\ LET r == ShrinkFormatCache(cache, docs, FALSE)
           i == At(r.cache, conn[s].cached)
       IN  /\ docs' = r.docs
           /\ \/ /\ cache' = r.cache
                 /\ UNCHANGED conn
              \/ /\ Detaches(s, r.cache)
                 /\ \E size \in Sizes :
                      /\ size <= r.cache[i].size
                      /\ cache' = [r.cache EXCEPT ![i].valid = FALSE,
                                                  ![i].size = size]
                 /\ conn' = [conn EXCEPT ![s].detached = TRUE]
    /\ UNCHANGED <<dialog, broken>>

\* A detached connection goes on stripping its entry (free_entry_to()).
Strip(s, size) ==
    /\ conn[s].detached
    /\ LET i == At(cache, conn[s].cached)
       IN  size < cache[i].size /\ cache' = [cache EXCEPT ![i].size = size]
    /\ UNCHANGED <<docs, conn, dialog, broken>>

-----------------------------------------------------------------------------
(***************************************************************************)
(* Formatted documents.                                                    *)
(***************************************************************************)

\* The documents of the URI with the same options that are up to date.
Current(u, o) ==
    {i \in 1 .. Len(docs) :
        docs[i].uri = u /\ docs[i].options = o /\ docs[i].current}

\* get_cached_document(): the first one that is ready can be shown again.
\* Unused documents that come before it, but are not, go.
Obsolete(u, o, ready) ==
    {i \in 1 .. Len(docs) :
        /\ docs[i].uri = u /\ docs[i].options = o /\ docs[i].locks = 0
        /\ i \notin ready /\ \A j \in ready : i < j}

\* render_document(): find_in_cache(), then an old document or a new one.  A
\* document that is up to date may not be ready all the same: its style
\* sheets have changed (check_document_css_magic()), or options->no_cache.
Render(u, o) == \E ready \in SUBSET Current(u, o) :
    LET gone == Obsolete(u, o, ready)
        found == FindInCache(cache, u)
        c == [found EXCEPT ![1].locks = @ - Cardinality(gone)]
        d == [uri |-> u, options |-> o, at |-> c[1].at, current |-> TRUE,
              locks |-> 1]
    IN  /\ Known(cache, u)
        /\ \/ /\ ready # {}
              /\ LET i == Min(ready)
                 IN  /\ docs[i].locks < MaxViews
                     /\ docs' = <<[docs[i] EXCEPT !.locks = @ + 1]>>
                                  \o Without(docs, gone \cup {i})
              /\ cache' = c
           \/ /\ ready = {}
              /\ Len(docs) - Cardinality(gone) < MaxDocuments
              /\ LET r == ShrinkMemory([c EXCEPT ![1].locks = @ + 1],
                                       <<d>> \o Without(docs, gone), FALSE)
                 IN  cache' = r.cache /\ docs' = r.docs
        /\ UNCHANGED <<conn, dialog, broken>>

\* release_document(): the view is closed or shows something else.
ReleaseDocument(i) ==
    /\ docs[i].locks > 0
    /\ docs' = MoveToTop([docs EXCEPT ![i].locks = @ - 1], i)
    /\ UNCHANGED <<cache, conn, dialog, broken>>

-----------------------------------------------------------------------------
(***************************************************************************)
(* The cache manager, the flushing of caches, and time.                    *)
(***************************************************************************)

\* push_hierbox_delete_button() and, for entries that are locked, which the
\* first refuses, push_hierbox_info_button().
OpenDialog(i) ==
    /\ dialog = NoDialog
    /\ dialog' = [at |-> cache[i].at, deletes |-> cache[i].locks = 0]
    /\ cache' = [cache EXCEPT ![i].locks = @ + 1]
    /\ UNCHANGED <<docs, conn, broken>>

Answered == [cache EXCEPT ![At(cache, dialog.at)].locks = @ - 1]

\* done_listbox_context()
AnswerNo ==
    /\ dialog # NoDialog
    /\ cache' = Answered
    /\ dialog' = NoDialog
    /\ UNCHANGED <<docs, conn, broken>>

\* push_ok_delete_button(): do_delete_item() asks is_object_used() only.
AnswerYes ==
    /\ dialog.deletes
    /\ LET i == At(cache, dialog.at)
       IN  \/ /\ Answered[i].locks > 0
              /\ cache' = Answered
              /\ UNCHANGED broken
           \/ /\ Answered[i].locks = 0
              /\ Deleted(Answered, i)
    /\ dialog' = NoDialog
    /\ UNCHANGED <<docs, conn>>

\* delete_marked(): the marked entries that are not locked, one after another,
\* without a dialog that has locked them.
DeleteItem(i) ==
    /\ cache[i].locks = 0
    /\ Deleted(cache, i)
    /\ UNCHANGED <<docs, conn, dialog>>

Flush(whole) ==
    LET r == ShrinkMemory(cache, docs, whole)
    IN  /\ cache' = r.cache /\ docs' = r.docs
        /\ UNCHANGED <<conn, dialog, broken>>

\* A debug build stops after a failed assertion.  Others sleep a second and go
\* on with the entry they have freed; what then happens is not modelled.
Next ==
    /\ ~broken
    /\ \/ \E u \in Uris :
            Reload(u) \/ Load(u) \/ \E o \in Options : Render(u, o)
       \/ \E s \in Conns :
            \/ \E modified \in BOOLEAN : Header(s, modified)
            \/ \E size \in Sizes :
                 Data(s, size) \/ Finish(s, size) \/ Strip(s, size)
            \/ Detach(s) \/ Abort(s)
       \/ \E i \in 1 .. Len(docs) : ReleaseDocument(i)
       \/ \E i \in 1 .. Len(cache) : OpenDialog(i) \/ DeleteItem(i)
       \/ AnswerNo \/ AnswerYes
       \/ \E whole \in BOOLEAN : Flush(whole)

Spec == Init /\ [][Next]_vars

-----------------------------------------------------------------------------
(***************************************************************************)
(* Properties.                                                             *)
(***************************************************************************)

\* The variables have their types: lists of entries and documents with lock
\* counts that never become negative, no two entries at one address, and a
\* dialog only ever asks about an entry that exists.
TypeOK ==
    /\ cache \in Seq(Entry) /\ Cardinality(Allocated(cache)) = Len(cache)
    /\ docs \in Seq(Doc)
    /\ \A s \in Conns : Busy(s) => conn[s].uri \in Uris
    /\ dialog # NoDialog => dialog.at \in Allocated(cache)
    /\ broken \in BOOLEAN

\* There are never two entries for a document, whatever is loaded, reloaded,
\* detached and collected: an old edition would come back as soon as the
\* newer one is collected.
OneValid ==
    /\ TypeOK
    /\ \A i, j \in 1 .. Len(cache) :
        cache[i].valid /\ cache[j].valid /\ cache[i].uri = cache[j].uri
            => i = j

\* The lock count of an entry is the number of documents formatted from it,
\* and one for the dialog: no lock is lost, none given back twice.  A document
\* finds the entry it was formatted from when it has to unlock it ("no cache
\* entry for document", "cached formatted document has no cache entry"),
\* though it remembers only the URI and connections are detached in between.
LocksExact ==
    /\ \A i \in 1 .. Len(cache) :
        cache[i].locks =
            Cardinality({k \in 1 .. Len(docs) : docs[k].at = cache[i].at})
              + (IF dialog.at = cache[i].at THEN 1 ELSE 0)
    /\ \A k \in 1 .. Len(docs) :
        /\ Known(cache, docs[k].uri)
        /\ FindInCache(cache, docs[k].uri)[1].at = docs[k].at

\* The entry a connection loads into exists and is for its URI, as long as
\* no assertion has failed: it is never collected under the connection.
LoadingKept ==
    ~broken =>
        \A s \in Conns : conn[s].cached # Null =>
            /\ conn[s].cached \in Allocated(cache)
            /\ cache[At(cache, conn[s].cached)].uri = conn[s].uri

\* Whatever the sizes of the entries, garbage_collection() brings the unused
\* ones down to what the user allows, and below GC_PERCENT of it if any had to
\* go, without touching the used ones.
CollectionFits ==
    \A sizes \in [1 .. Len(cache) -> 0 .. CacheSize] :
        LET before == [i \in 1 .. Len(cache) |->
                          [cache[i] EXCEPT !.size = sizes[i]]]
            after == GarbageCollection(before, FALSE)
        IN  /\ UnusedSize(after)
                 <= IF after = before THEN CacheSize ELSE GcSize
            /\ \A i \in 1 .. Len(cache) :
                  Used(cache[i]) => cache[i].at \in Allocated(after)

\* "deleting loading cache entry" (done_cache_entry()).
NeverBroken == ~broken
=============================================================================
