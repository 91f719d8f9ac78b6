------------------------------ MODULE Listing ------------------------------
(***************************************************************************)
(* FileService.list_dir: an agent lists a directory of `layers[d]` entries *)
(* at depth d and follows next_cursor to the end.  A recursive page takes  *)
(* one remote `find | head` per layer; entry i of layer d, in the order of *)
(* find, is <<d, i>>.                                                      *)
(***************************************************************************)
EXTENDS Integers, FiniteSets

CONSTANTS
  MaxDepth,  \* files.max_recursive_depth
  MaxWidth,  \* bound: entries of one layer
  PageSizes  \* values of page_size, after the clamp to max_list_entries

ASSUME ListingAssumption ==
  MaxDepth \in Nat \ {0} /\ MaxWidth \in Nat /\ PageSizes \subseteq Nat \ {0}

VARIABLES
  layers,     \* entries per depth
  recursive, page, depthLimit,  \* arguments of the calls
  listed,     \* where the caller is: "idle", "page" or "over"
  cur,        \* the next depth of the page
  entries,    \* entries of the page
  lastDepth,  \* last_processed
  cut,        \* the page said truncated
  received,   \* what the agent has got, page by page
  pages,      \* the pages so far: last_processed, truncated, next_cursor
  misread     \* history: depths whose listing was wrong without a sign

treeVars    == <<layers, recursive, page, depthLimit>>
listingVars == <<treeVars, listed, cur, entries, lastDepth, cut, received, pages, misread>>

Depths  == 1..MaxDepth
Layer(d) == {d} \X (1..layers[d])
NoCursor == 0
Least(a, b) == IF a < b THEN a ELSE b

ListingInit ==
  /\ layers = [d \in Depths |-> 0]
  /\ recursive = FALSE /\ page = 1 /\ depthLimit = 1
  /\ listed = "idle" /\ cur = 1 /\ entries = {} /\ lastDepth = 0 /\ cut = FALSE
  /\ received = {} /\ pages = {} /\ misread = {}

\* The caps: page_size within max_entries, max_depth within the configured one.
StartListing(tree, rec, size, depth) ==
  /\ listed = "idle"
  /\ layers' = tree /\ recursive' = rec /\ page' = size
  /\ depthLimit' = IF rec THEN Least(depth, MaxDepth) ELSE 1
  /\ listed' = "page"
  /\ UNCHANGED <<cur, entries, lastDepth, cut, received, pages, misread>>

\* What comes back of a layer: head's n lines, or as many as the output cap lets
\* through, the line it falls on shortened to an entry that does not exist.
Lines(d, n, short) ==
  IF short = n THEN {d} \X (1..n) ELSE ({d} \X (1..short)) \cup {<<d, 0>>}

\* _enumerate_layer.  find dies of SIGPIPE if head has gone before it has written
\* everything (~drained), and it exits 1 when it could not read a directory; both
\* are a failing exit, which counts as a cut if anything was printed.
EnumerateLayer(drained, unreadable, short) ==
  LET room == page - Cardinality(entries)
      n     == Least(layers[cur], room)
      fails == n > 0 /\ (unreadable \/ (layers[cur] > room /\ ~drained)) IN
  /\ listed = "page" /\ cur <= depthLimit /\ room > 0 /\ ~cut
  /\ short \in 0..n /\ (short < n => short > 0)
  /\ entries' = entries \cup Lines(cur, n, short)
  /\ lastDepth' = IF recursive THEN cur ELSE 0
  /\ cut' = fails
  /\ cur' = IF fails THEN cur ELSE cur + 1
  /\ misread' = IF short < n \/ (n = 0 /\ unreadable) \/ (layers[cur] > room /\ ~fails)
                THEN misread \cup {cur} ELSE misread
  /\ UNCHANGED <<treeVars, listed, received, pages>>

\* The loop ends: a layer was cut, the depth is reached or the page is full.
PageEnds == listed = "page" /\ (cut \/ cur > depthLimit \/ Cardinality(entries) >= page)

\* Deliberate variant: a depth is left out.
NextCursor_SkipsOne ==
  IF recursive /\ Cardinality(entries) >= page /\ lastDepth + 1 < depthLimit
  THEN lastDepth + 2 ELSE NoCursor

\* next_cursor: a full page above the depth limit continues one level deeper.
NextCursor ==
  IF recursive /\ Cardinality(entries) >= page /\ lastDepth < depthLimit
  THEN lastDepth + 1 ELSE NoCursor
\* The reply, and the agent's next call at its cursor.
ReturnPage ==
  /\ PageEnds
  /\ received' = received \cup entries
  /\ pages' = pages \cup {[last |-> lastDepth, truncated |-> cut \/ (recursive /\ cur <= depthLimit),
                           cursor |-> NextCursor]}
  /\ listed' = IF NextCursor = NoCursor THEN "over" ELSE "page"
  /\ cur' = IF NextCursor = NoCursor THEN cur ELSE NextCursor
  /\ entries' = {} /\ lastDepth' = 0 /\ cut' = FALSE
  /\ UNCHANGED <<treeVars, misread>>

ListingNext ==
  \/ \E tree \in [Depths -> 0..MaxWidth], rec \in BOOLEAN, size \in PageSizes, depth \in Depths :
       StartListing(tree, rec, size, depth)
  \/ \E drained, unreadable \in BOOLEAN, short \in 0..MaxWidth : EnumerateLayer(drained, unreadable, short)
  \/ ReturnPage

ListingSpec == ListingInit /\ [][ListingNext]_listingVars

-----------------------------------------------------------------------------
(* Properties. *)

ListingTypeOK ==
  /\ layers \in [Depths -> 0..MaxWidth] /\ recursive \in BOOLEAN
  /\ listed \in {"idle", "page", "over"} /\ cur \in 1..MaxDepth + 1
  /\ entries \subseteq Depths \X (0..MaxWidth) /\ received \subseteq Depths \X (0..MaxWidth)
  /\ lastDepth \in 0..MaxDepth /\ cut \in BOOLEAN /\ misread \subseteq Depths

\* No page repeats an entry of an earlier one.
PagesAreDisjoint == entries \cap received = {}

\* When an agent has followed the cursors to the end, every entry it has not
\* got lies in a layer at which a page said truncated, or below the last page
\* if that page said so; the exceptions are layers misread without a sign: cut
\* while find could still write all its output, by the byte cap, or unreadable
\* with nothing printed.
MissingIsAnnounced ==
  listed = "over" =>
    \A d \in 1..depthLimit : \A e \in Layer(d) \ received :
      \/ d \in misread
      \/ \E g \in pages : g.truncated /\ (d = g.last \/ (g.cursor = NoCursor /\ d > g.last))
=============================================================================
