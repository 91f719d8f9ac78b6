---------------------------- MODULE ListingProofs ----------------------------
(***************************************************************************)
(* Proofs about Listing, for directories of any depth and width, any page  *)
(* size and every way a layer may be cut: what an agent who has followed   *)
(* the cursors to the end may have missed, and that it got nothing twice.  *)
(***************************************************************************)
EXTENDS Listing, FiniteSetTheorems, TLAPS

\* Types, with the bounds that nothing here depends on left out.
ListingTypesInv ==
  /\ layers \in [Depths -> Nat] /\ recursive \in BOOLEAN /\ page \in Nat \ {0}
  /\ depthLimit \in Depths /\ cur \in Nat \ {0} /\ lastDepth \in Nat /\ cut \in BOOLEAN
  /\ listed \in {"idle", "page", "over"}
  /\ ~recursive => depthLimit = 1

\* A page whose first layer has yet to be listed.
Fresh == entries = {} /\ lastDepth = 0 /\ ~cut /\ cur <= depthLimit

\* Where a page has got to, and which depth its cursor is computed from.
PageInv ==
  listed = "page" =>
    /\ cur <= depthLimit + 1
    /\ cut => cur <= depthLimit /\ lastDepth = IF recursive THEN cur ELSE 0
    /\ ~cut /\ ~Fresh => cur > 1 /\ lastDepth = IF recursive THEN cur - 1 ELSE 0

\* A depth that is behind the agent was read as a whole, or misread, or it is
\* where a page said truncated.
Done(d) ==
  \/ d \in misread
  \/ Layer(d) \subseteq received \cup entries
  \/ \E g \in pages : g.truncated /\ d = g.last

DoneInv == listed = "page" => \A d \in 1..depthLimit : d < cur => Done(d)

\* Entries come layer by layer, and a page begins below the last one.
OrderInv ==
  /\ IsFiniteSet(entries)
  /\ listed = "idle" => received = {} /\ entries = {} /\ cur = 1 /\ lastDepth = 0 /\ ~cut
  /\ listed = "over" => entries = {}
  /\ listed = "page" =>
       /\ \A r \in received : r[1] \in Nat /\ r[1] < cur
       /\ \A e \in entries : e[1] \in Nat /\ (recursive => e[1] <= lastDepth)
       /\ \A r \in received, e \in entries : r[1] < e[1]

ListingInv == ListingTypesInv /\ PageInv /\ DoneInv /\ OrderInv /\ MissingIsAnnounced

LEMMA InitListing == ListingInit => ListingInv
<1> SUFFICES ASSUME ListingInit PROVE ListingInv
  OBVIOUS
<1>1. ListingTypesInv
  <2>1. 1 \in Depths
    BY ListingAssumption DEF Depths
  <2>2. layers \in [Depths -> Nat]
    BY DEF ListingInit
  <2>3. /\ recursive = FALSE /\ page = 1 /\ depthLimit = 1 /\ cur = 1 /\ lastDepth = 0
        /\ cut = FALSE /\ listed = "idle"
    BY DEF ListingInit
  <2>4. page \in Nat \ {0} /\ cur \in Nat \ {0} /\ lastDepth \in Nat
    BY <2>3
  <2>5. QED
    BY <2>1, <2>2, <2>3, <2>4 DEF ListingTypesInv
<1>2. PageInv /\ DoneInv /\ MissingIsAnnounced
  BY DEF ListingInit, PageInv, DoneInv, MissingIsAnnounced
<1>3. OrderInv
  BY FS_EmptySet DEF ListingInit, OrderInv
<1>4. QED
  BY <1>1, <1>2, <1>3 DEF ListingInv

\* A fresh page ends only after its first layer.
LEMMA FreshGoesOn == ListingTypesInv /\ Fresh => ~PageEnds
<1> SUFFICES ASSUME ListingTypesInv, Fresh PROVE ~PageEnds
  OBVIOUS
<1>1. Cardinality(entries) = 0
  BY FS_EmptySet DEF Fresh
<1>2. QED
  BY <1>1 DEF Fresh, PageEnds, ListingTypesInv, Depths

\* A layer that was neither cut nor misread has been read as a whole.
LEMMA LayerIsRead ==
    ASSUME ListingInv, NEW drained \in BOOLEAN, NEW unreadable \in BOOLEAN, NEW short \in 0..MaxWidth,
           EnumerateLayer(drained, unreadable, short)
    PROVE  cut' \/ cur \in misread' \/ Layer(cur) \subseteq entries'
<1> DEFINE room == page - Cardinality(entries)
           n    == Least(layers[cur], room)
<1>1. Cardinality(entries) \in Nat
  BY FS_CardinalityType DEF ListingInv, OrderInv
<1>2. room \in Int /\ cur \in Depths /\ layers[cur] \in Nat
  BY <1>1, ListingAssumption DEF ListingInv, ListingTypesInv, EnumerateLayer, Depths
<1>3. SUFFICES ASSUME ~cut', cur \notin misread' PROVE Layer(cur) \subseteq entries'
  OBVIOUS
<1>4. ~(short < n) /\ ~(layers[cur] > room /\ ~cut')
  <2>1. misread' = IF short < n \/ (n = 0 /\ unreadable) \/ (layers[cur] > room /\ ~cut')
                   THEN misread \cup {cur} ELSE misread
    BY DEF EnumerateLayer
  <2>2. QED
    BY <1>3, <2>1
<1>5. short = n
  BY <1>2, <1>4, ListingAssumption DEF EnumerateLayer, Least
<1>6. n = layers[cur]
  BY <1>2, <1>3, <1>4 DEF Least
<1>7. Lines(cur, n, short) = Layer(cur)
  BY <1>5, <1>6 DEF Lines, Layer
<1>8. entries' = entries \cup Lines(cur, n, short)
  BY DEF EnumerateLayer
<1>9. QED
  BY <1>7, <1>8

LEMMA LinesOfLayer ==
    ASSUME NEW d, NEW n \in Nat, NEW short \in Nat
    PROVE  IsFiniteSet(Lines(d, n, short)) /\ \A e \in Lines(d, n, short) : e[1] = d
<1>1. \A k \in Nat : IsFiniteSet({d} \X (1..k))
  <2>1. TAKE k \in Nat
  <2>2. IsFiniteSet(1..k)
    BY FS_Interval
  <2>3. IsFiniteSet({d})
    BY FS_Singleton
  <2>4. QED
    BY <2>2, <2>3, FS_Product
<1>2. IsFiniteSet({<<d, 0>>})
  BY FS_Singleton
<1>3. IsFiniteSet(({d} \X (1..short)) \cup {<<d, 0>>})
  BY <1>1, <1>2, FS_Union
<1>4. QED
  BY <1>1, <1>3 DEF Lines

LEMMA LayerStep ==
    ASSUME ListingInv, NEW drained \in BOOLEAN, NEW unreadable \in BOOLEAN, NEW short \in 0..MaxWidth,
           EnumerateLayer(drained, unreadable, short)
    PROVE  ListingInv'
<1> DEFINE room  == page - Cardinality(entries)
           n     == Least(layers[cur], room)
           fails == n > 0 /\ (unreadable \/ (layers[cur] > room /\ ~drained))
<1>0. ListingTypesInv /\ PageInv /\ DoneInv /\ OrderInv /\ MissingIsAnnounced
  BY DEF ListingInv
<1>1. /\ listed = "page" /\ listed' = "page" /\ cur <= depthLimit /\ ~cut
      /\ lastDepth' = IF recursive THEN cur ELSE 0
      /\ cut' = fails
      /\ cur' = IF cut' THEN cur ELSE cur + 1
      /\ entries' = entries \cup Lines(cur, n, short)
      /\ misread \subseteq misread'
      /\ UNCHANGED <<layers, recursive, page, depthLimit, received, pages>>
  BY DEF EnumerateLayer, treeVars
<1> HIDE DEF n, fails
<1>2. ListingTypesInv'
  BY <1>0, <1>1 DEF ListingTypesInv, fails
<1>3. PageInv'
  BY <1>0, <1>1, <1>2 DEF ListingTypesInv, PageInv, Fresh, Depths
<1>4. DoneInv'
  <2>1. SUFFICES ASSUME NEW d \in 1..depthLimit, d < cur' PROVE Done(d)'
    BY <1>1 DEF DoneInv
  <2>2. CASE d < cur
    <3>1. Done(d)
      BY <1>0, <1>1, <2>2 DEF DoneInv
    <3>2. QED
      BY <1>1, <3>1 DEF Done, Layer
  <2>3. CASE d >= cur
    <3>1. d = cur /\ ~cut'
      BY <1>0, <1>1, <2>1, <2>3 DEF ListingTypesInv, Depths
    <3>2. cur \in misread' \/ Layer(cur) \subseteq entries'
      BY <3>1, LayerIsRead
    <3>3. QED
      BY <1>1, <3>1, <3>2 DEF Done, Layer
  <2>4. QED
    BY <1>0, <2>2, <2>3 DEF ListingTypesInv
<1>5. OrderInv'
  <2>1. short \in Nat /\ n \in Nat
    BY <1>0, FS_CardinalityType, ListingAssumption
    DEF ListingTypesInv, OrderInv, EnumerateLayer, n, Least, Depths
  <2>2. IsFiniteSet(Lines(cur, n, short)) /\ \A e \in Lines(cur, n, short) : e[1] = cur
    BY <2>1, LinesOfLayer
  <2>3. IsFiniteSet(entries')
    BY <1>0, <1>1, <2>2, FS_Union DEF OrderInv
  <2>4. \A r \in received' : r[1] \in Nat /\ r[1] < cur'
    BY <1>0, <1>1 DEF OrderInv, ListingTypesInv
  <2>5. \A e \in entries' : e[1] \in Nat /\ (recursive' => e[1] <= lastDepth')
    <3>1. TAKE e \in entries'
    <3>2. CASE e \in entries
      <4>1. e[1] \in Nat /\ (recursive => e[1] <= lastDepth)
        BY <1>0, <1>1, <3>2 DEF OrderInv
      <4>2. recursive => lastDepth <= cur
        BY <1>0, <1>1 DEF PageInv, Fresh, ListingTypesInv
      <4>3. QED
        BY <1>0, <1>1, <4>1, <4>2 DEF ListingTypesInv
    <3>3. CASE e \in Lines(cur, n, short)
      BY <1>0, <1>1, <2>2, <3>3 DEF ListingTypesInv
    <3>4. QED
      BY <1>1, <3>2, <3>3
  <2>6. \A r \in received', e \in entries' : r[1] < e[1]
    BY <1>0, <1>1, <2>2 DEF OrderInv
  <2>7. QED
    BY <1>1, <2>3, <2>4, <2>5, <2>6 DEF OrderInv
<1>6. MissingIsAnnounced'
  BY <1>1 DEF MissingIsAnnounced
<1>7. QED
  BY <1>2, <1>3, <1>4, <1>5, <1>6 DEF ListingInv

LEMMA PageStep ==
    ASSUME ListingInv, ReturnPage
    PROVE  ListingInv'
<1> DEFINE g == [last |-> lastDepth, truncated |-> cut \/ (recursive /\ cur <= depthLimit),
                 cursor |-> NextCursor]
<1>0. ListingTypesInv /\ PageInv /\ DoneInv /\ OrderInv
  BY DEF ListingInv
<1>1. /\ listed = "page" /\ PageEnds /\ ~Fresh
      /\ received' = received \cup entries /\ entries' = {} /\ lastDepth' = 0 /\ cut' = FALSE
      /\ pages' = pages \cup {g} /\ misread' = misread
      /\ UNCHANGED <<layers, recursive, page, depthLimit>>
      /\ listed' = IF NextCursor = NoCursor THEN "over" ELSE "page"
      /\ cur' = IF NextCursor = NoCursor THEN cur ELSE NextCursor
  BY <1>0, FreshGoesOn DEF ReturnPage, PageEnds, treeVars
<1>2. g.last = lastDepth /\ g.truncated = (cut \/ (recursive /\ cur <= depthLimit)) /\ g.cursor = NextCursor
  OBVIOUS
<1> HIDE DEF g
<1>3. \A d \in Nat : Layer(d)' = Layer(d)
  BY <1>1 DEF Layer
<1>4. \A d \in 1..depthLimit : d < cur => Done(d)'
  <2>1. SUFFICES ASSUME NEW d \in 1..depthLimit, d < cur PROVE Done(d)'
    OBVIOUS
  <2>2. Done(d)
    BY <1>0, <1>1, <2>1 DEF DoneInv
  <2>3. QED
    BY <1>1, <2>2 DEF Done, Layer
<1>5. cut => g \in pages' /\ g.truncated /\ g.last = IF recursive THEN cur ELSE 0
  BY <1>0, <1>1, <1>2 DEF PageInv
<1>6. CASE NextCursor # NoCursor
  <2>1. recursive /\ lastDepth < depthLimit /\ NextCursor = lastDepth + 1
    BY <1>6 DEF NextCursor, NoCursor
  <2>2. lastDepth = IF cut THEN cur ELSE cur - 1
    BY <1>0, <1>1, <2>1 DEF PageInv
  <2>3. cur' = lastDepth + 1 /\ listed' = "page" /\ cur' \in Nat \ {0} /\ cur' <= depthLimit
    BY <1>0, <1>1, <1>6, <2>1 DEF ListingTypesInv, Depths
  <2>4. ListingTypesInv' /\ PageInv'
    <3>1. Fresh'
      BY <1>1, <2>3 DEF Fresh
    <3>2. cur' <= depthLimit' + 1
      <4>1. cur' \in Nat /\ depthLimit' = depthLimit /\ depthLimit \in Nat
        BY <1>0, <1>1, <2>3 DEF ListingTypesInv, Depths
      <4>2. QED
        BY <2>3, <4>1
    <3>3. PageInv'
      BY <1>1, <3>1, <3>2 DEF PageInv
    <3>4. lastDepth' \in Nat /\ cut' \in BOOLEAN
      BY <1>1
    <3>5. QED
      BY <1>0, <1>1, <2>3, <3>3, <3>4 DEF ListingTypesInv
  <2>5. DoneInv'
    <3>1. SUFFICES ASSUME NEW d \in 1..depthLimit, d < cur' PROVE Done(d)'
      BY <1>1 DEF DoneInv
    <3>2. CASE d < cur
      BY <1>4, <3>2
    <3>3. CASE d >= cur
      <4>1. d = cur /\ cut
        BY <1>0, <2>2, <2>3, <3>1, <3>3 DEF ListingTypesInv, Depths
      <4>2. QED
        BY <1>5, <2>1, <4>1 DEF Done
    <3>4. QED
      BY <1>0, <3>2, <3>3 DEF ListingTypesInv
  <2>6. OrderInv'
    <3>1. IsFiniteSet({})
      BY FS_EmptySet
    <3>2. \A r \in received' : r[1] \in Nat /\ r[1] < cur'
      <4>1. TAKE r \in received'
      <4>2. CASE r \in received
        <5>1. r[1] \in Nat /\ r[1] < cur
          BY <1>0, <1>1, <4>2 DEF OrderInv
        <5>2. QED
          BY <1>0, <2>2, <2>3, <5>1 DEF ListingTypesInv
      <4>3. CASE r \in entries
        <5>1. r[1] \in Nat /\ r[1] <= lastDepth
          BY <1>0, <1>1, <2>1, <4>3 DEF OrderInv
        <5>2. QED
          BY <1>0, <2>3, <5>1 DEF ListingTypesInv
      <4>4. QED
        BY <1>1, <4>2, <4>3
    <3>3. QED
      BY <1>1, <2>3, <3>1, <3>2 DEF OrderInv
  <2>7. MissingIsAnnounced'
    BY <2>3 DEF MissingIsAnnounced
  <2>8. QED
    BY <2>4, <2>5, <2>6, <2>7 DEF ListingInv
<1>7. CASE NextCursor = NoCursor
  <2>1. listed' = "over" /\ cur' = cur
    BY <1>1, <1>7
  <2>2. ListingTypesInv' /\ PageInv' /\ DoneInv'
    <3>1. lastDepth' \in Nat /\ cut' \in BOOLEAN
      BY <1>1
    <3>2. ListingTypesInv'
      BY <1>0, <1>1, <2>1, <3>1 DEF ListingTypesInv
    <3>3. QED
      BY <2>1, <3>2 DEF PageInv, DoneInv
  <2>3. OrderInv'
    BY <1>1, <2>1, FS_EmptySet DEF OrderInv
  <2>4. MissingIsAnnounced'
    <3>1. SUFFICES ASSUME NEW d \in 1..depthLimit, NEW e \in Layer(d) \ received'
                   PROVE  \/ d \in misread'
                          \/ \E x \in pages' : /\ x.truncated
                                               /\ d = x.last \/ (x.cursor = NoCursor /\ d > x.last)
      BY <1>1, <1>3 DEF MissingIsAnnounced, Layer
    <3>2. CASE Done(d)'
      BY <1>1, <3>1, <3>2 DEF Done, Layer
    <3>3. CASE cut /\ d >= cur
      <4>1. d \in Nat /\ cur \in Nat /\ d >= g.last /\ g.last \in Nat
        BY <1>0, <1>5, <3>3 DEF ListingTypesInv, Depths
      <4>2. d = g.last \/ d > g.last
        BY <4>1
      <4>3. g \in pages' /\ g.truncated /\ g.cursor = NoCursor
        BY <1>2, <1>5, <1>7, <3>3
      <4>4. QED
        BY <4>2, <4>3
    <3>4. CASE ~cut /\ d >= cur
      <4>1. Cardinality(entries) >= page /\ cur <= depthLimit
        BY <1>0, <1>1, <3>4 DEF PageEnds, ListingTypesInv, Depths
      <4>2. cur > 1 /\ recursive /\ lastDepth < depthLimit
        BY <1>0, <1>1, <3>4, <4>1 DEF PageInv, ListingTypesInv, Depths
      <4>3. NextCursor = lastDepth + 1
        BY <4>1, <4>2 DEF NextCursor
      <4>4. QED
        BY <1>0, <1>7, <4>3 DEF NoCursor, ListingTypesInv
    <3>5. QED
      BY <1>0, <1>4, <3>2, <3>3, <3>4 DEF ListingTypesInv
  <2>5. QED
    BY <2>2, <2>3, <2>4 DEF ListingInv
<1>8. QED
  BY <1>6, <1>7

LEMMA StepListing == ListingInv /\ [ListingNext]_listingVars => ListingInv'
<1> SUFFICES ASSUME ListingInv, [ListingNext]_listingVars PROVE ListingInv'
  OBVIOUS
<1>0. ListingTypesInv /\ PageInv /\ DoneInv /\ OrderInv /\ MissingIsAnnounced
  BY DEF ListingInv
<1>1. ASSUME NEW tree \in [Depths -> 0..MaxWidth], NEW rec \in BOOLEAN, NEW size \in PageSizes,
             NEW depth \in Depths, StartListing(tree, rec, size, depth)
      PROVE  ListingInv'
  <2>1. /\ received = {} /\ entries = {} /\ cur = 1 /\ lastDepth = 0 /\ ~cut
        /\ UNCHANGED <<cur, entries, lastDepth, cut, received, pages, misread>>
        /\ listed' = "page"
    BY <1>0, <1>1 DEF StartListing, OrderInv
  <2>2. depthLimit' \in Depths /\ depthLimit' >= 1 /\ (~rec => depthLimit' = 1)
    BY <1>1, ListingAssumption DEF StartListing, Least, Depths
  <2>3. ListingTypesInv'
    <3>1. tree \in [Depths -> Nat]
      BY ListingAssumption
    <3>2. size \in Nat \ {0}
      BY ListingAssumption
    <3>3. QED
      BY <1>0, <1>1, <2>1, <2>2, <3>1, <3>2 DEF StartListing, ListingTypesInv
  <2>4. Fresh' /\ PageInv' /\ DoneInv'
    <3>1. Fresh'
      BY <2>1, <2>2 DEF Fresh
    <3>2. cur' <= depthLimit' + 1 /\ ~cut' /\ cur' = 1
      <4>1. depthLimit' \in Nat
        BY <2>2 DEF Depths
      <4>2. cur' = 1
        BY <2>1
      <4>3. ~cut'
        BY <2>1
      <4>4. \A l \in Nat : 1 <= l + 1
        OBVIOUS
      <4>5. cur' <= depthLimit' + 1
        BY <4>1, <4>2, <4>4
      <4>6. QED
        BY <4>2, <4>3, <4>5
    <3>3. PageInv'
      BY <3>1, <3>2 DEF PageInv
    <3>4. DoneInv'
      BY <2>2, <3>2, ListingAssumption DEF DoneInv, Depths
    <3>5. QED
      BY <3>1, <3>3, <3>4
  <2>5. OrderInv' /\ MissingIsAnnounced'
    BY <1>0, <2>1 DEF OrderInv, MissingIsAnnounced
  <2>6. QED
    BY <2>3, <2>4, <2>5 DEF ListingInv
<1>2. ASSUME NEW drained \in BOOLEAN, NEW unreadable \in BOOLEAN, NEW short \in 0..MaxWidth,
             EnumerateLayer(drained, unreadable, short)
      PROVE  ListingInv'
  BY <1>2, LayerStep
<1>3. CASE ReturnPage
  BY <1>3, PageStep
<1>4. CASE UNCHANGED listingVars
  <2>1. UNCHANGED <<layers, recursive, page, depthLimit, listed, cur, entries, lastDepth, cut,
                    received, pages, misread>>
    BY <1>4 DEF listingVars, treeVars
  <2>2. ListingTypesInv' /\ PageInv'
    BY <1>0, <2>1 DEF ListingTypesInv, PageInv, Fresh
  <2>3. DoneInv'
    BY <1>0, <2>1 DEF DoneInv, Done, Layer
  <2>4. OrderInv'
    BY <1>0, <2>1 DEF OrderInv
  <2>5. MissingIsAnnounced'
    BY <1>0, <2>1 DEF MissingIsAnnounced, Layer
  <2>6. QED
    BY <2>2, <2>3, <2>4, <2>5 DEF ListingInv
<1>5. QED
  BY <1>1, <1>2, <1>3, <1>4 DEF ListingNext

LEMMA ListingInvariant == ListingSpec => []ListingInv
  BY InitListing, StepListing, PTL DEF ListingSpec

\* An agent that has followed next_cursor to the end has every entry of
\* list_dir, or a page said where it may miss some, or a layer was misread.
THEOREM CursorsMissNothing == ListingSpec => []MissingIsAnnounced
<1>1. ListingInv => MissingIsAnnounced
  BY DEF ListingInv
<1>2. QED
  BY <1>1, ListingInvariant, PTL

\* No page of list_dir repeats an entry of an earlier one.
THEOREM NothingTwice == ListingSpec => []PagesAreDisjoint
<1>1. ListingInv => PagesAreDisjoint
  <2>1. SUFFICES ASSUME ListingInv, NEW e \in entries, e \in received PROVE FALSE
    BY DEF PagesAreDisjoint
  <2>2. listed = "page"
    BY <2>1 DEF ListingInv, OrderInv, ListingTypesInv
  <2>3. e[1] \in Nat /\ e[1] < e[1]
    BY <2>1, <2>2 DEF ListingInv, OrderInv
  <2>4. QED
    BY <2>3
<1>2. QED
  BY <1>1, ListingInvariant, PTL

\* The types step by step: a page never gets below the deepest layer, and what
\* it lists of a layer is no wider than the layer.
LEMMA ListingTyped ==
    ASSUME ListingInv, ListingTypeOK, [ListingNext]_listingVars
    PROVE  ListingTypeOK'
<1>0. ListingTypesInv /\ PageInv /\ ListingTypesInv'
  BY StepListing DEF ListingInv
<1> USE ListingAssumption
<1>1. ASSUME NEW tree \in [Depths -> 0..MaxWidth], NEW rec \in BOOLEAN, NEW size \in PageSizes,
             NEW depth \in Depths, StartListing(tree, rec, size, depth)
      PROVE  ListingTypeOK'
  BY <1>1 DEF StartListing, ListingTypeOK
<1>2. ASSUME NEW drained \in BOOLEAN, NEW unreadable \in BOOLEAN, NEW short \in 0..MaxWidth,
             EnumerateLayer(drained, unreadable, short)
      PROVE  ListingTypeOK'
  <2> DEFINE room == page - Cardinality(entries)
             n    == Least(layers[cur], room)
  <2>1. cur \in Depths /\ cur <= MaxDepth
    BY <1>0, <1>2 DEF EnumerateLayer, ListingTypesInv, Depths
  <2>2. layers[cur] \in 0..MaxWidth
    BY <2>1 DEF ListingTypeOK
  <2>3. short \in 0..n /\ short <= MaxWidth
    BY <1>2 DEF EnumerateLayer
  <2>4. short = n => n \in 0..MaxWidth
    BY <2>3
  <2>5. Lines(cur, n, short) \subseteq Depths \X (0..MaxWidth)
    <3> HIDE DEF n
    <3>1. 1..short \subseteq 0..MaxWidth /\ 0 \in 0..MaxWidth
      OBVIOUS
    <3>2. {cur} \X (1..short) \subseteq Depths \X (0..MaxWidth) /\ <<cur, 0>> \in Depths \X (0..MaxWidth)
      BY <2>1, <3>1
    <3>3. QED
      BY <3>2 DEF Lines
  <2>6. entries' = entries \cup Lines(cur, n, short)
    BY <1>2 DEF EnumerateLayer
  <2>7. entries' \subseteq Depths \X (0..MaxWidth)
    <3> HIDE DEF n
    <3>1. entries \subseteq Depths \X (0..MaxWidth)
      BY DEF ListingTypeOK
    <3>2. QED
      BY <2>5, <2>6, <3>1
  <2>8. cur' \in {cur, cur + 1} /\ lastDepth' \in {0, cur} /\ misread' \in {misread, misread \cup {cur}}
    BY <1>2 DEF EnumerateLayer
  <2>9. cur' \in 1..MaxDepth + 1 /\ lastDepth' \in 0..MaxDepth /\ misread' \subseteq Depths
    BY <2>1, <2>8 DEF ListingTypeOK, Depths
  <2>10. UNCHANGED <<layers, recursive, listed, received>>
    BY <1>2 DEF EnumerateLayer, treeVars
  <2>11. QED
    BY <1>0, <2>7, <2>9, <2>10, Zenon DEF ListingTypeOK, ListingTypesInv
<1>3. CASE ReturnPage
  <2>1. NextCursor \in 0..MaxDepth
    BY <1>0 DEF NextCursor, NoCursor, ListingTypesInv, Depths
  <2>2. cur' \in 1..MaxDepth + 1
    <3>1. cur' = cur \/ (NextCursor # 0 /\ cur' = NextCursor)
      BY <1>3, <2>1 DEF ReturnPage, NoCursor
    <3>2. cur \in 1..MaxDepth + 1
      BY DEF ListingTypeOK
    <3>3. \A x \in 0..MaxDepth : x # 0 => x \in 1..MaxDepth + 1
      OBVIOUS
    <3>4. QED
      BY <2>1, <3>1, <3>2, <3>3, Zenon
  <2>3. received' \subseteq Depths \X (0..MaxWidth)
    BY <1>3 DEF ReturnPage, ListingTypeOK
  <2>4. listed' \in {"page", "over"} /\ entries' = {} /\ lastDepth' = 0 /\ cut' = FALSE
    BY <1>3 DEF ReturnPage
  <2>5. UNCHANGED <<layers, recursive, misread>>
    BY <1>3 DEF ReturnPage, treeVars
  <2>6. lastDepth' \in 0..MaxDepth /\ cut' \in BOOLEAN /\ listed' \in {"idle", "page", "over"}
    <3>1. lastDepth' \in 0..MaxDepth
      BY <1>3, ListingAssumption DEF ReturnPage
    <3>2. cut' \in BOOLEAN /\ listed' \in {"idle", "page", "over"}
      BY <2>4, Zenon
    <3>3. QED
      BY <3>1, <3>2
  <2>7. entries' \subseteq Depths \X (0..MaxWidth)
    BY <2>4
  <2>8. QED
    BY <2>2, <2>3, <2>5, <2>6, <2>7, Zenon DEF ListingTypeOK
<1>4. CASE UNCHANGED listingVars
  BY <1>4 DEF ListingTypeOK, listingVars, treeVars
<1>5. QED
  BY <1>1, <1>2, <1>3, <1>4 DEF ListingNext

\* The variables keep their types: no page lists a depth below max_depth, or
\* an entry its layer does not have room for.
THEOREM ListingTypes == ListingSpec => []ListingTypeOK
<1>1. ListingInit => ListingTypeOK
  <2> SUFFICES ASSUME ListingInit PROVE ListingTypeOK
    OBVIOUS
  <2>1. cur \in 1..MaxDepth + 1 /\ lastDepth \in 0..MaxDepth
    BY ListingAssumption DEF ListingInit
  <2>2. layers \in [Depths -> 0..MaxWidth]
    BY ListingAssumption DEF ListingInit
  <2>3. recursive \in BOOLEAN /\ cut \in BOOLEAN
    BY DEF ListingInit
  <2>4. entries = {} /\ received = {} /\ misread = {} /\ listed = "idle"
    BY DEF ListingInit
  <2>5. QED
    BY <2>1, <2>2, <2>3, <2>4 DEF ListingTypeOK
<1>2. QED
  BY <1>1, ListingInvariant, ListingTyped, PTL DEF ListingSpec
=============================================================================
