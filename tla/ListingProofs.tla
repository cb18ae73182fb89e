----------------------------- MODULE ListingProofs -----------------------------
(***************************************************************************)
(* Theorems about ListingLifecycle, for any accounts, entries, contents    *)
(* and bounds.  The invariant is a conjunction over entries of a predicate *)
(* on one row, its revisions and the loaded pages.                         *)
(***************************************************************************)
EXTENDS ListingLifecycle, TLAPS

\* What a loaded page knows of a row: the row exists or existed, its version
\* has not been overtaken, and while it is current so is what the page shows.
Knows(view, row) ==
  /\ row.phase # "new"
  /\ row.phase = "live" =>
       /\ view.version <= row.version
       /\ view.version = row.version =>
            /\ view.facts = row.facts /\ view.tag = row.tag
            /\ view.owner = row.owner /\ view.status = row.status

Vouched(row) ==
  /\ row.self # NoBadge => SameContent(row, row.self) /\ row.self.by = row.owner
  /\ row.review # NoBadge => SameContent(row, row.review)

Described(row) == row.sources # Nothing => row.about = row.facts

ImportsFirst(revs) == \A i, j \in DOMAIN revs :
  i < j /\ revs[j].imported => revs[i].imported

\* An imported row that nobody touched has been written by imports alone.
Untouched(row, revs) ==
  row.imported /\ ~row.local => \A i \in DOMAIN revs : revs[i].imported

\* The inductive invariant of one entry.
Sound(e, row, revs, seen) ==
  /\ row \in Row \cup {NotYet, Deleted}
  /\ revs \in Seq(Revision)
  /\ row = NotYet => revs = <<>>
  /\ row.phase = "live" => /\ Len(revs) = row.version
                           /\ Vouched(row)
                           /\ Described(row)
                           /\ Untouched(row, revs)
  /\ ImportsFirst(revs)
  /\ \A c \in Clients : seen[c].entry = e => Knows(seen[c], row)

Inv ==
  /\ listings \in [Entries -> Row \cup {NotYet, Deleted}]
  /\ revisions \in [Entries -> Seq(Revision)]
  /\ views \in [Clients -> View \cup {NoView}]
  /\ tagName \in Names
  /\ \A e \in Entries : Sound(e, listings[e], revisions[e], views)

------------------------------------------------------------------------------
(* Rows. *)

\* The three phases are distinct, and only rows of the table are live.
LEMMA Phases ==
  ASSUME NEW row \in Row \cup {NotYet, Deleted}
  PROVE  /\ row.phase = "live" <=> row \in Row
         /\ row.phase = "new" <=> row = NotYet
  BY DEF Row, NotYet, Deleted

\* The trigger returns a row with the next version; content, owner and status
\* are those of the UPDATE.
LEMMA StampedRow ==
  ASSUME NEW old \in Row, NEW new \in Row, NEW action, new.version = old.version
  PROVE  /\ Stamped(old, new, action) \in Row
         /\ Stamped(old, new, action).version = old.version + 1
         /\ Stamped(old, new, action).facts = new.facts
         /\ Stamped(old, new, action).tag = new.tag
         /\ Stamped(old, new, action).owner = new.owner
         /\ Stamped(old, new, action).status = new.status
         /\ Stamped(old, new, action).imported = new.imported
         /\ Stamped(old, new, action).local = new.local
         /\ Stamped(old, new, action).self = IF SameContent(old, new) THEN new.self ELSE NoBadge
         /\ Stamped(old, new, action).review = IF SameContent(old, new) THEN new.review ELSE NoBadge
         /\ Stamped(old, new, action).sources =
              IF KeepsSources(old, new, action) THEN new.sources ELSE Nothing
         /\ Stamped(old, new, action).about =
              IF KeepsSources(old, new, action) THEN new.about ELSE new.facts
  <1> DEFINE same == SameContent(old, new)
             keeps == KeepsSources(old, new, action)
  <1>1. new.version + 1 \in Nat
    BY DEF Row
  <1>2. new.facts \in Facts /\ Nothing \in Lists \cup {Nothing} /\ NoBadge \in Badge \cup {NoBadge}
    BY DEF Row
  <1> HIDE DEF same, keeps
  <1> DEFINE stamped == [new EXCEPT !.version = @ + 1,
                                    !.self    = IF same THEN @ ELSE NoBadge,
                                    !.review  = IF same THEN @ ELSE NoBadge,
                                    !.sources = IF keeps THEN @ ELSE Nothing,
                                    !.about   = IF keeps THEN @ ELSE new.facts]
  <1>3. stamped \in Row
    BY <1>1, <1>2, Zenon DEF Row
  <1>4. /\ stamped.version = new.version + 1
        /\ stamped.facts = new.facts /\ stamped.tag = new.tag
        /\ stamped.owner = new.owner /\ stamped.status = new.status
        /\ stamped.imported = new.imported /\ stamped.local = new.local
        /\ stamped.self = IF same THEN new.self ELSE NoBadge
        /\ stamped.review = IF same THEN new.review ELSE NoBadge
        /\ stamped.sources = IF keeps THEN new.sources ELSE Nothing
        /\ stamped.about = IF keeps THEN new.about ELSE new.facts
    BY DEF Row
  <1>5. Stamped(old, new, action) = stamped
    BY DEF Stamped, same, keeps
  <1> QED
    BY <1>3, <1>4, <1>5 DEF same, keeps

\* What an UPDATE that some handler issues may look like: the row stays the
\* entry's, badges that are new are true, so are sources that are kept, and the
\* entry stays open to imports only if an import of an untouched row wrote it.
Proper(old, new, action) ==
  /\ new \in Row
  /\ new.version = old.version /\ new.imported = old.imported
  /\ SameContent(old, new) => Vouched(new)
  /\ KeepsSources(old, new, action) => Described(new)
  /\ action = "source-import" => old.imported /\ ~old.local
  /\ new.imported /\ ~new.local => action = "source-import"

RevisionOf(row, action) == [facts |-> row.facts, imported |-> (action = "source-import")]

\* The revision that audit_listing appends.
LEMMA RevisionTyped ==
  ASSUME NEW new \in Row, NEW action
  PROVE  /\ RevisionOf(new, action) \in Revision
         /\ RevisionOf(new, action).imported <=> action = "source-import"
  BY DEF RevisionOf, Revision, Row

\* A proper UPDATE keeps the invariant of its entry.
LEMMA WriteSound ==
  ASSUME NEW e \in Entries, NEW old \in Row, NEW revs, NEW seen, NEW new, NEW action,
         seen \in [Clients -> View \cup {NoView}],
         Sound(e, old, revs, seen), Proper(old, new, action)
  PROVE  Sound(e, Stamped(old, new, action), Append(revs, RevisionOf(new, action)), seen)
  <1> DEFINE row == Stamped(old, new, action)
             item == RevisionOf(new, action)
             grown == Append(revs, item)
  <1>1. new \in Row /\ new.version = old.version /\ old.version \in Nat
    BY DEF Proper, Row
  <1>2. /\ row \in Row /\ row.version = old.version + 1
        /\ row.facts = new.facts /\ row.tag = new.tag /\ row.owner = new.owner
        /\ row.imported = new.imported /\ row.local = new.local
        /\ row.self = IF SameContent(old, new) THEN new.self ELSE NoBadge
        /\ row.review = IF SameContent(old, new) THEN new.review ELSE NoBadge
        /\ row.sources = IF KeepsSources(old, new, action) THEN new.sources ELSE Nothing
        /\ row.about = IF KeepsSources(old, new, action) THEN new.about ELSE new.facts
    BY <1>1, StampedRow
  <1>3. item \in Revision /\ (item.imported <=> action = "source-import")
    BY <1>1, RevisionTyped
  <1>4. /\ revs \in Seq(Revision) /\ Len(revs) = old.version
        /\ Vouched(old) /\ Described(old) /\ Untouched(old, revs) /\ ImportsFirst(revs)
        /\ \A c \in Clients : seen[c].entry = e => Knows(seen[c], old)
    BY Phases DEF Sound
  <1> HIDE DEF row, item
  <1>5. /\ grown \in Seq(Revision) /\ Len(grown) = row.version
        /\ grown[row.version] = item
        /\ DOMAIN grown = 1..row.version
        /\ \A i \in 1..old.version : grown[i] = revs[i] /\ i \in DOMAIN revs
    BY <1>1, <1>2, <1>3, <1>4
  <1>6. row.phase = "live" /\ row # NotYet /\ row.phase # "new"
    BY <1>2, Phases DEF Row, NotYet
  <1>7. Vouched(row)
    BY <1>2 DEF Vouched, Proper, SameContent
  <1>8. Described(row)
    BY <1>2 DEF Described, Proper
  <1>9. action = "source-import" => \A i \in DOMAIN revs : revs[i].imported
    BY <1>4 DEF Untouched, Proper
  <1>10. Untouched(row, grown)
    BY <1>1, <1>2, <1>3, <1>5, <1>9 DEF Untouched, Proper
  <1>11. ImportsFirst(grown)
    <2> SUFFICES ASSUME NEW i \in 1..row.version, NEW j \in 1..row.version,
                        i < j, grown[j].imported
                 PROVE  grown[i].imported
      BY <1>5 DEF ImportsFirst
    <2>1. i \in 1..old.version /\ grown[i] = revs[i] /\ i \in DOMAIN revs
      BY <1>1, <1>2, <1>5
    <2>2. CASE j = row.version
      BY <2>1, <2>2, <1>3, <1>5, <1>9
    <2>3. CASE j # row.version
      <3>1. j \in DOMAIN revs /\ grown[j] = revs[j]
        BY <2>3, <1>1, <1>2, <1>5
      <3> QED
        BY <2>1, <3>1, <1>4 DEF ImportsFirst
    <2> QED
      BY <2>2, <2>3
  <1>12. ASSUME NEW c \in Clients, seen[c].entry = e
         PROVE  Knows(seen[c], row)
    <2>1. Knows(seen[c], old) /\ old.phase = "live"
      BY <1>4, <1>12, Phases
    <2>2. seen[c].version <= old.version
      BY <2>1 DEF Knows
    <2>3. seen[c].version <= row.version /\ seen[c].version # row.version
      <3>1. seen[c] \in View
        <4>1. seen[c] \in View \/ seen[c] = NoView
          OBVIOUS
        <4> QED
          BY <4>1, <1>12, ListingAssumption DEF NoView
      <3> QED
        BY <3>1, <2>2, <1>1, <1>2 DEF View
    <2> QED
      BY <2>3, <1>6 DEF Knows
  <1>13. Sound(e, row, grown, seen)
    BY <1>2, <1>5, <1>6, <1>7, <1>8, <1>10, <1>11, <1>12 DEF Sound
  <1> QED
    BY <1>13 DEF row, item

------------------------------------------------------------------------------
(* Whole states. *)

\* A proper UPDATE of one entry keeps the invariant.
LEMMA UpdateSound ==
  ASSUME Inv, NEW e \in Entries, NEW new, NEW action,
         Update(e, new, action), Proper(listings[e], new, action)
  PROVE  Inv'
  <1>1. listings[e] \in Row
    BY Phases DEF Inv, Update, Live
  <1>2. Sound(e, listings[e], revisions[e], views)
    BY DEF Inv
  <1>3. Sound(e, Stamped(listings[e], new, action),
                 Append(revisions[e], RevisionOf(new, action)), views)
    BY <1>1, <1>2, WriteSound DEF Inv
  <1>4. /\ listings' = [listings EXCEPT ![e] = Stamped(listings[e], new, action)]
        /\ revisions' = [revisions EXCEPT ![e] = Append(revisions[e], RevisionOf(new, action))]
        /\ tagName' = tagName /\ views' = views
    BY DEF Update, Recorded, RevisionOf
  <1>5. /\ Stamped(listings[e], new, action) \in Row \cup {NotYet, Deleted}
        /\ Append(revisions[e], RevisionOf(new, action)) \in Seq(Revision)
    BY <1>3 DEF Sound
  <1>6. ASSUME NEW f \in Entries
        PROVE  Sound(f, listings'[f], revisions'[f], views')
    <2>1. CASE f = e
      BY <2>1, <1>3, <1>4 DEF Inv
    <2>2. CASE f # e
      BY <2>2, <1>4 DEF Inv
    <2> QED
      BY <2>1, <2>2
  <1> QED
    BY <1>4, <1>5, <1>6 DEF Inv

\* A new row without badges, whose sources if any are about its facts and
\* which counts as imported only if an import inserts it.
LEMMA InsertSound ==
  ASSUME Inv, NEW e \in Entries, NEW new \in Row, NEW action,
         Insert(e, new, action),
         new.version = 1, new.self = NoBadge, new.review = NoBadge, new.about = new.facts,
         new.imported => action = "source-import"
  PROVE  Inv'
  <1> DEFINE item == RevisionOf(new, action)
  <1>1. item \in Revision /\ (item.imported <=> action = "source-import")
    BY RevisionTyped
  <1>2. Sound(e, NotYet, <<>>, views) /\ listings[e] = NotYet /\ revisions[e] = <<>>
    BY DEF Inv, Insert, Sound
  <1>3. /\ listings' = [listings EXCEPT ![e] = new]
        /\ revisions' = [revisions EXCEPT ![e] = Append(<<>>, item)]
        /\ tagName' = tagName /\ views' = views
    BY <1>2 DEF Insert, Recorded, RevisionOf
  <1> HIDE DEF item
  <1>4. Append(<<>>, item) = <<item>> /\ <<item>> \in Seq(Revision)
    BY <1>1
  <1>5. Sound(e, new, <<item>>, views)
    <2>1. new # NotYet /\ Len(<<item>>) = 1 /\ DOMAIN <<item>> = {1} /\ <<item>>[1] = item
      BY DEF Row, NotYet
    <2>2. Vouched(new) /\ Described(new)
      BY DEF Vouched, Described
    <2>3. Untouched(new, <<item>>)
      BY <2>1, <1>1 DEF Untouched
    <2>4. ImportsFirst(<<item>>)
      BY <2>1 DEF ImportsFirst
    <2>5. \A c \in Clients : views[c].entry # e
      BY <1>2 DEF Sound, Knows, NotYet
    <2> QED
      BY <1>4, <2>1, <2>2, <2>3, <2>4, <2>5 DEF Sound
  <1>6. ASSUME NEW f \in Entries
        PROVE  Sound(f, listings'[f], revisions'[f], views')
    <2>1. CASE f = e
      BY <2>1, <1>3, <1>4, <1>5 DEF Inv
    <2>2. CASE f # e
      BY <2>2, <1>3 DEF Inv
    <2> QED
      BY <2>1, <2>2
  <1> QED
    BY <1>3, <1>4, <1>6 DEF Inv

\* A deletion leaves nothing to be true of the row.
LEMMA DeleteSound ==
  ASSUME Inv, NEW e \in Entries, NEW c, Delete(c, e)
  PROVE  Inv'
  <1>1. /\ listings' = [listings EXCEPT ![e] = Deleted]
        /\ UNCHANGED <<revisions, tagName, views>>
        /\ listings[e] \in Row
    BY Phases DEF Delete, Live, Inv
  <1>2. Sound(e, Deleted, revisions[e], views)
    BY DEF Inv, Sound, Deleted, NotYet, Knows
  <1>3. ASSUME NEW f \in Entries
        PROVE  Sound(f, listings'[f], revisions'[f], views')
    <2>1. CASE f = e
      BY <2>1, <1>1, <1>2 DEF Inv
    <2>2. CASE f # e
      BY <2>2, <1>1 DEF Inv
    <2> QED
      BY <2>1, <2>2
  <1> QED
    BY <1>1, <1>3 DEF Inv

\* A page that has just been loaded shows what the row says.
LEMMA OpenSound ==
  ASSUME Inv, NEW e \in Entries, NEW c \in Clients, Open(c, e)
  PROVE  Inv'
  <1> DEFINE row == listings[e]
             page == [entry |-> e, version |-> row.version, owner |-> row.owner,
                      status |-> row.status, facts |-> row.facts, tag |-> row.tag]
  <1>1. row \in Row
    BY Phases DEF Open, Live, Inv
  <1>2. views' = [views EXCEPT ![c] = page] /\ UNCHANGED <<listings, revisions, tagName>>
    BY DEF Open
  <1>3. page \in View
    BY <1>1 DEF Row, View
  <1>4. page.entry = e /\ Knows(page, row)
    BY <1>1 DEF Row, Knows
  <1> HIDE DEF page
  <1>5. ASSUME NEW f \in Entries
        PROVE  Sound(f, listings[f], revisions[f], views')
    <2>1. ASSUME NEW d \in Clients, views'[d].entry = f
          PROVE  Knows(views'[d], listings[f])
      <3>1. CASE d = c
        <4>1. views'[d] = page
          BY <3>1, <1>2 DEF Inv
        <4> QED
          BY <4>1, <2>1, <1>4
      <3>2. CASE d # c
        BY <3>2, <2>1, <1>2 DEF Inv, Sound
      <3> QED
        BY <3>1, <3>2
    <2> QED
      BY <2>1 DEF Inv, Sound
  <1> QED
    BY <1>2, <1>3, <1>5 DEF Inv

------------------------------------------------------------------------------
(* Actions. *)

\* A client whose version is current sees the row as it is.
LEMMA CurrentPage ==
  ASSUME Inv, NEW c \in Clients, NEW e \in Entries, SawCurrent(c, e)
  PROVE  /\ views[c].facts = listings[e].facts /\ views[c].tag = listings[e].tag
         /\ views[c].owner = listings[e].owner /\ views[c].status = listings[e].status
  BY DEF Inv, Sound, SawCurrent, Live, Knows

\* What the invariant says of a live row.
LEMMA LiveRow ==
  ASSUME Inv, NEW e \in Entries, Live(e)
  PROVE  /\ listings[e] \in Row
         /\ Vouched(listings[e]) /\ Described(listings[e])
         /\ listings[e].facts \in Facts /\ listings[e].about \in Facts
         /\ listings[e].sources \in Lists \cup {Nothing}
         /\ tagName \in Names
  <1>1. listings[e] \in Row /\ Vouched(listings[e]) /\ Described(listings[e]) /\ tagName \in Names
    BY Phases DEF Inv, Sound, Live
  <1> QED
    BY <1>1 DEF Row

\* New content in a row.
Carries(new, row, facts, sources, about) ==
  /\ new \in Row
  /\ new.version = row.version /\ new.imported = row.imported /\ new.owner = row.owner
  /\ new.self = row.self /\ new.review = row.review /\ new.local
  /\ new.facts = facts /\ new.tag = tagName
  /\ new.sources = sources /\ new.about = about

\* Updated puts the new content into the row and marks it as touched.
LEMMA UpdatedRow ==
  ASSUME NEW row \in Row, NEW facts \in Facts, NEW sources \in Lists \cup {Nothing},
         NEW about \in Facts, tagName \in Names
  PROVE  Carries(Updated(row, facts, sources, about), row, facts, sources, about)
  <1> DEFINE new == Updated(row, facts, sources, about)
  <1>1. new \in Row
    BY Zenon DEF Updated, Row
  <1>2. /\ new.version = row.version /\ new.imported = row.imported /\ new.owner = row.owner
        /\ new.self = row.self /\ new.review = row.review /\ new.local
        /\ new.facts = facts /\ new.tag = tagName
        /\ new.sources = sources /\ new.about = about
    BY DEF Updated, Row
  <1> QED
    BY <1>1, <1>2 DEF Carries

\* Content of a person or a program keeps the invariant if the sources it
\* leaves or brings are about its facts, should the trigger keep them.
LEMMA ContentProper ==
  ASSUME Inv, NEW e \in Entries, Live(e), NEW facts \in Facts,
         NEW sources \in Lists \cup {Nothing}, NEW about \in Facts, NEW action,
         action # "source-import",
         LET new == Updated(listings[e], facts, sources, about) IN
           KeepsSources(listings[e], new, action) /\ sources # Nothing => about = facts
  PROVE  Proper(listings[e], Updated(listings[e], facts, sources, about), action)
  <1> DEFINE row == listings[e]
             new == Updated(row, facts, sources, about)
  <1>1. row \in Row /\ Vouched(row) /\ tagName \in Names
    BY LiveRow
  <1>2. /\ new \in Row
        /\ new.version = row.version /\ new.imported = row.imported /\ new.owner = row.owner
        /\ new.self = row.self /\ new.review = row.review /\ new.local
        /\ new.facts = facts /\ new.sources = sources /\ new.about = about
    <2>1. Carries(new, row, facts, sources, about)
      BY <1>1, UpdatedRow
    <2> QED
      BY <2>1 DEF Carries
  <1>3. KeepsSources(row, new, action) /\ sources # Nothing => about = facts
    OBVIOUS
  <1> HIDE DEF new, row
  <1>4. SameContent(row, new) => Vouched(new)
    BY <1>1, <1>2 DEF SameContent, Vouched
  <1>5. KeepsSources(row, new, action) => Described(new)
    BY <1>2, <1>3 DEF Described
  <1>6. Proper(row, new, action)
    BY <1>2, <1>4, <1>5 DEF Proper
  <1> QED
    BY <1>6 DEF new, row

\* An edit leaves the list and what it is about, which is true only as long as
\* the facts stay.
LEMMA EditSound ==
  ASSUME Inv, NEW c, NEW e \in Entries, NEW facts \in Facts, Edit(c, e, facts)
  PROVE  Inv'
  <1> DEFINE row == listings[e]
             new == Updated(row, facts, row.sources, row.about)
  <1>1. Live(e) /\ Update(e, new, "edit")
    BY DEF Edit, Update
  <1>2. /\ row \in Row /\ Described(row) /\ row.about \in Facts
        /\ row.sources \in Lists \cup {Nothing} /\ tagName \in Names
    BY <1>1, LiveRow
  <1>3. new.facts = facts /\ new.sources = row.sources
    <2>1. Carries(new, row, facts, row.sources, row.about)
      BY <1>2, UpdatedRow
    <2> QED
      BY <2>1 DEF Carries
  <1>4. KeepsSources(row, new, "edit") /\ row.sources # Nothing => row.about = facts
    BY <1>2, <1>3 DEF KeepsSources, SameContent, Described
  <1>5. Proper(row, new, "edit")
    BY <1>1, <1>2, <1>4, ContentProper
  <1> QED
    BY <1>1, <1>5, UpdateSound

\* A restore brings old facts and no list.
LEMMA RestoreSound ==
  ASSUME Inv, NEW c, NEW e \in Entries, NEW k, Restore(c, e, k)
  PROVE  Inv'
  <1> DEFINE row == listings[e]
             old == revisions[e][k].facts
             base == Updated(row, old, Nothing, old)
             new == [base EXCEPT !.self = NoBadge, !.review = NoBadge]
  <1>1. Live(e) /\ Update(e, new, "restore") /\ k \in DOMAIN revisions[e]
    BY DEF Restore, Update
  <1>2. row \in Row /\ tagName \in Names /\ revisions[e] \in Seq(Revision)
    BY <1>1, LiveRow DEF Inv
  <1>3. old \in Facts
    <2>1. revisions[e][k] \in Revision
      BY <1>1, <1>2
    <2> QED
      BY <2>1 DEF Revision
  <1>4. /\ base \in Row
        /\ base.version = row.version /\ base.imported = row.imported /\ base.local
        /\ base.facts = old /\ base.sources = Nothing /\ base.about = old
    <2>1. Carries(base, row, old, Nothing, old)
      BY <1>2, <1>3, UpdatedRow
    <2> QED
      BY <2>1 DEF Carries
  <1> HIDE DEF base, old
  <1>5. /\ new \in Row
        /\ new.version = row.version /\ new.imported = row.imported /\ new.local
        /\ new.self = NoBadge /\ new.review = NoBadge /\ new.sources = Nothing
    BY <1>4 DEF Row
  <1> HIDE DEF new
  <1>6. Proper(row, new, "restore")
    BY <1>5 DEF Proper, Vouched, Described
  <1> QED
    BY <1>1, <1>6, UpdateSound DEF new, base, old

\* A confirmation is what the owner saw, and the owner saw what is there.
LEMMA ConfirmSound ==
  ASSUME Inv, NEW c \in Users, NEW e \in Entries, Confirm(c, e)
  PROVE  Inv'
  <1> DEFINE row == listings[e]
             badge == Attestation(c)
             new == [row EXCEPT !.self = badge, !.local = TRUE]
  <1>1. Live(e) /\ Update(e, new, "confirm") /\ SawCurrent(c, e) /\ row.owner = c
    BY DEF Confirm, Update, LockedEntry
  <1>2. row \in Row /\ Vouched(row) /\ Described(row)
    BY <1>1, LiveRow
  <1>3. c \in Clients
    BY DEF Clients
  <1>4. badge.by = c /\ badge.facts = row.facts /\ badge.tag = row.tag
    BY <1>1, <1>3, CurrentPage DEF Attestation
  <1>5. badge \in Badge
    BY <1>2, <1>4 DEF Attestation, Badge, Row
  <1> HIDE DEF badge
  <1>6. /\ new \in Row
        /\ new.version = row.version /\ new.imported = row.imported /\ new.local
        /\ new.owner = row.owner /\ new.facts = row.facts /\ new.tag = row.tag
        /\ new.sources = row.sources /\ new.about = row.about
        /\ new.self = badge /\ new.review = row.review
    BY <1>2, <1>5 DEF Row
  <1> HIDE DEF new, row
  <1>7. Proper(row, new, "confirm")
    BY <1>1, <1>2, <1>4, <1>6 DEF Proper, Vouched, Described, SameContent
  <1> QED
    BY <1>1, <1>7, UpdateSound DEF new, row

\* So is a review what the editor saw.
LEMMA ReviewSound ==
  ASSUME Inv, NEW c \in Users, NEW e \in Entries, Review(c, e)
  PROVE  Inv'
  <1> DEFINE row == listings[e]
             badge == Attestation(c)
             new == [row EXCEPT !.review = badge, !.local = TRUE]
  <1>1. Live(e) /\ Update(e, new, "review") /\ SawCurrent(c, e)
    BY DEF Review, Update, LockedEntry
  <1>2. row \in Row /\ Vouched(row) /\ Described(row)
    BY <1>1, LiveRow
  <1>3. c \in Clients
    BY DEF Clients
  <1>4. badge.by = c /\ badge.facts = row.facts /\ badge.tag = row.tag
    BY <1>1, <1>3, CurrentPage DEF Attestation
  <1>5. badge \in Badge
    BY <1>2, <1>4 DEF Attestation, Badge, Row
  <1> HIDE DEF badge
  <1>6. /\ new \in Row
        /\ new.version = row.version /\ new.imported = row.imported /\ new.local
        /\ new.owner = row.owner /\ new.facts = row.facts /\ new.tag = row.tag
        /\ new.sources = row.sources /\ new.about = row.about
        /\ new.self = row.self /\ new.review = badge
    BY <1>2, <1>5 DEF Row
  <1> HIDE DEF new, row
  <1>7. Proper(row, new, "review")
    BY <1>2, <1>4, <1>6 DEF Proper, Vouched, Described, SameContent
  <1> QED
    BY <1>1, <1>7, UpdateSound DEF new, row

\* Publishing and hiding change the status alone.
LEMMA StatusSound ==
  ASSUME Inv, NEW c, NEW e \in Entries, Publish(c, e) \/ Hide(c, e)
  PROVE  Inv'
  <1> DEFINE row == listings[e]
             new(status) == [row EXCEPT !.status = status, !.local = TRUE]
  <1>1. Live(e)
    BY DEF Publish, Hide, Update
  <1>2. row \in Row /\ Vouched(row) /\ Described(row)
    BY <1>1, LiveRow
  <1>3. ASSUME NEW status \in Statuses, NEW action, action # "source-import"
        PROVE  Proper(row, new(status), action)
    <2> DEFINE changed == new(status)
    <2>1. /\ changed \in Row
          /\ changed.version = row.version /\ changed.imported = row.imported /\ changed.local
          /\ changed.owner = row.owner /\ changed.facts = row.facts /\ changed.tag = row.tag
          /\ changed.sources = row.sources /\ changed.about = row.about
          /\ changed.self = row.self /\ changed.review = row.review
      BY <1>2 DEF Row
    <2> HIDE DEF changed, row
    <2>2. Proper(row, changed, action)
      BY <1>2, <1>3, <2>1 DEF Proper, Vouched, Described, SameContent
    <2> QED
      BY <2>2 DEF changed, row
  <1>4. CASE Publish(c, e)
    <2>1. Update(e, new("published"), "publish")
      BY <1>4 DEF Publish
    <2>2. Proper(row, new("published"), "publish")
      BY <1>3 DEF Statuses
    <2> QED
      BY <2>1, <2>2, UpdateSound
  <1>5. CASE Hide(c, e)
    <2>1. Update(e, new("archived"), "hide")
      BY <1>5 DEF Hide
    <2>2. Proper(row, new("archived"), "hide")
      BY <1>3 DEF Statuses
    <2> QED
      BY <2>1, <2>2, UpdateSound
  <1> QED
    BY <1>4, <1>5

\* A change of hands takes the badges away.
LEMMA ReassignSound ==
  ASSUME Inv, NEW e \in Entries, NEW owner \in Users \cup {Nothing}, Reassign(e, owner)
  PROVE  Inv'
  <1> DEFINE row == listings[e]
             new == [row EXCEPT !.owner = owner, !.self = NoBadge, !.review = NoBadge,
                                !.local = TRUE]
  <1>1. Live(e) /\ Update(e, new, "ownership")
    BY DEF Reassign
  <1>2. row \in Row /\ Described(row)
    BY <1>1, LiveRow
  <1>3. /\ new \in Row
        /\ new.version = row.version /\ new.imported = row.imported /\ new.local
        /\ new.facts = row.facts /\ new.sources = row.sources /\ new.about = row.about
        /\ new.self = NoBadge /\ new.review = NoBadge
    BY <1>2 DEF Row
  <1> HIDE DEF new, row
  <1>4. Proper(row, new, "ownership")
    BY <1>2, <1>3 DEF Proper, Vouched, Described
  <1> QED
    BY <1>1, <1>4, UpdateSound DEF new, row

\* An import replaces a row that only imports wrote; the trigger drops a list
\* that would not be about the new facts.
LEMMA ImportAgainSound ==
  ASSUME Inv, NEW e \in Entries, NEW facts \in Facts, ImportAgain(e, facts)
  PROVE  Inv'
  <1> DEFINE row == listings[e]
             new == [row EXCEPT !.facts = facts, !.tag = tagName]
  <1>1. /\ Live(e) /\ Update(e, new, "source-import")
        /\ row.imported /\ ~row.local
        /\ ~SameContent(row, [facts |-> facts, tag |-> tagName])
    BY DEF ImportAgain
  <1>2. row \in Row /\ Described(row) /\ tagName \in Names
    BY <1>1, LiveRow
  <1>3. /\ new \in Row
        /\ new.version = row.version /\ new.imported = row.imported /\ new.local = row.local
        /\ new.facts = facts /\ new.tag = tagName /\ new.sources = row.sources
    BY <1>2 DEF Row
  <1> HIDE DEF new, row
  <1>4. ~SameContent(row, new) /\ ~KeepsSources(row, new, "source-import")
    BY <1>1, <1>3 DEF SameContent, KeepsSources
  <1>5. Proper(row, new, "source-import")
    BY <1>1, <1>3, <1>4 DEF Proper
  <1> QED
    BY <1>1, <1>5, UpdateSound DEF new, row

\* What a program sends it sends about the facts the entry then shows.
LEMMA PatchedFacts ==
  ASSUME Inv, NEW e \in Entries, NEW facts \in Facts \cup {Nothing}, SawCurrent(Agent, e)
  PROVE  Patched(e, facts) \in Facts /\ Meant(facts) = Patched(e, facts)
  <1>1. Agent \in Clients /\ listings[e].facts \in Facts
    BY LiveRow DEF Clients, SawCurrent
  <1>2. views[Agent].facts = listings[e].facts
    BY <1>1, CurrentPage
  <1> QED
    BY <1>1, <1>2 DEF Patched, Meant

\* A list sent by a program, in a patch or an enrichment.
LEMMA SentProper ==
  ASSUME Inv, NEW e \in Entries, NEW facts \in Facts \cup {Nothing}, SawCurrent(Agent, e),
         NEW sources \in Lists \cup {Nothing}, NEW action, action # "source-import"
  PROVE  Proper(listings[e], Updated(listings[e], Patched(e, facts), sources, Meant(facts)), action)
  <1>1. Live(e) /\ Patched(e, facts) \in Facts /\ Meant(facts) = Patched(e, facts)
    BY PatchedFacts DEF SawCurrent
  <1> QED
    BY <1>1, ContentProper

\* A patch brings its own list, or leaves a list that the trigger keeps only beside the same facts.
LEMMA ServicePatchSound ==
  ASSUME Inv, NEW e \in Entries, NEW facts \in Facts \cup {Nothing}, NEW sent \in BOOLEAN,
         NEW sources \in Lists \cup {Nothing}, ServicePatch(e, facts, sent, sources)
  PROVE  Inv'
  <1> DEFINE row == listings[e]
             action == "service.listing.updated"
             given == Updated(row, Patched(e, facts), sources, Meant(facts))
             kept == Updated(row, Patched(e, facts), row.sources, row.about)
  <1>1. SawCurrent(Agent, e) /\ Live(e)
    BY DEF ServicePatch, SawCurrent
  <1>2. CASE sent
    <2>1. Update(e, given, action)
      BY <1>2 DEF ServicePatch
    <2>2. Proper(row, given, action)
      BY <1>1, SentProper
    <2> QED
      BY <2>1, <2>2, UpdateSound
  <1>3. CASE ~sent
    <2>1. Update(e, kept, action)
      BY <1>3 DEF ServicePatch
    <2>2. /\ row \in Row /\ Described(row) /\ row.about \in Facts
          /\ row.sources \in Lists \cup {Nothing} /\ tagName \in Names
          /\ Patched(e, facts) \in Facts
      BY <1>1, LiveRow, PatchedFacts
    <2>3. kept.facts = Patched(e, facts) /\ kept.sources = row.sources
      <3>1. Carries(kept, row, Patched(e, facts), row.sources, row.about)
        BY <2>2, UpdatedRow
      <3> QED
        BY <3>1 DEF Carries
    <2>4. KeepsSources(row, kept, action) /\ row.sources # Nothing => row.about = Patched(e, facts)
      BY <2>2, <2>3 DEF KeepsSources, SameContent, Described
    <2>5. Proper(row, kept, action)
      BY <1>1, <2>2, <2>4, ContentProper
    <2> QED
      BY <2>1, <2>5, UpdateSound
  <1> QED
    BY <1>2, <1>3

\* An enrichment brings facts and their sources in one UPDATE.
LEMMA EnrichSound ==
  ASSUME Inv, NEW e \in Entries, NEW facts \in Facts \cup {Nothing},
         NEW sources \in Lists, Enrich(e, facts, sources)
  PROVE  Inv'
  <1> DEFINE new == Updated(listings[e], Patched(e, facts), sources, Meant(facts))
  <1>1. SawCurrent(Agent, e) /\ Update(e, new, "source-enrichment")
    BY DEF Enrich
  <1>2. Proper(listings[e], new, "source-enrichment")
    BY <1>1, SentProper
  <1> QED
    BY <1>1, <1>2, UpdateSound

\* The three ways into the directory.
LEMMA NewRowTyped ==
  ASSUME Inv, NEW facts \in Facts
  PROVE  NewRow(facts) \in Row
  BY ListingAssumption DEF Inv, NewRow, Row

\* The form brings an entry without sources.
LEMMA SubmitSound ==
  ASSUME Inv, NEW e \in Entries, NEW owner \in Users \cup {Nothing}, NEW facts \in Facts,
         Submit(e, owner, facts)
  PROVE  Inv'
  <1> DEFINE new == [NewRow(facts) EXCEPT !.owner = owner]
  <1>1. new \in Row
    BY NewRowTyped DEF Row
  <1>2. /\ new.version = 1 /\ new.self = NoBadge /\ new.review = NoBadge
        /\ new.about = new.facts /\ ~new.imported
    BY DEF NewRow
  <1>3. Insert(e, new, "create")
    BY DEF Submit
  <1> QED
    BY <1>1, <1>2, <1>3, InsertSound

\* A program may bring sources, for the facts it sends.
LEMMA ServiceCreateSound ==
  ASSUME Inv, NEW e \in Entries, NEW facts \in Facts, NEW sources \in Lists \cup {Nothing},
         ServiceCreate(e, facts, sources)
  PROVE  Inv'
  <1> DEFINE new == [NewRow(facts) EXCEPT !.sources = sources]
  <1>1. new \in Row
    BY NewRowTyped DEF Row
  <1>2. /\ new.version = 1 /\ new.self = NoBadge /\ new.review = NoBadge
        /\ new.about = new.facts /\ ~new.imported
    BY DEF NewRow
  <1>3. Insert(e, new, "service.listing.created")
    BY DEF ServiceCreate
  <1> QED
    BY <1>1, <1>2, <1>3, InsertSound

\* The import's own row is imported and its only revision says so.
LEMMA ImportNewSound ==
  ASSUME Inv, NEW e \in Entries, NEW facts \in Facts, ImportNew(e, facts)
  PROVE  Inv'
  <1> DEFINE new == [NewRow(facts) EXCEPT !.imported = TRUE, !.status = "published"]
  <1>1. new \in Row
    BY NewRowTyped DEF Row, Statuses
  <1>2. /\ new.version = 1 /\ new.self = NoBadge /\ new.review = NoBadge
        /\ new.about = new.facts
    BY DEF NewRow
  <1>3. Insert(e, new, "source-import")
    BY DEF ImportNew
  <1> QED
    BY <1>1, <1>2, <1>3, InsertSound

\* A rename is a proper UPDATE of every live row.
LEMMA RenameSound ==
  ASSUME Inv, NEW name \in Names, RenameTag(name)
  PROVE  Inv'
  <1> DEFINE action == "tag-renamed"
             new(e) == [listings[e] EXCEPT !.tag = name, !.local = TRUE]
             row(e) == IF Live(e) THEN Stamped(listings[e], new(e), action) ELSE listings[e]
             revs(e) == IF Live(e) THEN Append(revisions[e], RevisionOf(new(e), action))
                        ELSE revisions[e]
  <1>1. /\ tagName' = name /\ views' = views
        /\ listings' = [e \in Entries |-> row(e)]
        /\ revisions' = [e \in Entries |-> revs(e)]
    BY DEF RenameTag, Recorded, RevisionOf
  <1>2. ASSUME NEW e \in Entries, Live(e)
        PROVE  Proper(listings[e], new(e), action)
    <2> DEFINE old == listings[e]
               changed == new(e)
    <2>1. old \in Row /\ Vouched(old) /\ Described(old)
      BY <1>2, LiveRow
    <2>2. /\ changed \in Row
          /\ changed.version = old.version /\ changed.imported = old.imported /\ changed.local
          /\ changed.owner = old.owner /\ changed.facts = old.facts /\ changed.tag = name
          /\ changed.sources = old.sources /\ changed.about = old.about
          /\ changed.self = old.self /\ changed.review = old.review
      BY <2>1 DEF Row
    <2> HIDE DEF changed, old
    <2>3. Proper(old, changed, action)
      BY <2>1, <2>2 DEF Proper, Vouched, Described, SameContent
    <2> QED
      BY <2>3 DEF changed, old
  <1>3. ASSUME NEW e \in Entries
        PROVE  Sound(e, row(e), revs(e), views)
    <2>1. Sound(e, listings[e], revisions[e], views)
      BY DEF Inv
    <2>2. CASE Live(e)
      <3>1. listings[e] \in Row /\ Proper(listings[e], new(e), action)
        BY <2>2, <1>2, LiveRow
      <3>2. Sound(e, Stamped(listings[e], new(e), action),
                     Append(revisions[e], RevisionOf(new(e), action)), views)
        BY <2>1, <3>1, WriteSound DEF Inv
      <3> QED
        BY <2>2, <3>2
    <2>3. CASE ~Live(e)
      BY <2>1, <2>3
    <2> QED
      BY <2>2, <2>3
  <1> HIDE DEF row, revs
  <1>4. ASSUME NEW e \in Entries
        PROVE  row(e) \in Row \cup {NotYet, Deleted} /\ revs(e) \in Seq(Revision)
    BY <1>3 DEF Sound
  <1>5. \A e \in Entries : Sound(e, listings'[e], revisions'[e], views')
    BY <1>1, <1>3
  <1> QED
    BY <1>1, <1>4, <1>5 DEF Inv

------------------------------------------------------------------------------
(* The specification. *)

\* The directory starts empty and nobody has loaded anything.
LEMMA InitSound == Init => Inv
  <1> SUFFICES ASSUME Init PROVE Inv
    OBVIOUS
  <1>1. views \in [Clients -> View \cup {NoView}] /\ tagName \in Names
    BY ListingAssumption DEF Init
  <1>2. /\ listings \in [Entries -> Row \cup {NotYet, Deleted}]
        /\ revisions \in [Entries -> Seq(Revision)]
    BY DEF Init
  <1>3. ASSUME NEW e \in Entries
        PROVE  Sound(e, NotYet, <<>>, views)
    <2>1. \A c \in Clients : views[c].entry # e
      BY ListingAssumption DEF Init, NoView
    <2>2. ImportsFirst(<<>>)
      BY DEF ImportsFirst
    <2> QED
      BY <2>1, <2>2 DEF Sound, NotYet
  <1>4. \A e \in Entries : Sound(e, listings[e], revisions[e], views)
    BY <1>3 DEF Init
  <1> QED
    BY <1>1, <1>2, <1>4 DEF Inv

\* Every step of the program keeps the invariant.
LEMMA StepSound == Inv /\ [Next]_vars => Inv'
  <1> SUFFICES ASSUME Inv, [Next]_vars PROVE Inv'
    OBVIOUS
  <1>1. CASE UNCHANGED vars
    BY <1>1 DEF vars, Inv
  <1>2. ASSUME NEW name \in Names, RenameTag(name)
        PROVE  Inv'
    BY <1>2, RenameSound
  <1>3. ASSUME NEW e \in Entries, EntryStep(e)
        PROVE  Inv'
    <2>1. ASSUME NEW owner \in Users \cup {Nothing}, NEW facts \in Facts, Submit(e, owner, facts)
          PROVE  Inv'
      BY <2>1, SubmitSound
    <2>2. ASSUME NEW facts \in Facts, NEW sources \in Lists \cup {Nothing},
                 ServiceCreate(e, facts, sources)
          PROVE  Inv'
      BY <2>2, ServiceCreateSound
    <2>3. ASSUME NEW facts \in Facts, ImportNew(e, facts) \/ ImportAgain(e, facts)
          PROVE  Inv'
      BY <2>3, ImportNewSound, ImportAgainSound
    <2>4. ASSUME NEW owner \in Users \cup {Nothing}, Reassign(e, owner)
          PROVE  Inv'
      BY <2>4, ReassignSound
    <2>5. CASE AgentStep(e)
      BY <2>5, ServicePatchSound, EnrichSound DEF AgentStep
    <2>6. ASSUME NEW c \in Users, UserStep(c, e)
          PROVE  Inv'
      <3>1. ASSUME NEW facts \in Facts, Edit(c, e, facts)
            PROVE  Inv'
        BY <3>1, EditSound
      <3>2. CASE Confirm(c, e)
        BY <3>2, ConfirmSound
      <3>3. CASE Review(c, e)
        BY <3>3, ReviewSound
      <3>4. CASE Publish(c, e) \/ Hide(c, e)
        BY <3>4, StatusSound
      <3>5. CASE Delete(c, e)
        BY <3>5, DeleteSound
      <3>6. ASSUME NEW k \in 1..MaxRevision, Restore(c, e, k)
            PROVE  Inv'
        BY <3>6, RestoreSound
      <3> QED
        BY <2>6, <3>1, <3>2, <3>3, <3>4, <3>5, <3>6 DEF UserStep
    <2>7. ASSUME NEW c \in Clients, Open(c, e)
          PROVE  Inv'
      BY <2>7, OpenSound
    <2> QED
      BY <1>3, <2>1, <2>2, <2>3, <2>4, <2>5, <2>6, <2>7 DEF EntryStep
  <1> QED
    BY <1>1, <1>2, <1>3 DEF Next

\* Every reachable state has sound entries: pages that know their row, badges
\* and sources that are true, and imports that came first.
THEOREM EntriesStaySound == Spec => []Inv
  BY InitSound, StepSound, PTL DEF Spec

\* Rows, revisions and pages keep their types, and every version of an entry
\* has its revision.
THEOREM ListingTypes == Spec => []TypeOK
  <1>1. Inv => TypeOK
    BY DEF Inv, Sound, TypeOK, Live
  <1> QED
    BY <1>1, EntriesStaySound, PTL

\* A page whose version is current shows the entry as it is.
THEOREM VersionsNameStates == Spec => []VersionNamesState
  <1>1. Inv => VersionNamesState
    BY CurrentPage DEF VersionNamesState
  <1> QED
    BY <1>1, EntriesStaySound, PTL

\* A confirmation or review stands for the content its author saw.
THEOREM BadgesAreTrue == Spec => []BadgesVouch
  <1>1. Inv => BadgesVouch
    BY DEF Inv, Sound, BadgesVouch, Live, Vouched
  <1> QED
    BY <1>1, EntriesStaySound, PTL

\* The sources shown were recorded for the facts shown.
THEOREM SourcesAreTrue == Spec => []SourcesDescribe
  <1>1. Inv => SourcesDescribe
    BY DEF Inv, Sound, SourcesDescribe, Live, Described
  <1> QED
    BY <1>1, EntriesStaySound, PTL

\* Once anybody but the import has changed an entry, no import changes it.
THEOREM ImportsNeverOverwrite == Spec => []ImportsComeFirst
  <1>1. Inv => ImportsComeFirst
    BY DEF Inv, Sound, ImportsComeFirst, ImportsFirst
  <1> QED
    BY <1>1, EntriesStaySound, PTL
==============================================================================
