----------------------------- MODULE TagCatalog -----------------------------
(***************************************************************************)
(* The tag catalog (server/tags.ts, server/routes/tags.ts, the editors'    *)
(* page of src/pages/TagsPage.tsx) and the tags that entries carry.        *)
(*                                                                         *)
(* Every transaction that writes the catalog, or that translates the tags  *)
(* of an entry, first takes advisory lock 4350010, so a request is one     *)
(* action.  Between opening the catalog and sending a change an editor's   *)
(* page may become stale: a change comes from such a page or from one that *)
(* was loaded just now.  Names differ by more than capitals.               *)
(***************************************************************************)
EXTENDS Naturals, FiniteSets

CONSTANTS
  TagNames,       \* names that a tag has or had
  PlatformNames,  \* linkedPlatformTags: names that follow from links
  Tags,           \* ids of tag_definitions
  Tagged,         \* ids of entries
  Suggestions,    \* ids of tag_suggestions
  Curators,       \* staff, each with one page of the catalog
  None,
  FirstTag, FirstTagName,  \* the definition that migration 010 creates
  MaxTags         \* most tags of an entry

ASSUME CatalogAssumption ==
  /\ PlatformNames \subseteq TagNames
  /\ None \notin TagNames \cup Tags
  /\ FirstTag \in Tags /\ FirstTagName \in TagNames
  /\ MaxTags \in Nat \ {0}
  /\ IsFiniteSet(TagNames)

VARIABLES
  defs,         \* rows of tag_definitions
  leads,        \* tag_names: the definition that a name belongs to
  carried,      \* tags of each entry
  suggestions,  \* rows of tag_suggestions
  pages         \* what each editor's page shows

catalogVars == <<defs, leads, carried, suggestions, pages>>

\* A version only says whether a definition changed since a page showed it:
\* the page remembers which of its two definitions did.
NoDef == [missing |-> TRUE]
Def == [name : TagNames, retired : BOOLEAN, into : Tags \cup {None}]

\* A rejected suggestion plays no further part: its place is free.
Suggestion == [name : TagNames, approved : Tags \cup {None}]
NoSuggestion == [name |-> None, approved |-> None]
Pending(s) == suggestions[s] # NoSuggestion /\ suggestions[s].approved = None

\* selected and target of the page.
Page == [tag : Tags \cup {None}, target : Tags \cup {None}, changed : SUBSET Tags]
NoPage == [tag |-> None, target |-> None, changed |-> {}]

CatalogTypeOK ==
  /\ defs \in [Tags -> Def \cup {NoDef}]
  /\ leads \in [TagNames -> Tags \cup {None}]
  /\ carried \in [Tagged -> SUBSET TagNames]
  /\ \A e \in Tagged : Cardinality(carried[e]) <= MaxTags
  /\ suggestions \in [Suggestions -> Suggestion \cup {NoSuggestion}]
  /\ pages \in [Curators -> Page]

Exists(t) == defs[t] # NoDef
Available(t) == Exists(t) /\ ~defs[t].retired /\ defs[t].into = None

CatalogInit ==
  /\ defs = [t \in Tags |-> IF t = FirstTag
       THEN [name |-> FirstTagName, retired |-> FALSE, into |-> None] ELSE NoDef]
  /\ leads = [n \in TagNames |-> IF n = FirstTagName THEN FirstTag ELSE None]
  /\ carried = [e \in Tagged |-> {FirstTagName}]
  /\ suggestions = [s \in Suggestions |-> NoSuggestion]
  /\ pages = [ed \in Curators |-> NoPage]

------------------------------------------------------------------------------
(* The catalog.  A definition with a suffix, as in NamesFree_Always, is a      *)
(* wrong variant of the definition below it; no specification uses it.         *)

\* The page opens a definition, and another one to merge it into.
Fresh(t, target) == [tag |-> t, target |-> target, changed |-> {}]

OpenTag(ed, t, target) ==
  /\ Exists(t) /\ defs[t].into = None
  /\ target # None => target # t /\ Available(target)
  /\ pages' = [pages EXCEPT ![ed] = Fresh(t, target)]
  /\ UNCHANGED <<defs, leads, carried, suggestions>>

\* The definitions of changed got new versions; a page whose own change was
\* accepted closes.
Aged(page, changed) ==
  [ed \in Curators |->
     IF pages[ed] = page THEN NoPage
     ELSE [pages[ed] EXCEPT !.changed = @ \cup (changed \cap {pages[ed].tag, pages[ed].target})]]

\* putNames: a name is added to a definition, never taken from another.
NamesFree_Always(t, names) == TRUE
NamesFree(t, names) == \A n \in names : leads[n] \in {None, t}
Named(t, names) == [n \in TagNames |-> IF n \in names THEN t ELSE leads[n]]

\* The UPDATE of listings in a rename and in a merge.
Relabelled(t, owns, name) ==
  [e \in Tagged |-> {IF owns[n] = t THEN name ELSE n : n \in carried[e]}]

\* POST /tags.
Create(t, name, aliases, retired) ==
  LET names == {name} \cup aliases IN
  /\ ~Exists(t)
  /\ NamesFree(t, names)
  /\ leads' = Named(t, names)
  /\ defs' = [defs EXCEPT ![t] = [name |-> name, retired |-> retired, into |-> None]]
  /\ UNCHANGED <<carried, suggestions, pages>>

\* PUT /tags/:id.  Aliases that the form leaves out stay.
Save(page, name, aliases, retired) ==
  LET t == page.tag
      names == {name} \cup aliases
  IN
  /\ t \notin {None} \cup page.changed /\ Exists(t) /\ defs[t].into = None
  /\ NamesFree(t, names)
  /\ leads' = Named(t, names)
  /\ defs' = [defs EXCEPT ![t].name = name, ![t].retired = retired]
  /\ carried' = IF name = defs[t].name THEN carried ELSE Relabelled(t, leads', name)
  /\ pages' = Aged(page, {t})
  /\ UNCHANGED suggestions

MayMerge_Stale(page) ==
  /\ page.target \notin {None, page.tag}
  /\ page.tag \notin page.changed /\ defs[page.tag].into = None
  /\ Exists(page.target)
\* What POST /tags/:id/merge finds under the lock.
MayMerge(page) ==
  /\ page.target \notin {None, page.tag}
  /\ page.changed = {}
  /\ defs[page.tag].into = None /\ Available(page.target)

MovedWith_Alone(t) == {t}
\* Whatever had been merged into the source now points to the target too.
MovedWith(t) == {t} \cup {d \in Tags : Exists(d) /\ defs[d].into = t}

\* POST /tags/:id/merge.
Merge(page) ==
  LET t == page.tag
      target == page.target
      moved == MovedWith(t)
  IN
  /\ t # None /\ Exists(t)
  /\ MayMerge(page)
  /\ carried' = Relabelled(t, leads, defs[target].name)
  /\ leads' = [n \in TagNames |-> IF leads[n] = t THEN target ELSE leads[n]]
  /\ defs' = [d \in Tags |-> IF d \in moved
       THEN [defs[d] EXCEPT !.retired = TRUE, !.into = target] ELSE defs[d]]
  /\ pages' = Aged(page, moved \cup {target})
  /\ UNCHANGED suggestions

------------------------------------------------------------------------------
(* Suggestions *)

Suggest(s, name) ==
  /\ suggestions[s] = NoSuggestion
  /\ leads[name] = None
  /\ suggestions' = [suggestions EXCEPT ![s].name = name]
  /\ UNCHANGED <<defs, leads, carried, pages>>

Reject(s) ==
  /\ Pending(s)
  /\ suggestions' = [suggestions EXCEPT ![s] = NoSuggestion]
  /\ UNCHANGED <<defs, leads, carried, pages>>

\* Somebody may have given the name to a tag since it was suggested.
Approve(s, t) ==
  LET name == suggestions[s].name IN
  /\ Pending(s)
  /\ \/ /\ leads[name] = t
        /\ UNCHANGED <<defs, leads>>
     \/ /\ leads[name] = None /\ ~Exists(t)
        /\ leads' = Named(t, {name})
        /\ defs' = [defs EXCEPT ![t] = [name |-> name, retired |-> FALSE, into |-> None]]
  /\ suggestions' = [suggestions EXCEPT ![s].approved = t]
  /\ UNCHANGED <<carried, pages>>

------------------------------------------------------------------------------
(* Entries *)

\* canonicalTags: names that exist, and retired ones only where they were.
Usable(names, previous) ==
  \A n \in names :
    /\ leads[n] # None
    /\ defs[leads[n]].retired => \E p \in previous : leads[p] = leads[n]

Canonical_AsTyped(names) == names
Canonical(names) == {defs[leads[n]].name : n \in names}

\* syncPlatformTags: the tags of platforms follow from the entry's links.
WithPlatforms(names, links) ==
  LET known == {n \in PlatformNames : leads[n] # None}
      managed == {defs[leads[n]].name : n \in known}
      supported == {defs[leads[n]].name : n \in {p \in known \cap links : ~defs[leads[p]].retired}}
  IN (names \ managed) \cup supported

Rewrite(e, tags) ==
  /\ Cardinality(tags) <= MaxTags
  /\ carried' = [carried EXCEPT ![e] = tags]
  /\ UNCHANGED <<defs, leads, suggestions, pages>>

\* A submission, an edit, a patch or an enrichment: all but the first write
\* through updateContent.
EditTags(e, names, links) ==
  /\ Usable(names, carried[e])
  /\ Rewrite(e, WithPlatforms(Canonical(names), links))

\* A restore takes the names of an old revision, of retired tags as well; no
\* name that a revision can hold ever stops leading to a tag.
RestoreTags(e, names, links) ==
  /\ \A n \in names : leads[n] # None
  /\ Rewrite(e, WithPlatforms(Canonical(names), links))

OpenPages == {pages[ed] : ed \in Curators}

CatalogStep ==
  \/ \E name \in TagNames, retired \in BOOLEAN : \E aliases \in SUBSET (TagNames \ {name}) :
       \/ \E t \in Tags : Create(t, name, aliases, retired)
       \/ \E page \in OpenPages \cup {Fresh(t, None) : t \in Tags} :
            Save(page, name, aliases, retired)
  \/ \E page \in OpenPages \cup {Fresh(t, target) : t, target \in Tags} : Merge(page)
  \/ \E s \in Suggestions, t \in Tags : Approve(s, t)

CatalogNext ==
  \/ CatalogStep
  \/ \E ed \in Curators, t \in Tags, target \in Tags \cup {None} : OpenTag(ed, t, target)
  \/ \E s \in Suggestions : Reject(s) \/ \E name \in TagNames : Suggest(s, name)
  \/ \E e \in Tagged, names \in SUBSET TagNames, links \in SUBSET PlatformNames :
       EditTags(e, names, links) \/ RestoreTags(e, names, links)

CatalogSpec == CatalogInit /\ [][CatalogNext]_catalogVars

------------------------------------------------------------------------------
(* Properties *)

Resolved(t) == IF defs[t].into = None THEN t ELSE defs[t].into

\* However tags are merged, a name leads to a definition that was not merged
\* away, a redirection by id takes one step (routes/listings.ts:866 follows
\* one), and the tag that a suggestion became is the one its name leads to.
NamesResolve ==
  /\ \A n \in TagNames : leads[n] # None => Exists(leads[n]) /\ defs[leads[n]].into = None
  /\ \A t \in Tags : Exists(t) =>
       /\ Exists(Resolved(t)) /\ defs[Resolved(t)].into = None
       /\ leads[defs[t].name] = Resolved(t)
  /\ \A s \in Suggestions : suggestions[s].approved # None =>
       leads[suggestions[s].name] = Resolved(suggestions[s].approved)

\* An entry carries the present name of each of its tags, through renames,
\* merges and restores of older revisions (tags.ts:41, routes/tags.ts:217, 270).
EntriesCurrent ==
  \A e \in Tagged : \A n \in carried[e] : leads[n] # None /\ defs[leads[n]].name = n

\* "Existing shared tag links remain usable" (TagsPage.tsx:128): a change of the
\* catalog loses no entry from the page that a link by name or by id leads to.
FoundByName(n) == {e \in Tagged : \E m \in carried[e] : leads[m] = leads[n]}
FoundById(t) == {e \in Tagged : Exists(t) /\ \E m \in carried[e] : leads[m] = Resolved(t)}

LinksKeep ==
  [][/\ \A n \in TagNames : leads[n] # None => FoundByName(n) \subseteq FoundByName(n)'
     /\ \A t \in Tags : FoundById(t) \subseteq FoundById(t)']_<<defs, leads>>

Redirects == INSTANCE NameRedirects WITH Names <- TagNames

\* TagNames that lead to one tag always will (migration 010: "Stable catalog IDs
\* and name aliases make renames/merges compatible", tags.ts:41).
ImplementsRedirects == Redirects!Spec
=============================================================================
