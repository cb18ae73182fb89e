------------------------------ MODULE TagProofs ------------------------------
(***************************************************************************)
(* Theorems about TagCatalog, for any names, tags, entries, suggestions,   *)
(* editors and limit of tags.  A change of the catalog moves whatever led  *)
(* to one definition to another one (or to the same), so names, ids and    *)
(* entries can be followed through it.                                     *)
(***************************************************************************)
EXTENDS TagCatalog, FiniteSetTheorems, TLAPS

\* The parts of NamesResolve.
NamesLead == \A n \in TagNames :
  leads[n] # None => Exists(leads[n]) /\ defs[leads[n]].into = None
TagsLead == \A t \in Tags : Exists(t) =>
  /\ Exists(Resolved(t)) /\ defs[Resolved(t)].into = None
  /\ leads[defs[t].name] = Resolved(t)
SuggestionsLead == \A s \in Suggestions : suggestions[s].approved # None =>
  leads[suggestions[s].name] = Resolved(suggestions[s].approved)

\* A suggestion that was approved became a definition that is still there.
ApprovedExist == \A s \in Suggestions :
  suggestions[s].approved # None => Exists(suggestions[s].approved)

CatalogInv == CatalogTypeOK /\ NamesResolve /\ EntriesCurrent /\ ApprovedExist

\* Where something that led to x leads once t was merged into target; nothing
\* moves when they are the same.
Followed(x, t, target) == IF x = t THEN target ELSE x

\* A change of the catalog moves names, ids and the tags of entries together.
Follows(t, target) ==
  /\ \A n \in TagNames : leads[n] # None => leads'[n] = Followed(leads[n], t, target)
  /\ \A d \in Tags : Exists(d) => Exists(d)' /\ Resolved(d)' = Followed(Resolved(d), t, target)
  /\ \A e \in Tagged : \A m \in carried[e] :
       \E k \in carried'[e] : leads'[k] = Followed(leads[m], t, target)

------------------------------------------------------------------------------
(* Rows *)

\* A row of tag_definitions is never the missing one.
LEMMA DefsDistinct == NoDef \notin Def
<1>1. DOMAIN NoDef = {"missing"} /\ \A d \in Def : DOMAIN d = {"name", "retired", "into"}
  BY DEF NoDef, Def
<1>2. QED
  BY <1>1

\* What is typed of a definition that exists.
LEMMA DefFields ==
  ASSUME CatalogTypeOK, NEW t \in Tags, Exists(t)
  PROVE  /\ defs[t] \in Def
         /\ defs[t].name \in TagNames /\ defs[t].retired \in BOOLEAN
         /\ defs[t].into \in Tags \cup {None}
         /\ Resolved(t) \in Tags
<1>1. defs[t] \in Def
  BY DEF CatalogTypeOK, Exists
<1>2. QED
  BY <1>1 DEF Def, Resolved

\* The record with these columns is a definition.
LEMMA DefMade ==
  ASSUME NEW name \in TagNames, NEW retired \in BOOLEAN, NEW into \in Tags \cup {None}
  PROVE  [name |-> name, retired |-> retired, into |-> into] \in Def
  BY Zenon DEF Def

\* A definition whose name and retirement change.
LEMMA DefUpdated ==
  ASSUME NEW r \in Def, NEW name \in TagNames, NEW retired \in BOOLEAN
  PROVE  LET row == [r EXCEPT !.name = name, !.retired = retired]
         IN  row \in Def /\ row.name = name /\ row.into = r.into
  BY DEF Def

\* Names and tags are not None.
LEMMA NotNone == \A x \in TagNames \cup Tags : x # None
  BY CatalogAssumption

\* What the UPDATE of listings makes of one entry's tags.
Relabel(S, t, owns, name) == {IF owns[n] = t THEN name ELSE n : n \in S}

\* An entry gets no more tags by it.
LEMMA RelabelledSmall ==
  ASSUME NEW S \in SUBSET TagNames, NEW t, NEW owns, NEW name, Cardinality(S) <= MaxTags
  PROVE  Cardinality(Relabel(S, t, owns, name)) <= MaxTags
<1>1. IsFiniteSet(S)
  BY CatalogAssumption, FS_Subset
<1> DEFINE T == Relabel(S, t, owns, name)
           f == [n \in S |-> IF owns[n] = t THEN name ELSE n]
<1>2. f \in Surjection(S, T)
  BY DEF Surjection, Relabel
<1>3. IsFiniteSet(T) /\ Cardinality(T) <= Cardinality(S)
  BY <1>1, <1>2, FS_Surjection
<1>4. Cardinality(S) \in Nat /\ Cardinality(T) \in Nat
  BY <1>1, <1>3, FS_CardinalityType
<1>5. QED
  BY <1>3, <1>4, CatalogAssumption

------------------------------------------------------------------------------
(* Types *)

\* Pages keep their shape when definitions change.
LEMMA AgedTyped ==
  ASSUME CatalogTypeOK, NEW page, NEW changed \in SUBSET Tags, pages' = Aged(page, changed)
  PROVE  pages' \in [Curators -> Page]
<1>1. NoPage \in Page
  BY DEF NoPage, Page
<1>2. \A ed \in Curators :
        [pages[ed] EXCEPT !.changed = @ \cup (changed \cap {pages[ed].tag, pages[ed].target})] \in Page
  BY DEF CatalogTypeOK, Page
<1>3. QED
  BY <1>1, <1>2 DEF Aged

\* The UPDATE of listings keeps the tags of an entry few and named.
LEMMA RelabelledTyped ==
  ASSUME CatalogTypeOK, NEW t, NEW owns, NEW name \in TagNames,
         carried' = Relabelled(t, owns, name)
  PROVE  /\ carried' \in [Tagged -> SUBSET TagNames]
         /\ \A e \in Tagged : Cardinality(carried'[e]) <= MaxTags
<1>1. \A e \in Tagged : carried[e] \in SUBSET TagNames /\ Cardinality(carried[e]) <= MaxTags
  BY DEF CatalogTypeOK
<1>2. ASSUME NEW e \in Tagged
      PROVE  Cardinality(carried'[e]) <= MaxTags
  <2>1. carried'[e] = Relabel(carried[e], t, owns, name)
    BY DEF Relabelled, Relabel
  <2>2. Cardinality(Relabel(carried[e], t, owns, name)) <= MaxTags
    BY <1>1, RelabelledSmall
  <2>3. QED
    BY <2>1, <2>2
<1>3. carried' \in [Tagged -> SUBSET TagNames]
  BY <1>1 DEF Relabelled
<1>4. QED
  BY <1>2, <1>3

\* One definition gets new columns.
LEMMA DefsTyped ==
  ASSUME CatalogTypeOK, NEW t \in Tags, NEW row \in Def, defs' = [defs EXCEPT ![t] = row]
  PROVE  /\ defs' \in [Tags -> Def \cup {NoDef}]
         /\ defs'[t] = row
         /\ \A d \in Tags \ {t} : defs'[d] = defs[d]
  BY DEF CatalogTypeOK

\* putNames keeps names on definitions.
LEMMA NamedTyped ==
  ASSUME CatalogTypeOK, NEW t \in Tags, NEW names \in SUBSET TagNames, leads' = Named(t, names)
  PROVE  leads' \in [TagNames -> Tags \cup {None}]
  BY DEF CatalogTypeOK, Named

\* The catalog that migration 010 creates has its types.
LEMMA CatalogTypesInit == CatalogInit => CatalogTypeOK
<1> SUFFICES ASSUME CatalogInit PROVE CatalogTypeOK
  OBVIOUS
<1>1. [name |-> FirstTagName, retired |-> FALSE, into |-> None] \in Def
  BY CatalogAssumption, DefMade
<1>2. \A e \in Tagged : Cardinality(carried[e]) = 1
  BY FS_Singleton DEF CatalogInit
<1>3. NoPage \in Page
  BY DEF NoPage, Page
<1>4. defs \in [Tags -> Def \cup {NoDef}]
  BY <1>1 DEF CatalogInit
<1>5. /\ leads \in [TagNames -> Tags \cup {None}]
      /\ carried \in [Tagged -> SUBSET TagNames]
      /\ suggestions \in [Suggestions -> Suggestion \cup {NoSuggestion}]
      /\ pages \in [Curators -> Page]
  BY <1>3, CatalogAssumption DEF CatalogInit
<1>6. \A e \in Tagged : Cardinality(carried[e]) <= MaxTags
  BY <1>2, CatalogAssumption
<1>7. QED
  BY <1>4, <1>5, <1>6 DEF CatalogTypeOK

------------------------------------------------------------------------------
(* What names lead to *)

\* NamesResolve is its parts.
LEMMA ResolveParts == NamesResolve <=> NamesLead /\ TagsLead /\ SuggestionsLead
  BY DEF NamesResolve, NamesLead, TagsLead, SuggestionsLead

\* The first definition is the only one, and its name leads to it.
LEMMA CatalogInvInit == CatalogInit => CatalogInv
<1> SUFFICES ASSUME CatalogInit PROVE CatalogInv
  OBVIOUS
<1>1. CatalogTypeOK
  BY CatalogTypesInit
<1>2. \A t \in Tags : Exists(t) <=> t = FirstTag
  <2>1. [name |-> FirstTagName, retired |-> FALSE, into |-> None] \in Def
    BY CatalogAssumption, DefMade
  <2>2. QED
    BY <2>1, DefsDistinct DEF CatalogInit, Exists
<1>3. defs[FirstTag] = [name |-> FirstTagName, retired |-> FALSE, into |-> None]
  BY CatalogAssumption DEF CatalogInit
<1>4. \A s \in Suggestions : suggestions[s].approved = None
  BY DEF CatalogInit, NoSuggestion
<1>5. \A n \in TagNames : leads[n] = IF n = FirstTagName THEN FirstTag ELSE None
  BY DEF CatalogInit
<1>6. NamesLead
  BY <1>2, <1>3, <1>5, CatalogAssumption DEF NamesLead
<1>7. TagsLead
  BY <1>2, <1>3, <1>5, CatalogAssumption DEF TagsLead, Resolved
<1>8. EntriesCurrent
  BY <1>3, <1>5, CatalogAssumption DEF EntriesCurrent, CatalogInit
<1>9. SuggestionsLead /\ ApprovedExist
  BY <1>4 DEF SuggestionsLead, ApprovedExist
<1>10. QED
  BY <1>1, <1>6, <1>7, <1>8, <1>9, ResolveParts DEF CatalogInv

\* The name of the definition that a name leads to leads to it as well, and is
\* therefore one that an entry may carry.
LEMMA PresentName ==
  ASSUME CatalogInv, NEW n \in TagNames, leads[n] # None
  PROVE  /\ leads[n] \in Tags /\ Exists(leads[n]) /\ defs[leads[n]].into = None
         /\ defs[leads[n]].name \in TagNames
         /\ leads[defs[leads[n]].name] = leads[n]
<1>1. leads[n] \in Tags /\ Exists(leads[n]) /\ defs[leads[n]].into = None
  BY ResolveParts DEF CatalogInv, CatalogTypeOK, NamesLead
<1>2. defs[leads[n]].name \in TagNames
  BY <1>1, DefFields DEF CatalogInv
<1>3. leads[defs[leads[n]].name] = Resolved(leads[n])
  BY <1>1, ResolveParts DEF CatalogInv, TagsLead
<1>4. QED
  BY <1>1, <1>2, <1>3 DEF Resolved

\* Suggestions follow the catalog.
LEMMA SuggestionsFollow ==
  ASSUME CatalogInv, NEW t, NEW target, Follows(t, target), UNCHANGED suggestions
  PROVE  SuggestionsLead' /\ ApprovedExist'
<1> SUFFICES ASSUME NEW s \in Suggestions, suggestions[s].approved # None
             PROVE  /\ leads'[suggestions[s].name] = Resolved(suggestions[s].approved)'
                    /\ Exists(suggestions[s].approved)'
  BY DEF SuggestionsLead, ApprovedExist
<1> DEFINE a == suggestions[s].approved
           n == suggestions[s].name
<1>1. suggestions[s] \in Suggestion
  BY DEF CatalogInv, CatalogTypeOK, NoSuggestion
<1>2. a \in Tags /\ n \in TagNames
  BY <1>1 DEF Suggestion
<1>3. Exists(a) /\ leads[n] = Resolved(a)
  BY ResolveParts DEF CatalogInv, SuggestionsLead, ApprovedExist
<1>4. Resolved(a) \in Tags
  BY <1>2, <1>3, DefFields DEF CatalogInv
<1>5. leads'[n] = Followed(Resolved(a), t, target)
  BY <1>2, <1>3, <1>4, NotNone DEF Follows
<1>6. Exists(a)' /\ Resolved(a)' = Followed(Resolved(a), t, target)
  BY <1>2, <1>3 DEF Follows
<1>7. QED
  BY <1>5, <1>6

\* A definition is added with its names.
LEMMA Introduced ==
  ASSUME CatalogInv, NEW t \in Tags, ~Exists(t),
         NEW names \in SUBSET TagNames, NEW name \in names, NEW retired \in BOOLEAN,
         NamesFree(t, names), leads' = Named(t, names), UNCHANGED carried,
         defs' = [defs EXCEPT ![t] = [name |-> name, retired |-> retired, into |-> None]]
  PROVE  /\ defs' \in [Tags -> Def \cup {NoDef}] /\ leads' \in [TagNames -> Tags \cup {None}]
         /\ Follows(t, t) /\ NamesLead' /\ TagsLead' /\ EntriesCurrent'
<1> DEFINE row == [name |-> name, retired |-> retired, into |-> None]
<1>1. row \in Def /\ row # NoDef /\ row.name = name /\ row.into = None
  BY DefMade, DefsDistinct
<1> HIDE DEF row
<1>2. /\ defs' \in [Tags -> Def \cup {NoDef}]
      /\ defs'[t] = row
      /\ \A d \in Tags \ {t} : defs'[d] = defs[d]
  BY <1>1, DefsTyped DEF row, CatalogInv
<1>3. leads' \in [TagNames -> Tags \cup {None}]
  BY NamedTyped DEF CatalogInv
<1>4. \A n \in TagNames : leads[n] # t
  BY PresentName, NotNone
<1>5. \A n \in TagNames : leads'[n] = IF n \in names THEN t ELSE leads[n]
  BY DEF Named
<1>6. \A n \in TagNames : leads[n] # None => leads'[n] = leads[n]
  BY <1>4, <1>5 DEF NamesFree
<1>7. \A d \in Tags : Exists(d) => /\ d # t /\ defs'[d] = defs[d] /\ Exists(d)'
                                 /\ Resolved(d)' = Resolved(d)
  BY <1>2 DEF Exists, Resolved
<1>8. \A e \in Tagged : \A m \in carried[e] : m \in TagNames /\ leads[m] # None
  BY DEF CatalogInv, CatalogTypeOK, EntriesCurrent
<1>9. Follows(t, t)
  BY <1>6, <1>7, <1>8 DEF Follows, Followed
<1>10. NamesLead'
  <2> SUFFICES ASSUME NEW n \in TagNames, leads'[n] # None
               PROVE  Exists(leads[n])' /\ defs'[leads'[n]].into = None
    BY DEF NamesLead
  <2>1. CASE n \in names
    BY <2>1, <1>1, <1>2, <1>5 DEF Exists
  <2>2. CASE n \notin names
    BY <2>2, <1>5, <1>7, PresentName
  <2>3. QED
    BY <2>1, <2>2
<1>11. TagsLead'
  <2> SUFFICES ASSUME NEW d \in Tags, Exists(d)'
               PROVE  /\ Exists(Resolved(d))' /\ (defs[Resolved(d)].into)' = None
                      /\ leads'[defs'[d].name] = Resolved(d)'
    BY DEF TagsLead
  <2>1. CASE d = t
    BY <2>1, <1>1, <1>2, <1>5 DEF Exists, Resolved
  <2>2. CASE d # t
    <3>1. Exists(d)
      BY <2>2, <1>2 DEF Exists
    <3>2. Exists(Resolved(d)) /\ defs[Resolved(d)].into = None /\ leads[defs[d].name] = Resolved(d)
      BY <3>1, ResolveParts DEF CatalogInv, TagsLead
    <3>3. Resolved(d) \in Tags /\ defs[d].name \in TagNames
      BY <3>1, DefFields DEF CatalogInv
    <3>4. Resolved(d)' = Resolved(d) /\ defs'[d] = defs[d]
      BY <3>1, <1>7
    <3>5. Exists(Resolved(d))' /\ (defs[Resolved(d)].into)' = None
      BY <3>2, <3>3, <3>4, <1>7 DEF Exists
    <3>6. leads'[defs[d].name] = Resolved(d)
      BY <3>2, <3>3, <1>6, NotNone
    <3>7. QED
      BY <3>4, <3>5, <3>6
  <2>3. QED
    BY <2>1, <2>2
<1>12. EntriesCurrent'
  BY <1>6, <1>7, <1>8, PresentName DEF EntriesCurrent, CatalogInv
<1>13. QED
  BY <1>2, <1>3, <1>9, <1>10, <1>11, <1>12

------------------------------------------------------------------------------
(* The catalog's actions *)

LEMMA CreateKeeps ==
  ASSUME CatalogInv, NEW t \in Tags, NEW name \in TagNames,
         NEW aliases \in SUBSET (TagNames \ {name}), NEW retired \in BOOLEAN,
         Create(t, name, aliases, retired)
  PROVE  CatalogInv' /\ Follows(t, t)
<1> DEFINE names == {name} \cup aliases
<1>1. /\ ~Exists(t) /\ NamesFree(t, names) /\ leads' = Named(t, names)
      /\ defs' = [defs EXCEPT ![t] = [name |-> name, retired |-> retired, into |-> None]]
      /\ UNCHANGED <<carried, suggestions, pages>>
  BY DEF Create
<1>2. names \in SUBSET TagNames /\ name \in names
  OBVIOUS
<1> HIDE DEF names
<1>3. /\ defs' \in [Tags -> Def \cup {NoDef}] /\ leads' \in [TagNames -> Tags \cup {None}]
      /\ Follows(t, t) /\ NamesLead' /\ TagsLead' /\ EntriesCurrent'
  BY <1>1, <1>2, Introduced
<1>4. SuggestionsLead' /\ ApprovedExist'
  BY <1>1, <1>3, SuggestionsFollow
<1>5. CatalogTypeOK'
  BY <1>1, <1>3 DEF CatalogTypeOK, CatalogInv
<1>6. NamesResolve'
  BY <1>3, <1>4 DEF NamesResolve, NamesLead, TagsLead, SuggestionsLead
<1>7. QED
  BY <1>3, <1>4, <1>5, <1>6 DEF CatalogInv

\* The definition that is saved keeps its id, its names and what was merged
\* into it.
LEMMA SaveKeeps ==
  ASSUME CatalogInv, NEW page \in Page, NEW name \in TagNames,
         NEW aliases \in SUBSET (TagNames \ {name}), NEW retired \in BOOLEAN,
         Save(page, name, aliases, retired)
  PROVE  CatalogInv' /\ Follows(page.tag, page.tag)
<1> DEFINE t == page.tag
           names == {name} \cup aliases
           row == [defs[t] EXCEPT !.name = name, !.retired = retired]
<1>1. /\ t \in Tags /\ Exists(t) /\ defs[t].into = None /\ NamesFree(t, names)
      /\ leads' = Named(t, names)
      /\ defs' = [defs EXCEPT ![t].name = name, ![t].retired = retired]
      /\ carried' = IF name = defs[t].name THEN carried ELSE Relabelled(t, leads', name)
      /\ pages' = Aged(page, {t})
      /\ UNCHANGED suggestions
  BY DEF Save, Page
<1>2. names \in SUBSET TagNames /\ name \in names
  OBVIOUS
<1>3. row \in Def /\ row # NoDef /\ row.name = name /\ row.into = None
  <2>1. defs[t] \in Def
    BY <1>1, DefFields DEF CatalogInv
  <2>2. row \in Def /\ row.name = name /\ row.into = defs[t].into
    BY <2>1, DefUpdated
  <2>3. QED
    BY <2>2, <1>1, DefsDistinct
<1>4. defs' = [defs EXCEPT ![t] = row]
  BY <1>1 DEF CatalogInv, CatalogTypeOK
<1> HIDE DEF names, row
<1>5. /\ defs' \in [Tags -> Def \cup {NoDef}]
      /\ defs'[t] = row
      /\ \A d \in Tags \ {t} : defs'[d] = defs[d]
  BY <1>1, <1>3, <1>4, DefsTyped DEF CatalogInv
<1>6. leads' \in [TagNames -> Tags \cup {None}]
  BY <1>1, <1>2, NamedTyped DEF CatalogInv
<1>7. \A n \in TagNames : leads'[n] = IF n \in names THEN t ELSE leads[n]
  BY <1>1 DEF Named
<1>8. \A n \in TagNames : leads[n] # None => leads'[n] = leads[n]
  BY <1>1, <1>7 DEF NamesFree
<1>9. \A d \in Tags :
        /\ defs'[d] # NoDef <=> defs[d] # NoDef
        /\ defs[d] # NoDef => defs'[d].into = defs[d].into
  BY <1>1, <1>3, <1>5 DEF Exists
<1>10. \A d \in Tags : Exists(d) => Exists(d)' /\ Resolved(d)' = Resolved(d)
  BY <1>9 DEF Resolved, Exists
<1>11. \A e \in Tagged : \A m \in carried[e] :
         m \in TagNames /\ leads[m] # None /\ defs[leads[m]].name = m
  BY DEF CatalogInv, CatalogTypeOK, EntriesCurrent
<1>12. leads'[name] = t
  BY <1>2, <1>7
<1>13. Follows(t, t)
  <2>1. ASSUME NEW e \in Tagged, NEW m \in carried[e]
        PROVE  \E k \in carried'[e] : leads'[k] = leads[m]
    <3>1. leads'[m] = leads[m]
      BY <1>8, <1>11
    <3>2. CASE name = defs[t].name
      BY <1>1, <3>1, <3>2
    <3>3. CASE name # defs[t].name
      <4>1. (IF leads'[m] = t THEN name ELSE m) \in carried'[e]
        BY <1>1, <3>3 DEF Relabelled
      <4>2. leads'[IF leads'[m] = t THEN name ELSE m] = leads[m]
        BY <1>12, <3>1
      <4>3. QED
        BY <4>1, <4>2
    <3>4. QED
      BY <3>2, <3>3
  <2>2. QED
    BY <1>8, <1>10, <2>1 DEF Follows, Followed
<1>14. NamesLead'
  <2> SUFFICES ASSUME NEW n \in TagNames, leads'[n] # None
               PROVE  Exists(leads[n])' /\ defs'[leads'[n]].into = None
    BY DEF NamesLead
  <2>1. CASE n \in names
    BY <2>1, <1>1, <1>3, <1>5, <1>7 DEF Exists
  <2>2. CASE n \notin names
    BY <2>2, <1>7, <1>9, PresentName DEF Exists
  <2>3. QED
    BY <2>1, <2>2
<1>15. TagsLead'
  <2> SUFFICES ASSUME NEW d \in Tags, Exists(d)'
               PROVE  /\ Exists(Resolved(d))' /\ (defs[Resolved(d)].into)' = None
                      /\ leads'[defs'[d].name] = Resolved(d)'
    BY DEF TagsLead
  <2>1. Exists(d)
    BY <1>9 DEF Exists
  <2>2. Exists(Resolved(d)) /\ defs[Resolved(d)].into = None /\ leads[defs[d].name] = Resolved(d)
    BY <2>1, ResolveParts DEF CatalogInv, TagsLead
  <2>3. Resolved(d) \in Tags /\ defs[d].name \in TagNames /\ Resolved(d)' = Resolved(d)
    BY <2>1, <1>10, DefFields DEF CatalogInv
  <2>4. Exists(Resolved(d))' /\ (defs[Resolved(d)].into)' = None
    BY <2>2, <2>3, <1>9 DEF Exists
  <2>5. leads'[defs'[d].name] = Resolved(d)
    <3>1. CASE d = t
      BY <3>1, <1>1, <1>3, <1>5, <1>12 DEF Resolved
    <3>2. CASE d # t
      BY <3>2, <2>2, <2>3, <1>5, <1>8, NotNone
    <3>3. QED
      BY <3>1, <3>2
  <2>6. QED
    BY <2>3, <2>4, <2>5
<1>16. EntriesCurrent'
  <2> SUFFICES ASSUME NEW e \in Tagged, NEW k \in carried'[e]
               PROVE  leads'[k] # None /\ defs'[leads'[k]].name = k
    BY DEF EntriesCurrent
  <2>1. CASE name = defs[t].name
    <3>1. k \in carried[e] /\ k \in TagNames /\ leads[k] # None /\ defs[leads[k]].name = k
      BY <2>1, <1>1, <1>11
    <3>2. leads'[k] = leads[k] /\ leads[k] \in Tags
      BY <3>1, <1>8, PresentName
    <3>3. defs'[leads[k]].name = defs[leads[k]].name
      BY <2>1, <3>2, <1>3, <1>5
    <3>4. QED
      BY <3>1, <3>2, <3>3
  <2>2. CASE name # defs[t].name
    <3>1. PICK m \in carried[e] : k = IF leads'[m] = t THEN name ELSE m
      BY <2>2, <1>1 DEF Relabelled
    <3>2. m \in TagNames /\ leads[m] # None /\ defs[leads[m]].name = m /\ leads'[m] = leads[m]
      BY <1>8, <1>11
    <3>3. CASE leads[m] = t
      BY <3>1, <3>2, <3>3, <1>1, <1>3, <1>5, <1>12, NotNone
    <3>4. CASE leads[m] # t
      BY <3>1, <3>2, <3>4, <1>5, PresentName
    <3>5. QED
      BY <3>3, <3>4
  <2>3. QED
    BY <2>1, <2>2
<1>17. SuggestionsLead' /\ ApprovedExist'
  BY <1>1, <1>13, SuggestionsFollow
<1>18. CatalogTypeOK'
  <2>1. pages' \in [Curators -> Page]
    BY <1>1, AgedTyped DEF CatalogInv
  <2>2. /\ carried' \in [Tagged -> SUBSET TagNames]
        /\ \A e \in Tagged : Cardinality(carried'[e]) <= MaxTags
    BY <1>1, RelabelledTyped DEF CatalogInv, CatalogTypeOK
  <2>3. QED
    BY <1>1, <1>5, <1>6, <2>1, <2>2 DEF CatalogInv, CatalogTypeOK
<1>19. NamesResolve'
  BY <1>14, <1>15, <1>17 DEF NamesResolve, NamesLead, TagsLead, SuggestionsLead
<1>20. QED
  BY <1>13, <1>16, <1>17, <1>18, <1>19 DEF CatalogInv

\* A definition that is merged away keeps its name.
LEMMA DefMerged ==
  ASSUME NEW r \in Def, NEW target \in Tags
  PROVE  LET row == [r EXCEPT !.retired = TRUE, !.into = target]
         IN  row \in Def /\ row.name = r.name /\ row.into = target
  BY DEF Def

\* Everything that led to the source, its own redirections included, leads to
\* the target.
LEMMA MergeKeeps ==
  ASSUME CatalogInv, NEW page \in Page, Merge(page)
  PROVE  CatalogInv' /\ Follows(page.tag, page.target)
<1> DEFINE t == page.tag
           target == page.target
           moved == MovedWith(t)
           tn == defs[target].name
<1>1. /\ t \in Tags /\ target \in Tags /\ t # target
      /\ Exists(t) /\ defs[t].into = None /\ Exists(target) /\ defs[target].into = None
      /\ carried' = Relabelled(t, leads, tn)
      /\ leads' = [n \in TagNames |-> IF leads[n] = t THEN target ELSE leads[n]]
      /\ defs' = [d \in Tags |-> IF d \in moved
           THEN [defs[d] EXCEPT !.retired = TRUE, !.into = target] ELSE defs[d]]
      /\ pages' = Aged(page, moved \cup {target})
      /\ UNCHANGED suggestions
  BY DEF Merge, MayMerge, Available, Page
<1>2. moved \subseteq Tags /\ \A d \in Tags : d \in moved <=> Exists(d) /\ Resolved(d) = t
  BY <1>1, NotNone DEF MovedWith, Resolved
<1>3. target \notin moved
  BY <1>1, <1>2 DEF Resolved
<1> HIDE DEF moved
<1>4. \A d \in moved : /\ defs'[d] \in Def /\ defs'[d] # NoDef
                       /\ defs'[d].name = defs[d].name /\ defs'[d].into = target
  <2> SUFFICES ASSUME NEW d \in moved
               PROVE  /\ defs'[d] \in Def /\ defs'[d] # NoDef
                      /\ defs'[d].name = defs[d].name /\ defs'[d].into = target
    OBVIOUS
  <2>1. d \in Tags /\ defs[d] \in Def
    BY <1>2, DefFields DEF CatalogInv
  <2>2. defs'[d] = [defs[d] EXCEPT !.retired = TRUE, !.into = target]
    BY <1>1, <2>1
  <2>3. QED
    BY <1>1, <2>1, <2>2, DefMerged, DefsDistinct
<1>5. \A d \in Tags \ moved : defs'[d] = defs[d]
  BY <1>1
<1>6. \A d \in Tags :
        Exists(d)' /\ d \notin moved => Exists(d)
  BY <1>5 DEF Exists
<1>7. tn \in TagNames /\ leads[tn] = target
  <2>1. tn \in TagNames
    BY <1>1, DefFields DEF CatalogInv
  <2>2. leads[tn] = Resolved(target)
    BY <1>1, ResolveParts DEF CatalogInv, TagsLead
  <2>3. QED
    BY <1>1, <2>1, <2>2 DEF Resolved
<1>8. \A n \in TagNames : leads'[n] = Followed(leads[n], t, target)
  BY <1>1 DEF Followed
<1>9. ASSUME NEW d \in Tags, Exists(d)
      PROVE  /\ Exists(d)' /\ defs'[d].name = defs[d].name
             /\ Resolved(d)' = Followed(Resolved(d), t, target)
  <2>1. CASE d \in moved
    BY <2>1, <1>1, <1>2, <1>4, NotNone DEF Exists, Resolved, Followed
  <2>2. CASE d \notin moved
    BY <2>2, <1>2, <1>5, <1>9 DEF Exists, Resolved, Followed
  <2>3. QED
    BY <2>1, <2>2
<1>10. ASSUME NEW x \in Tags, Exists(x), defs[x].into = None
       PROVE  LET y == Followed(x, t, target) IN
              y \in Tags /\ y \notin moved /\ Exists(y)' /\ defs'[y].into = None /\ defs'[y] = defs[y]
  <2>1. CASE x = t
    BY <2>1, <1>1, <1>3, <1>5 DEF Exists, Followed
  <2>2. CASE x # t
    BY <2>2, <1>2, <1>5, <1>10 DEF Exists, Followed, Resolved
  <2>3. QED
    BY <2>1, <2>2
<1>11. \A e \in Tagged : \A m \in carried[e] :
         m \in TagNames /\ leads[m] # None /\ defs[leads[m]].name = m
  BY DEF CatalogInv, CatalogTypeOK, EntriesCurrent
<1>12. Follows(t, target)
  <2>1. ASSUME NEW e \in Tagged, NEW m \in carried[e]
        PROVE  \E k \in carried'[e] : leads'[k] = Followed(leads[m], t, target)
    <3>1. (IF leads[m] = t THEN tn ELSE m) \in carried'[e]
      BY <1>1 DEF Relabelled
    <3>2. leads'[IF leads[m] = t THEN tn ELSE m] = Followed(leads[m], t, target)
      BY <1>1, <1>7, <1>8, <1>11 DEF Followed
    <3>3. QED
      BY <3>1, <3>2
  <2>2. QED
    BY <1>8, <1>9, <2>1 DEF Follows
<1>13. NamesLead'
  <2> SUFFICES ASSUME NEW n \in TagNames, leads'[n] # None
               PROVE  Exists(leads[n])' /\ defs'[leads'[n]].into = None
    BY DEF NamesLead
  <2>1. leads[n] # None
    BY <1>1, <1>8, NotNone DEF Followed
  <2>2. QED
    BY <2>1, <1>8, <1>10, PresentName DEF Exists
<1>14. TagsLead'
  <2> SUFFICES ASSUME NEW d \in Tags, Exists(d)'
               PROVE  /\ Exists(Resolved(d))' /\ (defs[Resolved(d)].into)' = None
                      /\ leads'[defs'[d].name] = Resolved(d)'
    BY DEF TagsLead
  <2>1. Exists(d)
    BY <1>2, <1>6
  <2>2. Exists(Resolved(d)) /\ defs[Resolved(d)].into = None /\ leads[defs[d].name] = Resolved(d)
    BY <2>1, ResolveParts DEF CatalogInv, TagsLead
  <2>3. /\ Resolved(d) \in Tags /\ defs[d].name \in TagNames
        /\ defs'[d].name = defs[d].name
        /\ Resolved(d)' = Followed(Resolved(d), t, target)
    BY <2>1, <1>9, DefFields DEF CatalogInv
  <2>4. Exists(Resolved(d))' /\ (defs[Resolved(d)].into)' = None
    BY <2>2, <2>3, <1>10 DEF Exists
  <2>5. leads'[defs'[d].name] = Resolved(d)'
    BY <2>2, <2>3, <1>8
  <2>6. QED
    BY <2>4, <2>5
<1>15. EntriesCurrent'
  <2> SUFFICES ASSUME NEW e \in Tagged, NEW k \in carried'[e]
               PROVE  leads'[k] # None /\ defs'[leads'[k]].name = k
    BY DEF EntriesCurrent
  <2>1. PICK m \in carried[e] : k = IF leads[m] = t THEN tn ELSE m
    BY <1>1 DEF Relabelled
  <2>2. m \in TagNames /\ leads[m] # None /\ defs[leads[m]].name = m
    BY <1>11
  <2>3. CASE leads[m] = t
    BY <2>1, <2>3, <1>1, <1>3, <1>5, <1>7, <1>8, NotNone DEF Followed
  <2>4. CASE leads[m] # t
    <3>1. k = m /\ leads'[k] = leads[m] /\ leads[m] \in Tags
      BY <2>1, <2>2, <2>4, <1>8, PresentName DEF Followed
    <3>2. defs'[leads[m]] = defs[leads[m]]
      BY <2>2, <2>4, <1>10, PresentName DEF Followed
    <3>3. QED
      BY <2>2, <3>1, <3>2, NotNone
  <2>5. QED
    BY <2>3, <2>4
<1>16. SuggestionsLead' /\ ApprovedExist'
  BY <1>1, <1>12, SuggestionsFollow
<1>17. CatalogTypeOK'
  <2>1. pages' \in [Curators -> Page]
    BY <1>1, <1>2, AgedTyped DEF CatalogInv
  <2>2. /\ carried' \in [Tagged -> SUBSET TagNames]
        /\ \A e \in Tagged : Cardinality(carried'[e]) <= MaxTags
    BY <1>1, <1>7, RelabelledTyped DEF CatalogInv
  <2>3. defs' \in [Tags -> Def \cup {NoDef}]
    BY <1>1, <1>4, <1>5 DEF CatalogInv, CatalogTypeOK
  <2>4. leads' \in [TagNames -> Tags \cup {None}]
    BY <1>1 DEF CatalogInv, CatalogTypeOK
  <2>5. QED
    BY <1>1, <2>1, <2>2, <2>3, <2>4 DEF CatalogInv, CatalogTypeOK
<1>18. NamesResolve'
  BY <1>13, <1>14, <1>16 DEF NamesResolve, NamesLead, TagsLead, SuggestionsLead
<1>19. QED
  BY <1>12, <1>15, <1>16, <1>17, <1>18 DEF CatalogInv

\* A name that was suggested has a definition by now, or gets one.
LEMMA ApproveKeeps ==
  ASSUME CatalogInv, NEW s \in Suggestions, NEW t \in Tags, Approve(s, t)
  PROVE  CatalogInv' /\ Follows(t, t)
<1> DEFINE name == suggestions[s].name
<1>1. /\ suggestions[s] # NoSuggestion /\ suggestions[s].approved = None
      /\ suggestions' = [suggestions EXCEPT ![s].approved = t]
      /\ UNCHANGED <<carried, pages>>
  BY DEF Approve, Pending
<1>2. suggestions[s] \in Suggestion /\ name \in TagNames
  BY <1>1 DEF CatalogInv, CatalogTypeOK, Suggestion
<1>3. /\ suggestions' \in [Suggestions -> Suggestion \cup {NoSuggestion}]
      /\ suggestions'[s].approved = t /\ suggestions'[s].name = name
      /\ \A x \in Suggestions \ {s} : suggestions'[x] = suggestions[x]
  BY <1>1, <1>2 DEF CatalogInv, CatalogTypeOK, Suggestion
<1>4. /\ defs' \in [Tags -> Def \cup {NoDef}] /\ leads' \in [TagNames -> Tags \cup {None}]
      /\ Follows(t, t) /\ NamesLead' /\ TagsLead' /\ EntriesCurrent'
      /\ Exists(t)' /\ leads'[name] = Resolved(t)'
  <2>1. CASE leads[name] = t /\ UNCHANGED <<defs, leads>>
    <3>1. NamesLead /\ TagsLead
      BY ResolveParts DEF CatalogInv
    <3>2. /\ NamesLead' /\ TagsLead' /\ EntriesCurrent'
      BY <2>1, <1>1, <3>1 DEF NamesLead, TagsLead, EntriesCurrent, CatalogInv, Exists, Resolved
    <3>3. Follows(t, t)
      BY <2>1, <1>1 DEF Follows, Followed, Exists, Resolved
    <3>4. Exists(t) /\ defs[t].into = None
      BY <1>2, <2>1, PresentName, NotNone
    <3>5. Exists(t)' /\ leads'[name] = Resolved(t)'
      BY <2>1, <3>4 DEF Exists, Resolved
    <3>6. QED
      BY <2>1, <3>2, <3>3, <3>5 DEF CatalogInv, CatalogTypeOK
  <2>2. CASE /\ leads[name] = None /\ ~Exists(t)
             /\ leads' = Named(t, {name})
             /\ defs' = [defs EXCEPT ![t] = [name |-> name, retired |-> FALSE, into |-> None]]
    <3> HIDE DEF name
    <3>1. NamesFree(t, {name}) /\ {name} \in SUBSET TagNames /\ name \in {name}
      BY <1>2, <2>2 DEF NamesFree
    <3>2. /\ defs' \in [Tags -> Def \cup {NoDef}] /\ leads' \in [TagNames -> Tags \cup {None}]
          /\ Follows(t, t) /\ NamesLead' /\ TagsLead' /\ EntriesCurrent'
      BY <1>1, <2>2, <3>1, Introduced
    <3>3. leads'[name] = t
      BY <1>2, <2>2 DEF Named
    <3>4. Exists(t)' /\ defs'[t].into = None
      BY <1>2, <3>2, <3>3, NotNone DEF NamesLead
    <3>5. QED
      BY <3>2, <3>3, <3>4 DEF Resolved
  <2>3. QED
    BY <2>1, <2>2 DEF Approve
<1>5. SuggestionsLead' /\ ApprovedExist'
  <2> SUFFICES ASSUME NEW x \in Suggestions, suggestions'[x].approved # None
               PROVE  /\ leads'[suggestions'[x].name] = Resolved(suggestions[x].approved)'
                      /\ Exists(suggestions[x].approved)'
    BY DEF SuggestionsLead, ApprovedExist
  <2>1. CASE x = s
    BY <2>1, <1>3, <1>4 DEF Resolved, Exists
  <2>2. CASE x # s
    <3> DEFINE a == suggestions[x].approved
               n == suggestions[x].name
    <3>1. a # None /\ suggestions'[x] = suggestions[x]
      BY <2>2, <1>3
    <3>2. a \in Tags /\ n \in TagNames
      BY <3>1 DEF CatalogInv, CatalogTypeOK, NoSuggestion, Suggestion
    <3>3. Exists(a) /\ leads[n] = Resolved(a)
      BY <3>1, ResolveParts DEF CatalogInv, SuggestionsLead, ApprovedExist
    <3>4. Resolved(a) \in Tags
      BY <3>2, <3>3, DefFields DEF CatalogInv
    <3>5. leads'[n] = Resolved(a)
      BY <1>4, <3>2, <3>3, <3>4, NotNone DEF Follows, Followed
    <3>6. Exists(a)' /\ Resolved(a)' = Resolved(a)
      BY <1>4, <3>1, <3>2, <3>3 DEF Follows, Followed, Exists, Resolved
    <3>7. QED
      BY <3>1, <3>5, <3>6 DEF Resolved, Exists
  <2>3. QED
    BY <2>1, <2>2
<1>6. CatalogTypeOK'
  BY <1>1, <1>3, <1>4 DEF CatalogInv, CatalogTypeOK
<1>7. NamesResolve'
  BY <1>4, <1>5 DEF NamesResolve, NamesLead, TagsLead, SuggestionsLead
<1>8. QED
  BY <1>4, <1>5, <1>6, <1>7 DEF CatalogInv

------------------------------------------------------------------------------
(* Entries, suggestions and pages *)

\* Tags that are present names of definitions.
Present(tags) == \A m \in tags : m \in TagNames /\ leads[m] # None /\ defs[leads[m]].name = m

\* Translated names are present, whatever platforms the entry's links name.
LEMMA TranslatedPresent ==
  ASSUME CatalogInv, NEW names \in SUBSET TagNames, \A n \in names : leads[n] # None, NEW links
  PROVE  Present(Canonical(names)) /\ Present(WithPlatforms(Canonical(names), links))
<1>1. ASSUME NEW n \in TagNames, leads[n] # None
      PROVE  LET m == defs[leads[n]].name IN
             m \in TagNames /\ leads[m] # None /\ defs[leads[m]].name = m
  BY <1>1, PresentName
<1>2. Present(Canonical(names))
  BY <1>1 DEF Present, Canonical
<1>3. PlatformNames \subseteq TagNames
  BY CatalogAssumption
<1> DEFINE known == {n \in PlatformNames : leads[n] # None}
           supported == {defs[leads[n]].name : n \in {p \in known \cap links : ~defs[leads[p]].retired}}
<1>4. Present(supported)
  BY <1>1, <1>3 DEF Present
<1>5. QED
  BY <1>2, <1>4 DEF Present, WithPlatforms

\* An entry gets present names, no more than it may have.
LEMMA RewriteKeeps ==
  ASSUME CatalogInv, NEW e \in Tagged, NEW tags, Present(tags), Rewrite(e, tags)
  PROVE  CatalogInv'
<1>1. tags \in SUBSET TagNames
  BY DEF Present
<1>2. carried' \in [Tagged -> SUBSET TagNames]
  BY <1>1 DEF Rewrite, CatalogInv, CatalogTypeOK
<1>3. \A x \in Tagged : carried'[x] = IF x = e THEN tags ELSE carried[x]
  BY DEF Rewrite, CatalogInv, CatalogTypeOK
<1>4. CatalogTypeOK'
  BY <1>2, <1>3 DEF Rewrite, CatalogInv, CatalogTypeOK
<1>5. EntriesCurrent'
  BY <1>3 DEF Rewrite, CatalogInv, EntriesCurrent, Present
<1>6. NamesResolve' /\ ApprovedExist'
  BY DEF Rewrite, CatalogInv, NamesResolve, ApprovedExist, Exists, Resolved
<1>7. QED
  BY <1>4, <1>5, <1>6 DEF CatalogInv

\* The two writers of an entry's tags.
LEMMA EntryStepKeeps ==
  ASSUME CatalogInv, NEW e \in Tagged, NEW names \in SUBSET TagNames, NEW links,
         EditTags(e, names, links) \/ RestoreTags(e, names, links)
  PROVE  CatalogInv'
<1>1. \A n \in names : leads[n] # None
  BY DEF EditTags, RestoreTags, Usable
<1>2. Present(WithPlatforms(Canonical(names), links))
  BY <1>1, TranslatedPresent
<1>3. QED
  BY <1>2, RewriteKeeps DEF EditTags, RestoreTags

\* Opening a page, suggesting and rejecting leave the catalog and the entries alone.
LEMMA DeskStepKeeps ==
  ASSUME CatalogInv,
         \/ \E ed \in Curators, t \in Tags, target \in Tags \cup {None} : OpenTag(ed, t, target)
         \/ \E s \in Suggestions : Reject(s) \/ \E name \in TagNames : Suggest(s, name)
  PROVE  CatalogInv'
<1>1. UNCHANGED <<defs, leads, carried>>
  BY DEF OpenTag, Reject, Suggest
<1>2. pages' \in [Curators -> Page]
  <2>1. \A t \in Tags, target \in Tags \cup {None} : Fresh(t, target) \in Page
    BY DEF Fresh, Page
  <2>2. QED
    BY <2>1 DEF OpenTag, Reject, Suggest, CatalogInv, CatalogTypeOK
<1>3. /\ suggestions' \in [Suggestions -> Suggestion \cup {NoSuggestion}]
      /\ \A s \in Suggestions : suggestions'[s].approved # None => suggestions'[s] = suggestions[s]
  <2>1. CASE UNCHANGED suggestions
    BY <2>1 DEF CatalogInv, CatalogTypeOK
  <2>2. CASE \E s \in Suggestions : Reject(s)
    BY <2>2 DEF Reject, CatalogInv, CatalogTypeOK, NoSuggestion
  <2>3. CASE \E s \in Suggestions : \E name \in TagNames : Suggest(s, name)
    BY <2>3 DEF Suggest, CatalogInv, CatalogTypeOK, NoSuggestion, Suggestion
  <2>4. QED
    BY <2>1, <2>2, <2>3 DEF OpenTag
<1>4. CatalogTypeOK'
  BY <1>1, <1>2, <1>3 DEF CatalogInv, CatalogTypeOK
<1>5. NamesResolve' /\ ApprovedExist'
  BY <1>1, <1>3 DEF CatalogInv, NamesResolve, ApprovedExist, Exists, Resolved
<1>6. EntriesCurrent'
  BY <1>1 DEF CatalogInv, EntriesCurrent
<1>7. QED
  BY <1>4, <1>5, <1>6 DEF CatalogInv

\* A merge names two definitions.
LEMMA MergeNames ==
  ASSUME NEW page \in Page, Merge(page)
  PROVE  /\ page.tag \in Tags /\ page.target \in Tags
         /\ leads' = [n \in TagNames |-> IF leads[n] = page.tag THEN page.target ELSE leads[n]]
  BY DEF Merge, MayMerge, Page

\* A change of the catalog.
LEMMA CatalogStepFollows ==
  ASSUME CatalogInv, CatalogStep
  PROVE  CatalogInv' /\ \E t, target \in Tags : Follows(t, target)
<1>1. /\ \A ed \in Curators : pages[ed] \in Page
      /\ \A t \in Tags, target \in Tags \cup {None} : Fresh(t, target) \in Page
  BY DEF CatalogInv, CatalogTypeOK, Fresh, Page
<1>2. ASSUME NEW name \in TagNames, NEW retired \in BOOLEAN,
             NEW aliases \in SUBSET (TagNames \ {name}), NEW t \in Tags,
             Create(t, name, aliases, retired)
      PROVE  CatalogInv' /\ \E x, y \in Tags : Follows(x, y)
  BY <1>2, CreateKeeps
<1>3. ASSUME NEW name \in TagNames, NEW retired \in BOOLEAN,
             NEW aliases \in SUBSET (TagNames \ {name}),
             NEW page \in OpenPages \cup {Fresh(t, None) : t \in Tags},
             Save(page, name, aliases, retired)
      PROVE  CatalogInv' /\ \E x, y \in Tags : Follows(x, y)
  <2>1. page \in Page
    BY <1>1 DEF OpenPages
  <2>2. CatalogInv' /\ Follows(page.tag, page.tag)
    BY <1>3, <2>1, SaveKeeps
  <2>3. page.tag \in Tags
    BY <1>3, <2>1 DEF Save, Page
  <2>4. QED
    BY <2>2, <2>3
<1>4. ASSUME NEW page \in OpenPages \cup {Fresh(t, target) : t, target \in Tags}, Merge(page)
      PROVE  CatalogInv' /\ \E x, y \in Tags : Follows(x, y)
  <2>1. page \in Page
    BY <1>1 DEF OpenPages
  <2>2. CatalogInv' /\ Follows(page.tag, page.target)
    BY <1>4, <2>1, MergeKeeps
  <2>3. page.tag \in Tags /\ page.target \in Tags
    BY <1>4, <2>1, MergeNames
  <2>4. QED
    BY <2>2, <2>3
<1>5. ASSUME NEW s \in Suggestions, NEW t \in Tags, Approve(s, t)
      PROVE  CatalogInv' /\ \E x, y \in Tags : Follows(x, y)
  BY <1>5, ApproveKeeps
<1>6. QED
  BY <1>2, <1>3, <1>4, <1>5 DEF CatalogStep

\* Every step keeps the invariant; a step outside the catalog leaves names and
\* definitions as they were.
LEMMA CatalogInvStep == CatalogInv /\ [CatalogNext]_catalogVars => CatalogInv'
<1> SUFFICES ASSUME CatalogInv, [CatalogNext]_catalogVars PROVE CatalogInv'
  OBVIOUS
<1>1. CASE CatalogStep
  BY <1>1, CatalogStepFollows
<1>2. CASE \E e \in Tagged, names \in SUBSET TagNames, links \in SUBSET PlatformNames :
             EditTags(e, names, links) \/ RestoreTags(e, names, links)
  BY <1>2, EntryStepKeeps
<1>3. CASE UNCHANGED catalogVars
  BY <1>3 DEF catalogVars, CatalogInv, CatalogTypeOK, NamesResolve, EntriesCurrent, ApprovedExist,
              Exists, Resolved
<1>4. QED
  BY <1>1, <1>2, <1>3, DeskStepKeeps DEF CatalogNext

\* The steps outside the catalog.
LEMMA OtherSteps ==
  ASSUME [CatalogNext]_catalogVars
  PROVE  CatalogStep \/ UNCHANGED <<defs, leads>>
  BY DEF CatalogNext, catalogVars, OpenTag, Reject, Suggest, EditTags, RestoreTags, Rewrite

------------------------------------------------------------------------------
(* Theorems *)

\* The rows of tags.ts and the editors' pages always have their types; no entry
\* has more tags than contracts.ts allows, although a merge writes them too.
THEOREM CatalogTypes == CatalogSpec => []CatalogTypeOK
<1>1. CatalogInv => CatalogTypeOK
  BY DEF CatalogInv
<1>2. QED
  BY <1>1, CatalogInvInit, CatalogInvStep, PTL DEF CatalogSpec

\* Every name leads to a definition that was not merged away, in one step, and
\* so does every id and every approved suggestion.
THEOREM NamesAlwaysResolve == CatalogSpec => []NamesResolve
<1>1. CatalogInv => NamesResolve
  BY DEF CatalogInv
<1>2. QED
  BY <1>1, CatalogInvInit, CatalogInvStep, PTL DEF CatalogSpec

\* Entries carry the present names of their tags after any renames, merges,
\* edits and restores.
THEOREM EntriesStayCurrent == CatalogSpec => []EntriesCurrent
<1>1. CatalogInv => EntriesCurrent
  BY DEF CatalogInv
<1>2. QED
  BY <1>1, CatalogInvInit, CatalogInvStep, PTL DEF CatalogSpec

\* No change of the catalog loses an entry from a shared link.
THEOREM LinksAreKept == CatalogSpec => LinksKeep
<1> DEFINE Kept == /\ \A n \in TagNames : leads[n] # None => FoundByName(n) \subseteq FoundByName(n)'
                   /\ \A t \in Tags : FoundById(t) \subseteq FoundById(t)'
<1>1. CatalogInv /\ [CatalogNext]_catalogVars => [Kept]_<<defs, leads>>
  <2> SUFFICES ASSUME CatalogInv, CatalogStep PROVE Kept
    BY OtherSteps
  <2>1. PICK t \in Tags, target \in Tags : Follows(t, target)
    BY CatalogStepFollows
  <2>2. \A e \in Tagged : \A m \in carried[e] : m \in TagNames /\ leads[m] # None
    BY DEF CatalogInv, CatalogTypeOK, EntriesCurrent
  <2>3. ASSUME NEW n \in TagNames, leads[n] # None
        PROVE  FoundByName(n) \subseteq FoundByName(n)'
    BY <2>1, <2>2, <2>3 DEF FoundByName, Follows
  <2>4. ASSUME NEW d \in Tags
        PROVE  FoundById(d) \subseteq FoundById(d)'
    BY <2>1, <2>2 DEF FoundById, Follows, Exists, Resolved
  <2>5. QED
    BY <2>3, <2>4
<1>2. QED
  BY <1>1, CatalogInvInit, CatalogInvStep, PTL DEF CatalogSpec, LinksKeep

\* The catalog implements redirections of names: names that lead to one tag do
\* so for ever.
THEOREM CatalogImplementsRedirects == CatalogSpec => ImplementsRedirects
<1>1. CatalogInv => Redirects!Init
  BY DEF CatalogInv, CatalogTypeOK, Redirects!Init, Redirects!TypeOK
<1>2. CatalogInv /\ [CatalogNext]_catalogVars => [Redirects!Next]_leads
  <2> SUFFICES ASSUME CatalogInv, CatalogStep, leads' # leads PROVE Redirects!Next
    BY OtherSteps
  <2>1. ASSUME NEW t \in Tags, NEW names \in SUBSET TagNames,
               NamesFree(t, names), leads' = Named(t, names)
        PROVE  Redirects!Next
    BY <2>1 DEF NamesFree, Named, Redirects!Next, Redirects!Add
  <2>2. ASSUME NEW t \in Tags, NEW target \in Tags,
               leads' = [n \in TagNames |-> IF leads[n] = t THEN target ELSE leads[n]]
        PROVE  Redirects!Next
    BY <2>2 DEF Redirects!Next, Redirects!Redirect
  <2>3. /\ \A ed \in Curators : pages[ed] \in Page
        /\ \A t \in Tags, target \in Tags \cup {None} : Fresh(t, target) \in Page
    BY DEF CatalogInv, CatalogTypeOK, Fresh, Page
  <2>4. ASSUME NEW name \in TagNames, NEW retired \in BOOLEAN,
               NEW aliases \in SUBSET (TagNames \ {name}), NEW t \in Tags,
               Create(t, name, aliases, retired)
        PROVE  Redirects!Next
    BY <2>1, <2>4 DEF Create
  <2>5. ASSUME NEW name \in TagNames, NEW retired \in BOOLEAN,
               NEW aliases \in SUBSET (TagNames \ {name}),
               NEW page \in OpenPages \cup {Fresh(t, None) : t \in Tags},
               Save(page, name, aliases, retired)
        PROVE  Redirects!Next
    <3>1. page.tag \in Tags
      BY <2>3, <2>5 DEF OpenPages, Save, Page
    <3>2. QED
      BY <2>1, <2>5, <3>1 DEF Save
  <2>6. ASSUME NEW page \in OpenPages \cup {Fresh(t, target) : t, target \in Tags}, Merge(page)
        PROVE  Redirects!Next
    <3>1. page \in Page
      BY <2>3 DEF OpenPages
    <3>2. page.tag \in Tags /\ page.target \in Tags
      BY <2>6, <3>1, MergeNames
    <3>3. QED
      BY <2>2, <2>6, <3>1, <3>2, MergeNames
  <2>7. ASSUME NEW s \in Suggestions, NEW t \in Tags, Approve(s, t)
        PROVE  Redirects!Next
    <3>1. leads[suggestions[s].name] = None /\ leads' = Named(t, {suggestions[s].name})
      BY <2>7 DEF Approve
    <3>2. suggestions[s].name \in TagNames
      BY <2>7 DEF Approve, Pending, CatalogInv, CatalogTypeOK, Suggestion
    <3>3. QED
      BY <2>1, <3>1, <3>2 DEF NamesFree
  <2>8. QED
    BY <2>4, <2>5, <2>6, <2>7 DEF CatalogStep
<1>3. QED
  BY <1>1, <1>2, CatalogInvInit, CatalogInvStep, PTL
  DEF CatalogSpec, ImplementsRedirects, Redirects!Spec
==============================================================================
