-------------------------------- MODULE Listing --------------------------------
(***************************************************************************)
(* The pipeline's discovery loop over the paged list_items of the three    *)
(* connectors, whose cursors differ:                                       *)
(*   filesystem  walks the tree once, keeps the result under its content   *)
(*               hash, and names it in every cursor;                       *)
(*   website     reads the sitemaps once, and then pages through them;     *)
(*   openwebui   asks the server for every page, with a cursor of the      *)
(*               server's page and an offset into it.                      *)
(* The source may change between two pages, and every request may fail.    *)
(***************************************************************************)
EXTENDS Cuts

CONSTANTS
    Surveys,         \* configurations: [kind, limit, pageSize, counted, url]
    Sources,         \* what may be upstream at first: sequences of items
    Late,            \* an item that may be added later
    Malformed,       \* items without an id or a name
    PageCap,         \* 500 in the code
    ServerPage,      \* files in a page of the OpenWebUI server
    Sitemap,         \* url -> [index: BOOLEAN, locs: sequence of urls]
    Foreign,         \* urls of another origin
    MaxPages,        \* maximum_pages
    NestedCap        \* 20 in the code

(* The items of a source are numbers, in the order of their names.         *)
ASSUME SourceAssumption ==
    /\ Sources \subseteq Seq(Nat) /\ \A files \in Sources : IsInjective(files)
    /\ Late \in Nat
    /\ \A s \in Surveys : s.kind \in {"filesystem", "website", "openwebui"}
    /\ \A s \in Surveys : s.limit \in Nat \ {0} /\ s.pageSize \in Nat \ {0} /\ s.url \in Nat \ Foreign
    /\ \A url \in DOMAIN Sitemap : Sitemap[url].locs \in Seq(Nat)
    /\ {PageCap, ServerPage, MaxPages, NestedCap} \subseteq Nat \ {0}

VARIABLES
    survey,          \* the configuration
    lstep,           \* where list_items is
    upstream,        \* the files of the source, in its order
    calm,            \* history: nothing has changed since the first page
    inventory,       \* the snapshot of the first page, or the website's items
    pending,         \* sitemaps still to read
    capped,          \* history: more was listed than maximum_pages lets in
    mark,            \* the cursor
    gathered         \* items of the discovery loop

listingVars == <<survey, lstep, upstream, calm, inventory, pending, capped, mark, gathered>>

NoSurvey == [kind |-> "none", limit |-> 1, pageSize |-> 1, counted |-> FALSE, url |-> 0]

Limit == Least(PageCap, survey.limit)

-------------------------------------------------------------------------------
(* Someone else edits the source. *)
SourceChanges ==
    /\ survey.kind # "website" /\ lstep = "walking" /\ calm
    /\ \/ \E i \in DOMAIN upstream : upstream' = RemoveAt(upstream, i)
       \/ Late \notin ToSet(upstream) /\ upstream' = <<Late>> \o upstream
    /\ calm' = FALSE
    /\ UNCHANGED <<survey, lstep, inventory, pending, capped, mark, gathered>>

(* No answer, a refusing status, too long an answer, or a malformed one. *)
RequestFails ==
    /\ lstep = "loading" \/ (lstep = "walking" /\ survey.kind = "openwebui")
    /\ lstep' = "failed"
    /\ UNCHANGED <<survey, upstream, calm, inventory, pending, capped, mark, gathered>>

-------------------------------------------------------------------------------
(* The website's inventory. *)

SameOrigin(url) == url \notin Foreign

LocsOf(url) == LET locs == Sitemap[url].locs IN Picked(locs, {i \in DOMAIN locs : SameOrigin(locs[i])})

(* Locations of one sitemap: the reading stops at maximum_pages of them,   *)
(* repetitions included.                                                   *)
SitemapUrls(url) == Distinct(Take(LocsOf(url), MaxPages))

(* A url that is no sitemap is the only page. *)
LoadsRoot ==
    /\ lstep = "loading" /\ survey.kind = "website" /\ mark.page = 0
    /\ IF survey.url \notin DOMAIN Sitemap
       THEN inventory' = <<survey.url>> /\ UNCHANGED pending
       ELSE IF Sitemap[survey.url].index
            THEN pending' = Take(SitemapUrls(survey.url), NestedCap) /\ UNCHANGED inventory
            ELSE inventory' = SitemapUrls(survey.url) /\ UNCHANGED pending
    /\ capped' = (survey.url \in DOMAIN Sitemap /\ Len(LocsOf(survey.url)) > MaxPages)
    /\ mark' = [mark EXCEPT !.page = 1]
    /\ UNCHANGED <<survey, lstep, upstream, calm, gathered>>

Overflows(url) ==
    ~Sitemap[url].index /\ \/ Len(LocsOf(url)) > MaxPages
                           \/ Len(inventory') > MaxPages
                           \/ Len(inventory') = MaxPages /\ Tail(pending) # <<>>

(* Mutant of LoadsNested: an index within the index ends the reading. *)
LoadsNested_Stops ==
    /\ lstep = "loading" /\ survey.kind = "website" /\ mark.page = 1 /\ pending # <<>>
    /\ LET url == Head(pending)
       IN  /\ url \in DOMAIN Sitemap
           /\ inventory' = IF Sitemap[url].index THEN inventory ELSE inventory \o SitemapUrls(url)
           /\ pending' = IF Sitemap[url].index THEN <<>> ELSE Tail(pending)
           /\ capped' = (capped \/ Overflows(url))
    /\ UNCHANGED <<survey, lstep, upstream, calm, mark, gathered>>

(* An index within an index is not followed; what is no sitemap fails.     *)
LoadsNested ==
    /\ lstep = "loading" /\ survey.kind = "website" /\ mark.page = 1 /\ pending # <<>>
    /\ LET url == Head(pending)
       IN  /\ url \in DOMAIN Sitemap
           /\ inventory' = IF Sitemap[url].index THEN inventory ELSE inventory \o SitemapUrls(url)
           /\ pending' = IF Len(inventory') >= MaxPages THEN <<>> ELSE Tail(pending)
           /\ capped' = (capped \/ Overflows(url))
    /\ UNCHANGED <<survey, lstep, upstream, calm, mark, gathered>>

(* The items are keyed by url.  The cut comes before the keys. *)
Loaded ==
    /\ lstep = "loading" /\ survey.kind = "website" /\ mark.page = 1 /\ pending = <<>>
    /\ LET urls == Take(inventory, MaxPages)
       IN  inventory' = Distinct(Picked(urls, {i \in DOMAIN urls : SameOrigin(urls[i])}))
    /\ lstep' = "walking"
    /\ UNCHANGED <<survey, upstream, calm, pending, capped, mark, gathered>>

(* The walk of FileDiscovery, whose result is kept. *)
Snapshots ==
    /\ lstep = "loading" /\ survey.kind = "filesystem"
    /\ inventory' = Sorted(upstream)
    /\ lstep' = "walking" /\ mark' = [mark EXCEPT !.page = 1]
    /\ UNCHANGED <<survey, upstream, calm, pending, capped, gathered>>

-------------------------------------------------------------------------------
(* The loop. *)

(* It goes on until there is no more, or enough; what is over the limit    *)
(* is cut before the sort.                                                 *)
Receives(items, more, next) ==
    LET got == gathered \o items
    IN  IF ~more \/ Len(got) >= survey.limit
        THEN /\ gathered' = Sorted(Take(got, survey.limit))
             /\ lstep' = "done" /\ UNCHANGED mark
        ELSE gathered' = got /\ mark' = next /\ UNCHANGED lstep

(* A page of what was kept, whatever has become of the source. *)
Page == Take(Drop(inventory, mark.offset), Limit)

GoesOn ==
    LET next == mark.offset + Len(Page)
    IN  Receives(Page, next < Len(inventory), [mark EXCEPT !.offset = next])

(* The cursor names the snapshot. *)
PagesSnapshot ==
    /\ lstep = "walking" /\ survey.kind = "filesystem"
    /\ GoesOn
    /\ UNCHANGED <<survey, upstream, calm, inventory, pending, capped>>

PagesWebsite ==
    /\ lstep = "walking" /\ survey.kind = "website"
    /\ GoesOn
    /\ UNCHANGED <<survey, upstream, calm, inventory, pending, capped>>

(* page_size is not sent to the server: the number of files seen so far is *)
(* right only when the server's pages have that size.                      *)
PagesUpstream ==
    /\ lstep = "walking" /\ survey.kind = "openwebui"
    /\ LET raw == Take(Drop(upstream, (mark.page - 1) * ServerPage), ServerPage)
           selected == Take(Drop(raw, mark.offset), Limit)
           consumed == mark.offset + Len(selected)
           seen == (mark.page - 1) * survey.pageSize + Len(raw)
           moreOfPage == consumed < Len(raw)
           morePages == raw # <<>> /\ (survey.counted => seen < Len(upstream))
       IN  Receives(Picked(selected, {i \in DOMAIN selected : selected[i] \notin Malformed}),
                    moreOfPage \/ morePages,
                    IF moreOfPage THEN [mark EXCEPT !.offset = consumed]
                    ELSE [page |-> mark.page + 1, offset |-> 0])
    /\ UNCHANGED <<survey, upstream, calm, inventory, pending, capped>>

ListingIdle ==
    /\ survey = NoSurvey /\ lstep = "off" /\ upstream = <<>> /\ calm = TRUE
    /\ inventory = <<>> /\ pending = <<>> /\ capped = FALSE /\ mark = [page |-> 0, offset |-> 0]
    /\ gathered = <<>>

ListingInit ==
    /\ survey \in Surveys
    /\ lstep = IF survey.kind = "openwebui" THEN "walking" ELSE "loading"
    /\ upstream \in Sources /\ calm = TRUE /\ inventory = <<>> /\ pending = <<>> /\ capped = FALSE
    /\ mark = [page |-> IF survey.kind = "openwebui" THEN 1 ELSE 0, offset |-> 0]
    /\ gathered = <<>>

ListingNext ==
    \/ SourceChanges \/ RequestFails
    \/ LoadsRoot \/ LoadsNested \/ Loaded \/ Snapshots
    \/ PagesSnapshot \/ PagesWebsite \/ PagesUpstream

ListingSpec == ListingInit /\ [][ListingNext]_listingVars

-------------------------------------------------------------------------------
(* Properties. *)

ListingTypeOK ==
    /\ survey \in Surveys \cup {NoSurvey}
    /\ lstep \in {"off", "loading", "walking", "done", "failed"}
    /\ calm \in BOOLEAN /\ capped \in BOOLEAN
    /\ mark \in [page: Nat, offset: Nat]
    /\ Len(gathered) <= survey.limit + Limit

(* Pages a site lists where the reading looks: not in an index's index,    *)
(* not elsewhere, not beyond the caps on sitemaps.                         *)
Listed ==
    IF survey.url \notin DOMAIN Sitemap THEN {survey.url}
    ELSE IF ~Sitemap[survey.url].index THEN ToSet(LocsOf(survey.url))
    ELSE UNION {ToSet(LocsOf(u)) :
                   u \in {u \in ToSet(Take(SitemapUrls(survey.url), NestedCap)) \cap DOMAIN Sitemap : ~Sitemap[u].index}}

(* Everything there was to find. *)
Promised ==
    CASE survey.kind = "filesystem" -> ToSet(inventory)
      [] survey.kind = "website" -> Listed
      [] survey.kind = "openwebui" -> ToSet(upstream) \ Malformed

(* A walk over several pages finds each item once: on the file system also *)
(* when files change between the pages, on a website if maximum_pages lets *)
(* in all the locations, repetitions included, that its sitemaps list, and *)
(* on OpenWebUI if nothing changes and the server's pages are not smaller  *)
(* than page_size.                                                         *)
WalkIsComplete ==
    lstep = "done" /\ (survey.kind = "openwebui" => calm) =>
        /\ IsInjective(gathered) /\ Len(gathered) <= survey.limit
        /\ Len(gathered) < survey.limit
           /\ (survey.kind = "website" => ~capped)
           /\ (survey.kind = "openwebui" => survey.pageSize <= ServerPage)
           => ToSet(gathered) = Promised
===============================================================================
