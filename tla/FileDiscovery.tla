----------------------------- MODULE FileDiscovery -----------------------------
(***************************************************************************)
(* LocalFilesystemConnector._discover: a walk over the directories below   *)
(* the configured root, in a thread of its own, while the files change.    *)
(*                                                                         *)
(* Entries are numbered in the order of their paths; 0 is the root.  A     *)
(* directory is resolved, listed, and its entries are looked at one after  *)
(* the other; anything may appear or disappear in between.                 *)
(***************************************************************************)
EXTENDS Cuts

CONSTANTS
    Entries,         \* all entries that ever exist, numbers from 1
    Parent,          \* the directory an entry is in
    Kind,            \* "file", "dir", "link" or "special"
    Target,          \* what a link resolves to: an entry, Broken or Outside
    Broken, Outside,
    Class,           \* of a file's name: "wanted", "ignored" or "unsupported"
    Walks,           \* configurations to consider
    MaxUpsets        \* bound on changes during a walk

Root == 0

ASSUME TreeAssumption ==
    /\ Entries \subseteq Nat \ {0} /\ IsFiniteSet(Entries)
    /\ Parent \in [Entries -> {Root} \cup Entries]
    /\ Kind \in [Entries -> {"file", "dir", "link", "special"}]
    /\ {Broken, Outside} \cap ({Root} \cup Entries) = {}
    /\ Walks \subseteq [follow: BOOLEAN, recursive: BOOLEAN, max: Nat \ {0}]

VARIABLES
    walk,            \* the configuration
    step,            \* where _discover is
    there,           \* entries that exist
    steady,          \* history: entries that have existed since the start
    stack,           \* directories to visit
    visited,
    listing,         \* entries of the current directory still to look at
    found,           \* discovered
    warned           \* codes of the warnings

discoveryVars == <<walk, step, there, steady, stack, visited, listing, found, warned>>

-------------------------------------------------------------------------------
(* The environment. *)

Directories == {Root} \cup {e \in Entries : Kind[e] = "dir"}

Above[e \in Entries] == IF Parent[e] = Root THEN {} ELSE {Parent[e]} \cup Above[Parent[e]]

Below(e) == {e} \cup {x \in Entries : e \in Above[x]}

Children(d) == {e \in there : Parent[e] = d}

Upsets == Cardinality(Entries \ steady)

Disappears == \E e \in there :
    /\ step \in {"directory", "entries"} /\ Upsets < MaxUpsets
    /\ there' = there \ Below(e)
    /\ steady' = steady \ Below(e)
    /\ UNCHANGED <<walk, step, stack, visited, listing, found, warned>>

Appears == \E e \in Entries \ there :
    /\ step \in {"directory", "entries"}
    /\ Above[e] \subseteq there
    /\ there' = there \cup {e}
    /\ UNCHANGED <<walk, step, steady, stack, visited, listing, found, warned>>

-------------------------------------------------------------------------------
(* The walk. *)

Warns(code) == warned' = warned \cup {code}

(* The root may be missing, or no directory. *)
Begins ==
    /\ step = "idle"
    /\ step' \in {"directory", "failed"} /\ stack' = <<Root>>
    /\ UNCHANGED <<walk, there, steady, visited, listing, found, warned>>

(* Fails with UNAVAILABLE; a disappeared root is noticed in the same way.  *)
DirectoryGone ==
    /\ step = "directory" /\ stack # <<>> /\ Last(stack) \notin there \cup {Root}
    /\ step' = "failed"
    /\ UNCHANGED <<walk, there, steady, stack, visited, listing, found, warned>>

SkipsVisited ==
    /\ step = "directory" /\ stack # <<>> /\ Last(stack) \in visited
    /\ Last(stack) \in there \cup {Root}
    /\ stack' = Front(stack)
    /\ UNCHANGED <<walk, step, there, steady, visited, listing, found, warned>>

(* scandir fails: no permission, or gone since it was resolved. *)
CannotList ==
    /\ step = "directory" /\ stack # <<>> /\ Last(stack) \notin visited
    /\ Last(stack) \in there \cup {Root}
    /\ visited' = visited \cup {Last(stack)} /\ stack' = Front(stack)
    /\ Warns("directory_inaccessible")
    /\ UNCHANGED <<walk, step, there, steady, listing, found>>

Lists ==
    /\ step = "directory" /\ stack # <<>> /\ Last(stack) \notin visited
    /\ Last(stack) \in there \cup {Root}
    /\ visited' = visited \cup {Last(stack)} /\ stack' = Front(stack)
    /\ listing' = Children(Last(stack))
    /\ step' = "entries"
    /\ UNCHANGED <<walk, there, steady, found, warned>>

Entry == CHOOSE e \in listing : \A x \in listing : e <= x

Looks == step = "entries" /\ listing # {}

Passes == listing' = listing \ {Entry}

SkipsLink ==
    /\ Looks /\ Kind[Entry] = "link"
    /\ \/ ~walk.follow /\ Warns("symlink_skipped")
       \/ walk.follow /\ Warns("broken_symlink")
          /\ (Entry \notin there \/ Target[Entry] \notin there \cup {Root, Outside})
    /\ Passes
    /\ UNCHANGED <<walk, step, there, steady, stack, visited, found>>

(* AUTHORIZATION: the link leads out of the root, and the walk is over. *)
LinkEscapes ==
    /\ Looks /\ Kind[Entry] = "link" /\ walk.follow /\ Entry \in there
    /\ Target[Entry] = Outside
    /\ step' = "failed"
    /\ UNCHANGED <<walk, there, steady, stack, visited, listing, found, warned>>

(* stat fails: gone since it was listed, or no permission. *)
CannotInspect ==
    /\ Looks
    /\ Kind[Entry] = "link" => walk.follow
    /\ Warns("entry_inaccessible")
    /\ Passes
    /\ UNCHANGED <<walk, step, there, steady, stack, visited, found>>

(* What the entry in hand is, with links resolved. *)
Real == IF Kind[Entry] = "link" THEN Target[Entry] ELSE Entry

Inspects ==
    /\ Looks /\ Entry \in there
    /\ Kind[Entry] = "link" => walk.follow
    /\ Real \in there \cup {Root}

IsDirectory == Real \in Directories

EntersDirectory ==
    /\ Inspects /\ IsDirectory
    /\ stack' = IF walk.recursive THEN Append(stack, Real) ELSE stack
    /\ Passes
    /\ UNCHANGED <<walk, step, there, steady, visited, found, warned>>

SkipsFile ==
    /\ Inspects /\ ~IsDirectory
    /\ \/ Kind[Real] = "special" /\ Warns("special_file_skipped")
       \/ Kind[Real] = "file" /\ Class[Entry] = "unsupported" /\ Warns("unsupported_file_type")
       \/ Kind[Real] = "file" /\ Class[Entry] = "ignored" /\ UNCHANGED warned
    /\ Passes
    /\ UNCHANGED <<walk, step, there, steady, stack, visited, found>>

(* Mutant of Finds: it stops without a word. *)
Finds_Silently ==
    /\ Inspects /\ ~IsDirectory /\ Kind[Real] = "file" /\ Class[Entry] = "wanted"
    /\ found' = Append(found, [name |-> Entry, file |-> Real])
    /\ IF Len(found') >= walk.max
       THEN stack' = <<>> /\ listing' = {} /\ UNCHANGED warned
       ELSE Passes /\ UNCHANGED <<stack, warned>>
    /\ UNCHANGED <<walk, step, there, steady, visited>>

Finds ==
    /\ Inspects /\ ~IsDirectory /\ Kind[Real] = "file" /\ Class[Entry] = "wanted"
    /\ found' = Append(found, [name |-> Entry, file |-> Real])
    /\ IF Len(found') >= walk.max
       THEN stack' = <<>> /\ listing' = {} /\ Warns("discovery_limit_reached")
       ELSE Passes /\ UNCHANGED <<stack, warned>>
    /\ UNCHANGED <<walk, step, there, steady, visited>>

NextDirectory ==
    /\ step = "entries" /\ listing = {}
    /\ step' = "directory"
    /\ UNCHANGED <<walk, there, steady, stack, visited, listing, found, warned>>

(* Sorts by path, and keeps the path of every item for get_content. *)
Ends ==
    /\ step = "directory" /\ stack = <<>>
    /\ found' = Ordered(ToSet(found), LAMBDA item : item.name)
    /\ step' = "done"
    /\ UNCHANGED <<walk, there, steady, stack, visited, listing, warned>>

Discovers ==
    \/ Begins \/ DirectoryGone \/ SkipsVisited \/ CannotList \/ Lists
    \/ SkipsLink \/ LinkEscapes \/ CannotInspect \/ EntersDirectory
    \/ SkipsFile \/ Finds \/ NextDirectory \/ Ends

DiscoveryIdle ==
    /\ walk = [follow |-> FALSE, recursive |-> FALSE, max |-> 1] /\ step = "off"
    /\ there = {} /\ steady = {} /\ stack = <<>> /\ visited = {} /\ listing = {}
    /\ found = <<>> /\ warned = {}

DiscoveryInit ==
    /\ walk \in Walks /\ step = "idle"
    /\ there = Entries /\ steady = there
    /\ stack = <<>> /\ visited = {} /\ listing = {} /\ found = <<>> /\ warned = {}

DiscoveryNext == Discovers \/ Disappears \/ Appears

DiscoverySpec == DiscoveryInit /\ [][DiscoveryNext]_discoveryVars /\ WF_discoveryVars(Discovers)
-------------------------------------------------------------------------------
(* Properties. *)

Codes == {"directory_inaccessible", "symlink_skipped", "broken_symlink", "entry_inaccessible",
          "special_file_skipped", "unsupported_file_type", "discovery_limit_reached"}

DiscoveryTypeOK ==
    /\ walk \in [follow: BOOLEAN, recursive: BOOLEAN, max: Nat \ {0}]
    /\ step \in {"off", "idle", "directory", "entries", "done", "failed"}
    /\ there \subseteq Entries /\ steady \subseteq there
    /\ stack \in Seq({Root} \cup Entries) /\ visited \subseteq {Root} \cup Entries
    /\ listing \subseteq Entries
    /\ found \in Seq([name: Entries, file: Entries])
    /\ warned \subseteq Codes

(* What an entry of a directory leads to, if links are followed. *)
Leads(e) == IF Kind[e] = "link" THEN (IF walk.follow THEN Target[e] ELSE Broken) ELSE e

(* A walk over steady entries goes on from x. *)
Opens(x) == walk.recursive /\ Leads(x) \in Directories \cap ({Root} \cup steady)

Closed(D) == Root \in D /\ \A x \in steady : Parent[x] \in D /\ Opens(x) => Leads(x) \in D

(* Directories that can be reached over steady entries. *)
Reached == {d \in Directories : \A D \in SUBSET Directories : Closed(D) => d \in D}

(* Files that were there all along, where the walk should come by. *)
Expected == {e \in steady :
    /\ Parent[e] \in Reached
    /\ Leads(e) \in steady /\ Kind[Leads(e)] = "file"
    /\ Class[e] = "wanted"}

Omissions == {"directory_inaccessible", "entry_inaccessible", "discovery_limit_reached"}

(* Discovery, with cycles of links and with files that come and go: every  *)
(* item has a path of its own, the limit holds, and a file that was there  *)
(* all along is found unless a warning says that something was left out.   *)
NothingLostSilently ==
    step = "done" =>
        /\ IsInjective([i \in DOMAIN found |-> found[i].name])
        /\ Len(found) <= walk.max
        /\ \A e \in Expected :
               \/ \E i \in DOMAIN found : found[i].name = e
               \/ warned \cap Omissions # {}
        /\ \A i \in DOMAIN found : Class[found[i].name] = "wanted" /\ Kind[found[i].file] = "file"
===============================================================================
