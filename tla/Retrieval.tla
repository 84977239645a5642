------------------------------- MODULE Retrieval -------------------------------
(***************************************************************************)
(* LocalFilesystemConnector.get_content and detect_changes, for files that *)
(* change while they are read and between two looks at them.               *)
(*                                                                         *)
(* A caller either asks for the content of a file, or follows the changes  *)
(* with a copy of its own.  Discovery is what FileDiscovery says of it:    *)
(* the files it can reach, and a warning when it could not reach some.     *)
(* Links are not followed, which is the default.                           *)
(***************************************************************************)
EXTENDS Cuts

CONSTANTS
    FileNames,       \* files of the source
    Bodies,          \* body -> [size, bom, decodes, binary, text]
    Encodings,       \* ways to choose an encoding: [strategy, fallbacks]
    SizeLimit,       \* maximum_file_size
    Budget,          \* max_bytes of the request for content
    MaxTouches,      \* bound: changes to the disk
    MaxLooks         \* bound: calls of detect_changes

ASSUME FilesAssumption ==
    /\ "none" \notin FileNames /\ Budget \in Nat /\ SizeLimit \in Nat
    /\ \A b \in DOMAIN Bodies :
          Bodies[b].size \in Nat /\ Bodies[b].bom \in BOOLEAN /\ Bodies[b].binary \in BOOLEAN /\ Bodies[b].text \in BOOLEAN
    /\ \A e \in Encodings : DOMAIN e.fallbacks \subseteq Nat

VARIABLES
    asks,            \* what the caller asks for: "content", "changes" or "off"
    encodings,       \* encoding_strategy and fallback_encodings
    checksums,       \* calculate_checksums
    disk,            \* file name -> [kind, body, stamp] of what is there
    touches,         \* changes made so far
    fetch,           \* the call of get_content
    remembered,      \* _change_snapshots: what this process has reported
    mirror,          \* the caller's copy: [entries, cursor]
    looks,           \* calls of detect_changes so far
    page             \* the last page of changes

retrievalVars == <<asks, encodings, checksums, disk, touches, fetch, remembered, mirror, looks, page>>

NoCursor == [none |-> TRUE]
NoPage == [deleted |-> {}, warned |-> FALSE, there |-> {}]
Empty == <<>>
Regular == {n \in DOMAIN disk : disk[n].kind = "file"}
BytesOf(n) == Bodies[disk[n].body]
-------------------------------------------------------------------------------
(* The disk. A write may keep the time of the one before: clocks are       *)
(* coarse, and tools restore it.                                           *)
DiskTouched(new) ==
    /\ touches < MaxTouches /\ fetch.step # "done"
    /\ disk' = new /\ touches' = touches + 1
    /\ UNCHANGED <<asks, encodings, checksums, fetch, remembered, mirror, looks, page>>

Writes(n, body, stamp) ==
    DiskTouched([k \in DOMAIN disk \cup {n} |->
                    IF k = n THEN [kind |-> "file", body |-> body, stamp |-> stamp] ELSE disk[k]])
Removes(n) == n \in DOMAIN disk /\ DiskTouched([k \in DOMAIN disk \ {n} |-> disk[k]])
Replaces(n, kind) == n \in Regular /\ DiskTouched([disk EXCEPT ![n].kind = kind])
-------------------------------------------------------------------------------
(* get_content. *)

Failed(category) == fetch' = [fetch EXCEPT !.step = "failed", !.category = category]
Untouched == UNCHANGED <<asks, encodings, checksums, disk, touches, remembered, mirror, looks, page>>

FileLimit == Least(Budget, SizeLimit)

(* get_item walks the source again.                                        *)
GetsItem(n) ==
    /\ asks = "content" /\ fetch.step = "idle"
    /\ fetch' = [fetch EXCEPT !.step = IF n \in Regular THEN "listed" ELSE "failed",
                              !.category = IF n \in Regular THEN "" ELSE "not_found", !.name = n]
    /\ Untouched

ResolvesFile ==
    /\ fetch.step = "listed"
    /\ IF fetch.name \in DOMAIN disk THEN fetch' = [fetch EXCEPT !.step = "resolved"] ELSE Failed("not_found")
    /\ Untouched

(* O_NOFOLLOW refuses a link; what was opened stays readable.              *)
OpensFile ==
    /\ fetch.step = "resolved"
    /\ CASE fetch.name \notin DOMAIN disk -> Failed("not_found")
         [] fetch.name \in DOMAIN disk /\ disk[fetch.name].kind = "link" -> Failed("unavailable")
         [] fetch.name \in DOMAIN disk /\ disk[fetch.name].kind = "directory" -> Failed("unsupported")
         [] fetch.name \in Regular -> IF BytesOf(fetch.name).size > FileLimit THEN Failed("content_too_large")
                                      ELSE fetch' = [fetch EXCEPT !.step = "open", !.opened = disk[fetch.name].body]
    /\ Untouched

(* Mutant of ReadsFile: the size is not looked at a second time.           *)
ReadsFile_Trusting ==
    /\ fetch.step = "open"
    /\ LET now == IF fetch.name \in Regular THEN disk[fetch.name].body ELSE fetch.opened
       IN  fetch' = [fetch EXCEPT !.step = "read", !.data = now]
    /\ Untouched

(* A file that grew since fstat gives one byte more than the limit.        *)
ReadsFile ==
    /\ fetch.step = "open"
    /\ LET now == IF fetch.name \in Regular THEN disk[fetch.name].body ELSE fetch.opened
       IN  IF Bodies[now].size > FileLimit THEN Failed("content_too_large")
           ELSE fetch' = [fetch EXCEPT !.step = "read", !.data = now]
    /\ Untouched

Fallbacks(body) ==
    {i \in DOMAIN encodings.fallbacks : encodings.strategy = "fallback" /\ encodings.fallbacks[i] \in body.decodes}

(* _select_encoding: the mark at its start is believed.                    *)
SelectEncoding(body) ==
    CASE body.bom -> [encoding |-> "utf-8-sig", warning |-> ""]
      [] ~body.bom /\ "utf-8" \in body.decodes -> [encoding |-> "utf-8", warning |-> ""]
      [] ~body.bom /\ "utf-8" \notin body.decodes /\ Fallbacks(body) # {} ->
            [encoding |-> encodings.fallbacks[Min(Fallbacks(body))], warning |-> "fallback_encoding"]
      [] ~body.bom /\ "utf-8" \notin body.decodes /\ Fallbacks(body) = {} /\ encodings.strategy = "replace" ->
            [encoding |-> "utf-8", warning |-> "decoding_replacement_required"]
      [] OTHER -> [encoding |-> "", warning |-> "refused"]

DeliversContent ==
    /\ fetch.step = "read"
    /\ LET body == Bodies[fetch.data]
           chosen == SelectEncoding(body)
       IN  CASE body.text /\ (body.binary \/ chosen.warning = "refused") -> Failed("malformed_response")
             [] body.text /\ ~body.binary /\ chosen.warning # "refused" ->
                   fetch' = [fetch EXCEPT !.step = "done", !.encoding = chosen.encoding, !.warning = chosen.warning]
             [] OTHER -> fetch' = [fetch EXCEPT !.step = "done"]
    /\ Untouched
-------------------------------------------------------------------------------
(* detect_changes. *)

(* What an item's version tells: time, size, and the checksum when it is   *)
(* asked for and the file is not too large.                                *)
VersionOf(n) ==
    <<disk[n].stamp, BytesOf(n).size, IF checksums /\ BytesOf(n).size <= SizeLimit THEN disk[n].body ELSE "-">>

(* The keys of two maps that are new, gone, or have another value.         *)
Added(old, new) == DOMAIN new \ DOMAIN old
Deleted(old, new) == DOMAIN old \ DOMAIN new
Modified(old, new) == {n \in DOMAIN old \cap DOMAIN new : old[n] # new[n]}

Applied(entries, old, new) ==
    [n \in (DOMAIN entries \cup Added(old, new)) \ Deleted(old, new) |->
        IF n \in Added(old, new) \cup Modified(old, new) THEN [version |-> new[n], body |-> disk[n].body] ELSE entries[n]]

(* A cursor of another process is refused, and the caller starts again.    *)
RefusesCursor ==
    /\ asks = "changes" /\ mirror.cursor # NoCursor /\ mirror.cursor \notin remembered
    /\ mirror' = [entries |-> Empty, cursor |-> NoCursor] /\ page' = NoPage
    /\ UNCHANGED <<asks, encodings, checksums, disk, touches, fetch, remembered, looks>>

DetectsChanges(hidden) ==
    LET old == IF mirror.cursor = NoCursor THEN Empty ELSE mirror.cursor
        new == [n \in Regular \ hidden |-> VersionOf(n)]
    IN  /\ asks = "changes" /\ looks < MaxLooks
        /\ mirror.cursor = NoCursor \/ mirror.cursor \in remembered
        /\ remembered' = remembered \cup {new}
        /\ mirror' = [entries |-> Applied(mirror.entries, old, new), cursor |-> new]
        /\ page' = [deleted |-> Deleted(old, new), warned |-> hidden # {}, there |-> Regular]
        /\ looks' = looks + 1
        /\ UNCHANGED <<asks, encodings, checksums, disk, touches, fetch>>

(* Snapshots live as long as their process. *)
ConnectorRestarts ==
    /\ asks = "changes" /\ remembered # {}
    /\ remembered' = {}
    /\ UNCHANGED <<asks, encodings, checksums, disk, touches, fetch, mirror, looks, page>>
-------------------------------------------------------------------------------
NoFetch == [step |-> "idle", name |-> "", opened |-> "", data |-> "", encoding |-> "", warning |-> "", category |-> ""]

RetrievalFresh ==
    /\ touches = 0 /\ fetch = NoFetch /\ remembered = {} /\ looks = 0 /\ page = NoPage
    /\ mirror = [entries |-> Empty, cursor |-> NoCursor]

RetrievalIdle ==
    asks = "off" /\ encodings = [strategy |-> "off", fallbacks |-> <<>>] /\ checksums = FALSE /\ disk = Empty /\ RetrievalFresh

RetrievalInit ==
    /\ asks \in {"content", "changes"} /\ encodings \in Encodings /\ checksums \in BOOLEAN
    /\ asks = "content" => ~checksums
    /\ asks = "changes" => encodings = CHOOSE e \in Encodings : TRUE
    /\ \E body \in DOMAIN Bodies : disk = [n \in FileNames |-> [kind |-> "file", body |-> body, stamp |-> 1]]
    /\ RetrievalFresh

RetrievalNext ==
    \/ \E n \in FileNames, body \in DOMAIN Bodies, stamp \in 1..2 : asks # "off" /\ Writes(n, body, stamp)
    \/ \E n \in FileNames : asks # "off" /\ Removes(n)
    \/ \E n \in FileNames, kind \in {"link", "directory"} : asks # "off" /\ Replaces(n, kind)
    \/ \E n \in FileNames : GetsItem(n)
    \/ ResolvesFile
    \/ OpensFile
    \/ ReadsFile
    \/ DeliversContent
    \/ RefusesCursor
    \/ \E hidden \in SUBSET FileNames : DetectsChanges(hidden)
    \/ ConnectorRestarts
-------------------------------------------------------------------------------
(* Properties. *)

RetrievalTypeOK ==
    /\ asks \in {"off", "content", "changes"} /\ touches \in 0..MaxTouches /\ looks \in 0..MaxLooks
    /\ \A n \in DOMAIN disk : disk[n] \in [kind : {"file", "link", "directory"}, body : DOMAIN Bodies, stamp : 1..2]
    /\ fetch.step \in {"idle", "listed", "resolved", "open", "read", "done", "failed"}

(* Content is delivered whole and within both limits, however the file     *)
(* changed since it was listed; a text that is not what its encoding says  *)
(* comes with the warning that it was replaced, or with a mark that was    *)
(* believed (docs/source-connector-contract.md:9).                         *)
ContentIsWhole ==
    fetch.step = "done" =>
        LET body == Bodies[fetch.data]
        IN  /\ body.size <= Budget /\ body.size <= SizeLimit
            /\ body.text /\ fetch.warning # "decoding_replacement_required" /\ ~body.bom =>
                  fetch.encoding \in body.decodes
            /\ body.text => ~body.binary

(* A caller that applies every page has what the source held at its last   *)
(* look, down to the content when checksums are calculated; and a file is  *)
(* told to be deleted only when it is, or when the page warns that not all *)
(* was reached (docs/filesystem-connector.md:20).                          *)
MirrorIsCurrent ==
    /\ mirror.cursor # NoCursor =>
          /\ DOMAIN mirror.entries = DOMAIN mirror.cursor
          /\ \A n \in DOMAIN mirror.entries :
                /\ mirror.entries[n].version = mirror.cursor[n]
                /\ mirror.cursor[n][3] # "-" => mirror.entries[n].body = mirror.cursor[n][3]
    /\ page.deleted \cap page.there # {} => page.warned

(* What a source hands out is what it holds.                               *)
SourceIsTold == ContentIsWhole /\ MirrorIsCurrent
===============================================================================
