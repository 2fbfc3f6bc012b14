---------------------------- MODULE DocumentLinks ----------------------------
(***************************************************************************)
(* The other writers of a document: AddLink, RemoveLink, AddAttachment and *)
(* RemoveAttachment of internal/platform/document, which run beside the    *)
(* requests of DocumentLifecycle.  Each of them reads the record, lists    *)
(* the links, replaces the list in one transaction and then saves the      *)
(* whole record it read at the start, in an upsert without a condition on  *)
(* the version.  Links and attachments have the same code; one of the two  *)
(* lists is modelled.                                                      *)
(*                                                                         *)
(* SaveLinks deletes the rows of the document and inserts the list.  Two   *)
(* of them that overlap either fail on the primary key or end like two     *)
(* that follow each other, so the transaction is one step.  A link of a    *)
(* type that is not allowed is refused before any effect and is no step.   *)
(***************************************************************************)
EXTENDS DocumentLifecycle

CONSTANTS
  Linkers,  \* calls of AddLink or RemoveLink in progress at the same time
  Links,    \* bound: ids of links
  NoLink

ASSUME LinksAssumption == NoLink \notin Links

VARIABLES
  links,    \* rows of document_links
  issued,   \* ids that AddLink has given out
  added,    \* links AddLink has reported as added and nobody has removed
  crossed,  \* two calls were in progress at the same time
  lpc,      \* where a call is
  adding,   \* calls of AddLink; the others are of RemoveLink
  link,     \* the link to add or to remove
  held,     \* the record as read at the start
  listed    \* the links as listed

callVars == <<lpc, adding, link, held, listed>>
linkVars == <<links, issued, added, crossed, callVars>>

LinksTypeOK ==
  /\ TypeOK
  /\ links \subseteq Links /\ issued \subseteq Links /\ added \subseteq Links
  /\ crossed \in BOOLEAN
  /\ lpc \in [Linkers -> {"idle", "list", "links", "record"}]
  /\ adding \subseteq Linkers
  /\ link \in [Linkers -> Links \cup {NoLink}]
  /\ held \in [Linkers -> DocumentRecord]
  /\ listed \in [Linkers -> SUBSET Links]

LinksInit ==
  /\ Init
  /\ links = {} /\ issued = {} /\ added = {} /\ adding = {}
  /\ crossed = FALSE
  /\ lpc = [c \in Linkers |-> "idle"] /\ link = [c \in Linkers |-> NoLink]
  /\ held = [c \in Linkers |-> NoDocument] /\ listed = [c \in Linkers |-> {}]

\* The call ends.
LinkDone(c) ==
  /\ lpc' = [lpc EXCEPT ![c] = "idle"] /\ adding' = adding \ {c}
  /\ link' = [link EXCEPT ![c] = NoLink]
  /\ held' = [held EXCEPT ![c] = NoDocument] /\ listed' = [listed EXCEPT ![c] = {}]

Crosses(c) == crossed' = (crossed \/ \E b \in Linkers \ {c} : lpc[b] # "idle")

\* AddLink reads the record and makes a new id ...
AddLink(c, l) ==
  /\ lpc[c] = "idle" /\ l \notin issued
  /\ issued' = issued \cup {l} /\ adding' = adding \cup {c}
  /\ lpc' = [lpc EXCEPT ![c] = "list"] /\ link' = [link EXCEPT ![c] = l]
  /\ held' = [held EXCEPT ![c] = doc]
  /\ Crosses(c)
  /\ UNCHANGED <<vars, links, added, listed>>

\* ... and RemoveLink reads the record, for an id it was given.
RemoveLink(c, l) ==
  /\ lpc[c] = "idle" /\ l \in issued
  /\ lpc' = [lpc EXCEPT ![c] = "list"] /\ link' = [link EXCEPT ![c] = l]
  /\ held' = [held EXCEPT ![c] = doc]
  /\ Crosses(c)
  /\ UNCHANGED <<vars, links, issued, added, adding, listed>>

\* ListLinks, with no link returned if the query fails.  RemoveLink ends if the
\* link is not in the list.
ListLinks(c) ==
  /\ lpc[c] = "list"
  /\ \E seen \in SUBSET Links :
       /\ Listed(links, seen)
       /\ \/ /\ c \in adding \/ link[c] \in seen
             /\ listed' = [listed EXCEPT ![c] = seen]
             /\ lpc' = [lpc EXCEPT ![c] = "links"]
             /\ UNCHANGED <<adding, link, held>>
          \/ /\ ~(c \in adding \/ link[c] \in seen)
             /\ LinkDone(c)
  /\ UNCHANGED <<docVars, rowVars, announced, head, pc, reqVars, prgVars, plnVars,
                 links, issued, added, crossed>>

\* Mutant of NewList: the link replaces the list.
NewListOfOne(c) == IF c \in adding THEN {link[c]} ELSE listed[c] \ {link[c]}

\* Mutant of NewList: an empty Link is appended instead of the new one.
NewListOfZero(c) == IF c \in adding THEN listed[c] \cup {NoLink} ELSE listed[c] \ {link[c]}

\* The list to save.
NewList(c) == IF c \in adding THEN listed[c] \cup {link[c]} ELSE listed[c] \ {link[c]}

\* SaveLinks replaces the rows of document_links.
SaveLinks(c) ==
  /\ lpc[c] = "links"
  /\ links' = NewList(c)
  /\ added' = IF c \in adding THEN added ELSE added \ {link[c]}
  /\ lpc' = [lpc EXCEPT ![c] = "record"]
  /\ UNCHANGED <<vars, issued, crossed, adding, link, held, listed>>

\* The columns that the upsert of SaveRecord sets: all of them.
Saved(c) == held[c]

\* SaveRecord; the call has succeeded.
SaveRecord(c) ==
  /\ lpc[c] = "record"
  /\ doc' = Saved(c)
  /\ added' = IF c \in adding THEN added \cup {link[c]} ELSE added
  /\ LinkDone(c)
  /\ UNCHANGED <<trail, rowVars, announced, head, faults, pc, reqVars, prgVars, plnVars,
                 links, issued, crossed>>

\* A statement fails, or the process crashes.
LinkAbort(c) ==
  /\ lpc[c] # "idle"
  /\ LinkDone(c)
  /\ UNCHANGED <<vars, links, issued, added, crossed>>

LinksNext ==
  \/ Next /\ UNCHANGED linkVars
  \/ \E c \in Linkers :
       \/ \E l \in Links : AddLink(c, l) \/ RemoveLink(c, l)
       \/ ListLinks(c) \/ SaveLinks(c) \/ SaveRecord(c) \/ LinkAbort(c)

LinksSpec == LinksInit /\ [][LinksNext]_<<vars, linkVars>>

-----------------------------------------------------------------------------
(***************************************************************************)
(* Properties.                                                             *)
(***************************************************************************)

\* A link that AddLink has reported as added is there until it is removed,
\* whatever becomes of the document in between, unless a listing of the links
\* failed (the list saved next is then without it) or two calls crossed (each
\* saves the list it has read).
AddedLinkIsKept == faults = 0 /\ ~crossed => added \subseteq links
=============================================================================
