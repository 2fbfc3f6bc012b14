------------------------- MODULE DocumentLinksProofs -------------------------
(***************************************************************************)
(* Proofs about DocumentLinks, for any number of calls, links and          *)
(* requests.  A call of AddLink or RemoveLink writes what it has read      *)
(* earlier; that this loses no link while calls do not cross rests on what *)
(* the call holds between its steps (Undisturbed): it is alone, the list   *)
(* it has read is still the list stored, and a link it has stored is still *)
(* there when it reports it.                                               *)
(***************************************************************************)
EXTENDS DocumentLinks, DocumentLifecycleProofs

\* What a call in progress may rely on as long as no two calls have crossed
\* and no listing has failed.
Undisturbed ==
  /\ \A b, c \in Linkers : lpc[b] # "idle" /\ lpc[c] # "idle" => b = c
  /\ \A c \in Linkers : lpc[c] = "links" => listed[c] = links
  /\ \A c \in Linkers : lpc[c] = "record" /\ c \in adding => link[c] \in links
  /\ added \subseteq links

\* A call in progress has a link.
Named == \A c \in Linkers : lpc[c] # "idle" => link[c] \in Links

\* The inductive invariant.
LinksInv == LinksTypeOK /\ Control /\ Named /\ (faults = 0 /\ ~crossed => Undisturbed)

-----------------------------------------------------------------------------
(* PROOFS *)

\* The variables of DocumentLifecycle other than the document and the faults.
LEMMA ControlUnchanged ==
  ASSUME Control, UNCHANGED <<pc, op, actor, read, rule, outcome, stage, votes, planA, planT>>
  PROVE  Control'
<1> SUFFICES ASSUME NEW p \in Requests PROVE ControlOf(p)'
  BY DEF Control
<1>1. ControlOf(p) BY DEF Control
<1> QED BY <1>1 DEF ControlOf, Working, Resolving

\* LinkDone keeps the types of what a call holds.
LEMMA LinkDoneType ==
  ASSUME LinksTypeOK, NEW c \in Linkers, LinkDone(c)
  PROVE  /\ lpc' \in [Linkers -> {"idle", "list", "links", "record"}]
         /\ adding' \subseteq Linkers /\ link' \in [Linkers -> Links \cup {NoLink}]
         /\ held' \in [Linkers -> DocumentRecord] /\ listed' \in [Linkers -> SUBSET Links]
BY NoDocumentType DEF LinksTypeOK, LinkDone

\* A call of AddLink, RemoveLink or ListLinks does nothing to the document.
LEMMA LinksTypeStep ==
  LinksTypeOK /\ Control /\ Named /\ [LinksNext]_<<vars, linkVars>>
    => LinksTypeOK' /\ Control'
<1> SUFFICES ASSUME LinksTypeOK, Control, Named, [LinksNext]_<<vars, linkVars>>
             PROVE  LinksTypeOK' /\ Control'
  OBVIOUS
<1>a. TypeOK BY DEF LinksTypeOK
<1>b. ASSUME UNCHANGED vars PROVE TypeOK' /\ Control'
  BY <1>a, <1>b, TypeStep, ControlStep
<1>1. CASE Next /\ UNCHANGED linkVars
  <2>1. TypeOK' /\ Control' BY <1>a, <1>1, TypeStep, ControlStep
  <2> QED BY <2>1, <1>1 DEF LinksTypeOK, linkVars, callVars
<1>2. ASSUME NEW c \in Linkers, NEW l \in Links, AddLink(c, l) \/ RemoveLink(c, l)
      PROVE  LinksTypeOK' /\ Control'
  <2>1. TypeOK' /\ Control' BY <1>2, <1>b DEF AddLink, RemoveLink
  <2>2. crossed' \in BOOLEAN BY <1>2 DEF AddLink, RemoveLink, Crosses
  <2>3. doc \in DocumentRecord BY <1>a DEF TypeOK
  <2> QED BY <2>1, <2>2, <2>3, <1>2 DEF LinksTypeOK, AddLink, RemoveLink
<1>3. ASSUME NEW c \in Linkers, ListLinks(c) PROVE LinksTypeOK' /\ Control'
  <2>1. PICK seen \in SUBSET Links :
          /\ Listed(links, seen)
          /\ \/ /\ listed' = [listed EXCEPT ![c] = seen]
                /\ lpc' = [lpc EXCEPT ![c] = "links"]
                /\ UNCHANGED <<adding, link, held>>
             \/ LinkDone(c)
    BY <1>3 DEF ListLinks
  <2>2. faults' \in 0..MaxFaults
    BY <2>1, <1>a, LifecycleAssumption DEF Listed, TypeOK
  <2>3. TypeOK'
    BY <1>3, <1>a, <2>2 DEF ListLinks, TypeOK, docVars, rowVars, reqVars, prgVars, plnVars
  <2>4. Control'
    BY <1>3, ControlUnchanged DEF ListLinks, reqVars, prgVars, plnVars
  <2>5. CASE LinkDone(c)
    BY <2>3, <2>4, <2>5, LinkDoneType, <1>3 DEF LinksTypeOK, ListLinks
  <2>6. CASE /\ listed' = [listed EXCEPT ![c] = seen]
             /\ lpc' = [lpc EXCEPT ![c] = "links"]
             /\ UNCHANGED <<adding, link, held>>
    BY <2>3, <2>4, <2>6, <1>3 DEF LinksTypeOK, ListLinks
  <2> QED BY <2>1, <2>5, <2>6
<1>4. ASSUME NEW c \in Linkers, SaveLinks(c) PROVE LinksTypeOK' /\ Control'
  <2>1. TypeOK' /\ Control' BY <1>4, <1>b DEF SaveLinks
  <2>2. NewList(c) \subseteq Links
    <3>1. link[c] \in Links BY <1>4 DEF Named, SaveLinks
    <3> QED BY <3>1 DEF NewList, LinksTypeOK
  <2> QED BY <2>1, <2>2, <1>4 DEF LinksTypeOK, SaveLinks
<1>5. ASSUME NEW c \in Linkers, SaveRecord(c) PROVE LinksTypeOK' /\ Control'
  <2>1. doc' \in DocumentRecord BY <1>5 DEF SaveRecord, Saved, LinksTypeOK
  <2>2. TypeOK'
    BY <1>5, <1>a, <2>1 DEF SaveRecord, TypeOK, rowVars, reqVars, prgVars, plnVars
  <2>3. Control'
    BY <1>5, ControlUnchanged DEF SaveRecord, reqVars, prgVars, plnVars
  <2>4. added' \subseteq Links
    <3>1. link[c] \in Links BY <1>5 DEF Named, SaveRecord
    <3> QED BY <3>1, <1>5 DEF SaveRecord, LinksTypeOK
  <2>5. LinkDone(c) /\ UNCHANGED <<links, issued, crossed>>
    BY <1>5 DEF SaveRecord
  <2> QED BY <2>2, <2>3, <2>4, <2>5, LinkDoneType DEF LinksTypeOK
<1>6. ASSUME NEW c \in Linkers, LinkAbort(c) PROVE LinksTypeOK' /\ Control'
  <2>1. TypeOK' /\ Control' BY <1>6, <1>b DEF LinkAbort
  <2> QED BY <2>1, <1>6, LinkDoneType DEF LinksTypeOK, LinkAbort
<1>7. CASE UNCHANGED <<vars, linkVars>>
  <2>1. TypeOK' /\ Control' BY <1>7, <1>b
  <2> QED BY <2>1, <1>7 DEF LinksTypeOK, linkVars, callVars
<1> QED BY <1>1, <1>2, <1>3, <1>4, <1>5, <1>6, <1>7 DEF LinksNext

\* A call takes its link when it starts.
LEMMA NamedStep ==
  LinksTypeOK /\ Named /\ [LinksNext]_<<vars, linkVars>> => Named'
<1> SUFFICES ASSUME LinksTypeOK, Named, [LinksNext]_<<vars, linkVars>> PROVE Named'
  OBVIOUS
<1>0. ASSUME NEW c \in Linkers, LinkDone(c) PROVE Named'
  BY <1>0 DEF LinksTypeOK, Named, LinkDone
<1>1. CASE UNCHANGED linkVars
  BY <1>1 DEF Named, linkVars, callVars
<1>2. ASSUME NEW c \in Linkers, NEW l \in Links, AddLink(c, l) \/ RemoveLink(c, l) PROVE Named'
  BY <1>2 DEF LinksTypeOK, Named, AddLink, RemoveLink
<1>3. ASSUME NEW c \in Linkers, ListLinks(c) PROVE Named'
  BY <1>0, <1>3 DEF LinksTypeOK, Named, ListLinks
<1>4. ASSUME NEW c \in Linkers, SaveLinks(c) PROVE Named'
  BY <1>4 DEF LinksTypeOK, Named, SaveLinks
<1>5. ASSUME NEW c \in Linkers, SaveRecord(c) \/ LinkAbort(c) PROVE Named'
  BY <1>0, <1>5 DEF SaveRecord, LinkAbort
<1> QED BY <1>1, <1>2, <1>3, <1>4, <1>5 DEF LinksNext

\* A failed listing and a crossing are counted for ever.
LEMMA TroubleStays ==
  ASSUME LinksTypeOK, [LinksNext]_<<vars, linkVars>>, faults' = 0, ~crossed'
  PROVE  faults = 0 /\ ~crossed
<1>a. TypeOK BY DEF LinksTypeOK
<1>1. CASE Next /\ UNCHANGED linkVars
  BY <1>1, <1>a, FaultsStay DEF linkVars
<1>2. ASSUME NEW c \in Linkers, NEW l \in Links, AddLink(c, l) \/ RemoveLink(c, l)
      PROVE  faults = 0 /\ ~crossed
  BY <1>2 DEF AddLink, RemoveLink, Crosses, vars
<1>3. ASSUME NEW c \in Linkers, ListLinks(c) PROVE faults = 0 /\ ~crossed
  BY <1>3, <1>a DEF ListLinks, Listed, TypeOK
<1>4. ASSUME NEW c \in Linkers, SaveLinks(c) \/ SaveRecord(c) \/ LinkAbort(c)
      PROVE  faults = 0 /\ ~crossed
  BY <1>4 DEF SaveLinks, SaveRecord, LinkAbort, vars
<1>5. CASE UNCHANGED <<vars, linkVars>>
  BY <1>5 DEF vars, linkVars
<1> QED BY <1>1, <1>2, <1>3, <1>4, <1>5 DEF LinksNext

\* A call alone keeps what it relies on.
LEMMA UndisturbedStep ==
  ASSUME LinksTypeOK, Named, Undisturbed, [LinksNext]_<<vars, linkVars>>,
         faults' = 0, ~crossed'
  PROVE  Undisturbed'
<1>1. CASE UNCHANGED linkVars
  BY <1>1 DEF Undisturbed, linkVars, callVars
<1>2. ASSUME NEW c \in Linkers, NEW l \in Links, AddLink(c, l) \/ RemoveLink(c, l)
      PROVE  Undisturbed'
  <2>1. \A b \in Linkers \ {c} : lpc[b] = "idle"
    BY <1>2 DEF AddLink, RemoveLink, Crosses
  <2> QED BY <1>2, <2>1 DEF LinksTypeOK, Undisturbed, AddLink, RemoveLink
<1>3. ASSUME NEW c \in Linkers, ListLinks(c) PROVE Undisturbed'
  <2>1. PICK seen \in SUBSET Links :
          /\ Listed(links, seen)
          /\ \/ /\ listed' = [listed EXCEPT ![c] = seen]
                /\ lpc' = [lpc EXCEPT ![c] = "links"]
                /\ UNCHANGED <<adding, link, held>>
             \/ LinkDone(c)
    BY <1>3 DEF ListLinks
  <2>2. seen = links BY <2>1, ListedAll DEF LinksTypeOK
  <2> QED BY <1>3, <2>1, <2>2 DEF LinksTypeOK, Undisturbed, ListLinks, LinkDone
<1>4. ASSUME NEW c \in Linkers, SaveLinks(c) PROVE Undisturbed'
  <2>1. /\ listed[c] = links /\ lpc[c] = "links"
        /\ \A b \in Linkers \ {c} : lpc[b] = "idle"
    BY <1>4 DEF Undisturbed, SaveLinks
  <2>2. added' \subseteq links'
    BY <1>4, <2>1 DEF Undisturbed, SaveLinks, NewList
  <2>3. c \in adding => link[c] \in links'
    BY <1>4 DEF SaveLinks, NewList
  <2> QED BY <1>4, <2>1, <2>2, <2>3 DEF LinksTypeOK, Undisturbed, SaveLinks
<1>5. ASSUME NEW c \in Linkers, SaveRecord(c) PROVE Undisturbed'
  BY <1>5 DEF LinksTypeOK, Undisturbed, SaveRecord, LinkDone
<1>6. ASSUME NEW c \in Linkers, LinkAbort(c) PROVE Undisturbed'
  BY <1>6 DEF LinksTypeOK, Undisturbed, LinkAbort, LinkDone
<1> QED BY <1>1, <1>2, <1>3, <1>4, <1>5, <1>6 DEF LinksNext

\* The initial states.
LEMMA LinksInitInv == LinksInit => LinksInv
<1> SUFFICES ASSUME LinksInit PROVE LinksInv OBVIOUS
<1>1. TypeOK /\ Control
  <2>1. Init BY DEF LinksInit
  <2>2. Control
    <3> SUFFICES ASSUME NEW p \in Requests PROVE ControlOf(p) BY DEF Control
    <3>1. /\ pc[p] = "idle" /\ outcome[p] = "none"
      BY <2>1 DEF Init
    <3> QED BY <3>1 DEF ControlOf, Working
  <2> QED BY <2>1, <2>2, InitType
<1>2. LinksTypeOK BY <1>1, NoDocumentType DEF LinksInit, LinksTypeOK
<1> QED BY <1>1, <1>2 DEF LinksInit, LinksInv, Named, Undisturbed

\* The inductive invariant holds.
THEOREM LinksInvariance == LinksSpec => []LinksInv
<1>1. LinksInv /\ [LinksNext]_<<vars, linkVars>> => LinksInv'
  BY LinksTypeStep, NamedStep, TroubleStays, UndisturbedStep DEF LinksInv
<1> QED BY LinksInitInv, <1>1, PTL DEF LinksSpec

\* Every reachable state of the document with its links is of its type, also
\* when AddLink and RemoveLink overwrite the document with a copy read earlier.
THEOREM LinksTypeCorrect == LinksSpec => []LinksTypeOK
<1>1. LinksInv => LinksTypeOK BY DEF LinksInv
<1> QED BY <1>1, LinksInvariance, PTL

\* A link that AddLink has reported is kept until RemoveLink takes it away, in
\* any number of calls that do not cross and whose listings do not fail.
THEOREM LinkKept == LinksSpec => []AddedLinkIsKept
<1>1. LinksInv => AddedLinkIsKept BY DEF LinksInv, Undisturbed, AddedLinkIsKept
<1> QED BY <1>1, LinksInvariance, PTL
=============================================================================
