--------------------------- MODULE VersionedDraft ---------------------------
(***************************************************************************)
(* What the authoring of workflows promises: a draft is replaced only by   *)
(* an editor who was looking at what it holds, a draft that exists is      *)
(* never replaced by somebody who saw none, and what was published stays   *)
(* as it was published, numbered upwards, for as long as its document      *)
(* exists.  How an editor's copy is told from a stale one is left open.    *)
(***************************************************************************)
EXTENDS Naturals

CONSTANTS Documents, Editors, Absent

VARIABLES
    text,        \* per document: the draft, or Absent
    published,   \* per document: the numbered texts published from it
    removed,     \* the documents that are gone for good
    looking      \* per editor: the document and text they saw last, or Absent

draftVars == <<text, published, removed, looking>>

DraftInit ==
    /\ published = [d \in Documents |-> {}]
    /\ removed = {}
    /\ looking = [e \in Editors |-> Absent]

Looks(e) ==
    /\ \E d \in Documents : looking' = [looking EXCEPT ![e] = [of |-> d, saw |-> text[d]]]
    /\ UNCHANGED <<text, published, removed>>

LooksAway(e) ==
    /\ looking' = [looking EXCEPT ![e] = Absent]
    /\ UNCHANGED <<text, published, removed>>

\* The editor goes on with what they wrote, or leaves.
Writes(e, d, new) ==
    /\ d \notin removed
    /\ looking[e] = [of |-> d, saw |-> text[d]]
    /\ text' = [text EXCEPT ![d] = new]
    /\ looking' \in {[looking EXCEPT ![e] = [of |-> d, saw |-> new]],
                     [looking EXCEPT ![e] = Absent]}
    /\ UNCHANGED removed

Edits(e, d, new) == Writes(e, d, new) /\ UNCHANGED published

Publishes(e, d, new) ==
    /\ Writes(e, d, new)
    /\ \E p \in published'[d] :
          /\ p[2] = new
          /\ \A q \in published[d] : q[1] < p[1]
          /\ published' = [published EXCEPT ![d] = @ \cup {p}]

Removes(d) ==
    /\ text' = [text EXCEPT ![d] = Absent]
    /\ published' = [published EXCEPT ![d] = {}]
    /\ removed' = removed \cup {d}
    /\ UNCHANGED looking

DraftNext ==
    \/ \E e \in Editors : Looks(e) \/ LooksAway(e)
    \/ \E e \in Editors, d \in Documents :
          Edits(e, d, text'[d]) \/ Publishes(e, d, text'[d])
    \/ \E d \in Documents : Removes(d)

DraftSpec == DraftInit /\ [][DraftNext]_draftVars
=============================================================================
