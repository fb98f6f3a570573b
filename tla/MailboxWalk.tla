----------------------------- MODULE MailboxWalk -----------------------------
(***************************************************************************)
(* A client pages through its mailbox with List (internal/relay/mailbox.go *)
(* and the LIST operation of relay.go) while mail is stored and deleted.   *)
(* One page is one query on a snapshot; between pages only the cursor, the *)
(* key of the last entry listed, is kept, and by the client.               *)
(***************************************************************************)
EXTENDS Mailbox, FiniteSetsExt

CONSTANTS
    Owner,       \* the recipient who lists
    Limit,       \* entries per page, after the default and the maximum
    ByteBudget,  \* listByteBudget
    EntrySize(_) \* encoded size of the header entry with a given hash

ASSUME MailboxWalkAssumption ==
    /\ Owner \in Rx
    /\ Limit \in Nat \ {0}
    /\ Hashes \subseteq Nat     \* so that keys are ordered

VARIABLES
    order,      \* "newest" or "oldest" first, or "none" when nobody lists
    cursor,     \* {} at the start of a walk, else the last key listed
    seen,       \* keys listed by this walk
    must        \* keys that have been there since before the walk began

walk  == <<order, cursor, seen, must>>
wvars == <<vars, walk>>

\* Header keys sort by the time stored, then by hash.
Greater(k, l) == k[2] > l[2] \/ (k[2] = l[2] /\ k[1][2] > l[1][2])

Before(o, k, l) == IF o = "newest" THEN Greater(k, l) ELSE Greater(l, k)

\* The keys of the mailbox that are past the cursor in the walk's order.
Past == {k \in headers : k[1][1] = Owner /\ \A c \in cursor : Before(order, c, k)}

\* What the page has read when it comes to key k, and how large that is with k.
UpTo(k) == {l \in Past : l = k \/ Before(order, l, k)}
SizeUpTo(k) == MapThenSumSet(LAMBDA l : EntrySize(l[1][2]), UpTo(k))

\* Mutant: a first entry larger than the budget does not fit either.
FitsStrictly(k) == Cardinality(UpTo(k)) =< Limit /\ SizeUpTo(k) =< ByteBudget

\* An entry fits while the page holds fewer than Limit and stays within the
\* budget; the first one fits whatever its size.
Fits(k) ==
    /\ Cardinality(UpTo(k)) =< Limit
    /\ Cardinality(UpTo(k)) = 1 \/ SizeUpTo(k) =< ByteBudget

\* The page ends at the first entry that does not fit.
Page == {k \in Past : \A l \in UpTo(k) : Fits(l)}

\* Mutant: the cursor names the first entry of the page.
NextCursorFirst ==
    IF Page = Past THEN {} ELSE {k \in Page : \A l \in Page : l = k \/ Before(order, k, l)}

\* Mutant: a page that is not full hands out a cursor too.
NextCursorAlways ==
    IF Page = {} THEN cursor ELSE {k \in Page : \A l \in Page : l = k \/ Before(order, l, k)}

\* The last key listed if the page was full, otherwise empty.
NextCursor ==
    IF Page = Past THEN {} ELSE {k \in Page : \A l \in Page : l = k \/ Before(order, l, k)}

WalkInit ==
    /\ Init
    /\ order = "none"
    /\ cursor = {} /\ seen = {} /\ must = {}

WalkStart(o) ==
    /\ order = "none"
    /\ order' = o
    /\ cursor' = {}
    /\ seen' = {}
    /\ must' = {k \in headers : k[1][1] = Owner}
    /\ UNCHANGED vars

WalkPage ==
    /\ order # "none"
    /\ seen' = seen \cup Page
    /\ cursor' = NextCursor
    /\ order' = IF cursor' = {} THEN "none" ELSE order
    /\ UNCHANGED <<must, vars>>

\* Mail comes and goes between two pages.
MailboxStep ==
    /\ Next
    /\ must' = must \cap headers'
    /\ UNCHANGED <<order, cursor, seen>>

WalkNext ==
    \/ \E o \in {"newest", "oldest"} : WalkStart(o)
    \/ WalkPage
    \/ MailboxStep

\* The client asks for the next page for as long as it is handed a cursor.
WalkSpec == WalkInit /\ [][WalkNext]_wvars /\ WF_wvars(WalkPage)

-----------------------------------------------------------------------------
(* Properties.                                                             *)

\* When the walk ends, every message that was in the mailbox all along has been
\* listed, whatever was stored or deleted between the pages (the entry the
\* cursor names included), and however large its header is.
WalkComplete == order = "none" => must \subseteq seen

\* A page lists only what comes after everything the walk has listed so far: no
\* entry is listed twice, and the walk only ever goes one way, although the entry
\* its cursor names may be gone.
WalkNeverRepeats ==
    [][WalkPage => \A k \in Page, l \in seen : Before(order, l, k)]_wvars

\* A walk newest first comes to an end although new mail keeps arriving.
WalkEnds == order = "newest" ~> order = "none"
=============================================================================
