--------------------------- MODULE PersonalDevices ---------------------------
(***************************************************************************)
(* Several devices of one account edit what personal storage holds, from   *)
(* the web client (lib/hooks/useSettings.ts and useLabels.ts for the       *)
(* documents, lib/api/contactStore.ts for the contacts, both through       *)
(* lib/api/personalStore.ts).                                              *)
(*                                                                         *)
(* An edit reads the value and its version, adds to the value, and puts it *)
(* back under that version; on a conflict it starts over, a limited number *)
(* of times.  A document that does not exist yet is read as empty, with    *)
(* version 0; and a Put that expects version 0 is unconditional.           *)
(*                                                                         *)
(* A value is the set of edits it contains.  Every handler of PersonalKv   *)
(* serves one device, which awaits each answer before its next request.    *)
(***************************************************************************)
EXTENDS PersonalKv

CONSTANTS
    Edits,          \* what a user may change; each edit is made once
    DocTries,       \* attempts at an edit of a document (5)
    ContactTries    \* attempts at a rename of a contact (2)

ASSUME PersonalDevicesAssumption ==
    /\ Vals = SUBSET Edits
    /\ DocTries \in Nat \ {0} /\ ContactTries \in Nat \ {0}

VARIABLES
    pc,         \* device -> "idle", "read", "write" or "asked"
    key, edit,  \* the edit a device is making, and to which key
    ver, val,   \* what its last read returned
    tries,      \* the conflicts it has met
    since,      \* history: the key's version when the edit began
    spent,      \* history: edits already made
    told        \* history: key -> edits that were reported as saved

dvars == <<pc, key, edit, ver, val, tries, since, spent, told>>
vars  == <<kvars, dvars>>

Tries(k) == IF k \in Docs THEN DocTries ELSE ContactTries

DTypeOK ==
    /\ TypeOK
    /\ pc \in [Procs -> {"idle", "read", "write", "asked"}]
    /\ key \in [Procs -> Keys]
    /\ edit \in [Procs -> Edits]
    /\ ver \in [Procs -> 0..MaxVersion]
    /\ val \in [Procs -> Vals]
    /\ tries \in [Procs -> Nat]
    /\ \A d \in Procs : pc[d] \in {"read", "write"} => tries[d] < Tries(key[d])
    /\ since \in [Procs -> 0..MaxVersion]
    /\ spent \in SUBSET Edits
    /\ told \in [Keys -> SUBSET Edits]

Content(k) == IF rec[k] = None THEN {} ELSE rec[k].val

DInit ==
    /\ Init
    /\ \A k \in Existing : rec[k].val = {}
    /\ pc = [d \in Procs |-> "idle"]
    /\ key \in {[d \in Procs |-> k] : k \in Keys}
    /\ edit \in {[d \in Procs |-> e] : e \in Edits}
    /\ ver = [d \in Procs |-> 0]
    /\ val = [d \in Procs |-> {}]
    /\ tries = [d \in Procs |-> 0]
    /\ since = [d \in Procs |-> 0]
    /\ spent = {}
    /\ told = [k \in Keys |-> {}]

-----------------------------------------------------------------------------

Goto(d, l) == pc' = [pc EXCEPT ![d] = l]

Take(d, k, e) ==
    /\ pc[d] = "idle"
    /\ e \notin spent
    /\ spent' = spent \cup {e}
    /\ key' = [key EXCEPT ![d] = k]
    /\ edit' = [edit EXCEPT ![d] = e]
    /\ tries' = [tries EXCEPT ![d] = 0]
    /\ since' = [since EXCEPT ![d] = Version(k)]
    /\ UNCHANGED <<ver, val, told>>

\* mutate, updateSettings, ContactStore.update.
Start(d, k, e) ==
    /\ Take(d, k, e)
    /\ Goto(d, "read")
    /\ UNCHANGED kvars

\* addContact, allowlist: a record written whatever is there.
Add(d, k, e) ==
    /\ k \in Records
    /\ Take(d, k, e)
    /\ Goto(d, "asked")
    /\ PutRead(d, k, {e}, 0)

\* removeContact.
Remove(d, k) ==
    /\ pc[d] = "idle"
    /\ Delete(k)
    /\ UNCHANGED dvars

\* Mutant: off by one, a document at its first version is read as absent.
ReadFirstAsAbsent(d) ==
    /\ pc[d] = "read"
    /\ key[d] \in Docs \/ rec[key[d]] # None
    /\ ver' = [ver EXCEPT ![d] = Version(key[d])]
    /\ val' = [val EXCEPT ![d] = IF Version(key[d]) =< 1 THEN {} ELSE Content(key[d])]
    /\ Goto(d, "write")
    /\ UNCHANGED <<key, edit, tries, since, spent, told, kvars>>

\* store.get: an absent document is empty and has version 0.
Read(d) ==
    /\ pc[d] = "read"
    /\ key[d] \in Docs \/ rec[key[d]] # None
    /\ ver' = [ver EXCEPT ![d] = Version(key[d])]
    /\ val' = [val EXCEPT ![d] = Content(key[d])]
    /\ Goto(d, "write")
    /\ UNCHANGED <<key, edit, tries, since, spent, told, kvars>>

\* "Contact no longer exists".
ReadNothing(d) ==
    /\ pc[d] = "read"
    /\ key[d] \in Records /\ rec[key[d]] = None
    /\ Goto(d, "idle")
    /\ UNCHANGED <<key, edit, ver, val, tries, since, spent, told, kvars>>

\* store.put reaches the relay, and the versions agree.
Ask(d) ==
    /\ pc[d] = "write"
    /\ PutRead(d, key[d], val[d] \cup {edit[d]}, ver[d])
    /\ Goto(d, "asked")
    /\ UNCHANGED <<key, edit, ver, val, tries, since, spent, told>>

\* They do not: read again, or give up after the last attempt.
Conflict(d) ==
    /\ pc[d] = "write"
    /\ PutConflict(key[d], ver[d])
    /\ tries' = [tries EXCEPT ![d] = @ + 1]
    /\ Goto(d, IF tries[d] + 1 < Tries(key[d]) THEN "read" ELSE "idle")
    /\ UNCHANGED <<key, edit, ver, val, since, spent, told>>

\* The relay writes; the device is told, or the answer is lost on the way.
Written(d) ==
    /\ pc[d] = "asked"
    /\ PutWrite(d)
    /\ Goto(d, "idle")
    /\ told' \in {told, [told EXCEPT ![key[d]] = @ \cup {edit[d]}]}
    /\ UNCHANGED <<key, edit, ver, val, tries, since, spent>>

\* Mutant: the relay answers a refused write with success.
NotWrittenTold(d) ==
    /\ pc[d] = "asked"
    /\ PutFailed(d)
    /\ Goto(d, "idle")
    /\ told' = [told EXCEPT ![key[d]] = @ \cup {edit[d]}]
    /\ UNCHANGED <<key, edit, ver, val, tries, since, spent>>

\* The datastore refuses the write, and the edit fails.
NotWritten(d) ==
    /\ pc[d] = "asked"
    /\ PutFailed(d)
    /\ Goto(d, "idle")
    /\ UNCHANGED <<key, edit, ver, val, tries, since, spent, told>>

\* The relay restarts; requests in progress fail.
Restart ==
    /\ Crash
    /\ pc' = [d \in Procs |-> IF pc[d] = "asked" THEN "idle" ELSE pc[d]]
    /\ UNCHANGED <<key, edit, ver, val, tries, since, spent, told>>

DNext ==
    \/ \E d \in Procs, k \in Keys, e \in Edits : Start(d, k, e) \/ Add(d, k, e)
    \/ \E d \in Procs, k \in Records : Remove(d, k)
    \/ \E d \in Procs :
          \/ Read(d) \/ ReadNothing(d) \/ Ask(d) \/ Conflict(d)
          \/ Written(d) \/ NotWritten(d)
    \/ Restart

DSpec == DInit /\ [][DNext]_vars

-----------------------------------------------------------------------------
(* Properties.                                                             *)

\* Once a document exists, an edit of it that was reported as saved stays in it,
\* whatever other devices save at the same time, however often answers are lost
\* and the relay restarts: the retry loop starts from what it finds.
ExistingDocsKeepEdits == \A k \in Existing : told[k] \subseteq Content(k)

\* Nothing ever disappears from a document except through a write that began
\* when the document did not exist.
ClobberNeedsFirstWrite ==
    [][\A k \in Docs : ~(Content(k) \subseteq Content(k)') =>
          \E d \in Procs : put[d] # None /\ put[d].key = k /\ put[d].expect = 0]_vars

\* Every conflict that an edit of a document meets is a write of another device
\* that came through since it began, so an edit that gives up has been overtaken
\* as many times as it tried.
EveryConflictIsAWrite ==
    \A d \in Procs : key[d] \in Docs => Version(key[d]) >= since[d] + tries[d]
==============================================================================
