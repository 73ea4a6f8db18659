----------------------------- MODULE StagedTree -----------------------------
(***************************************************************************)
(* A directory the delivery tools write: its files, the MANIFEST.json that *)
(* lists them and the SHA256SUMS that covers every file of the directory.  *)
(* A digest is the content itself, so an entry matches a file exactly when *)
(* it was written from that content.                                       *)
(***************************************************************************)
CONSTANTS
    Paths,     \* the files (or groups of files) told apart
    Contents,  \* what a file can hold
    Absent,    \* no such file, no such entry
    Missing    \* for a listing: MANIFEST.json or SHA256SUMS is not there

\* Absent and Missing are no contents, and differ.

NoFiles == [p \in Paths |-> Absent]
NoList == [p \in Paths |-> Missing]
NoSums == [files |-> NoList, listed |-> NoList]
Files == [Paths -> Contents \cup {Absent}]

Trees == [files: Files, listed: Files \cup {NoList},
          sums: [files: Files, listed: Files \cup {NoList}] \cup {NoSums}]

EmptyTree == [files |-> NoFiles, listed |-> NoList, sums |-> NoSums]
Holding(p, c) == [EmptyTree EXCEPT !.files[p] = c]

(* What survives of t when its removal stops half way. *)
Remains(t) ==
    [files: {[p \in Paths |-> IF p \in K THEN t.files[p] ELSE Absent] : K \in SUBSET Paths},
     listed: {t.listed, NoList}, sums: {t.sums, NoSums}]

(* MANIFEST.json lists what is there; SHA256SUMS covers that and MANIFEST. *)
WithManifest(t) == [t EXCEPT !.listed = t.files]
WithSums(t) == [t EXCEPT !.sums = [files |-> t.files, listed |-> t.listed]]

(* Every entry names a file with that digest; the sums cover exactly the   *)
(* files that exist.                                                       *)
ListingHolds(t) ==
    /\ t.listed # NoList
    /\ \A p \in Paths : t.listed[p] # Absent => t.files[p] = t.listed[p]
SumsHold(t) ==
    /\ t.sums # NoSums
    /\ \A p \in Paths : t.sums.files[p] # Absent => t.files[p] = t.sums.files[p]
    /\ t.sums.listed = t.listed
SumsCoverExactly(t) ==
    \A p \in Paths : (t.files[p] = Absent) <=> (t.sums.files[p] = Absent)

ListedFilesMatch(t) == ListingHolds(t) /\ SumsHold(t)    \* mutant: extra files unnoticed
Verifies(t) == ListingHolds(t) /\ SumsHold(t) /\ SumsCoverExactly(t)
=============================================================================
