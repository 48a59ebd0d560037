--------------------------- MODULE RunsRetention ----------------------------
(***************************************************************************)
(* What housekeeping deletes, src/runs_retention.py.  A directory is the   *)
(* sequence of its entries, the newest first by modification time, each of *)
(* one unit of size.                                                       *)
(***************************************************************************)
EXTENDS Naturals, Sequences, FiniteSets

CONSTANTS
  KeepLast,  \* entries that are never deleted, the newest ones (10 or more in the code)
  MaxTotal   \* disk use the directory may have

ASSUME RetentionConstants == KeepLast \in Nat /\ MaxTotal \in Nat

(* The entries of s at the places in at, in their order; those that pass a  *)
(* test are SelectSeq of s, in a form that the proofs can use.              *)
Only(s, at) ==
  LET upto[n \in 0..Len(s)] == IF n = 0 THEN <<>>
                               ELSE IF n \in at THEN Append(upto[n - 1], s[n]) ELSE upto[n - 1]
  IN  upto[Len(s)]

Chosen(s, Test(_)) == Only(s, {i \in DOMAIN s : Test(s[i])})

Entries(dir) == {dir[i] : i \in DOMAIN dir}
Without(dir, gone) == Chosen(dir, LAMBDA e : e \notin gone)

(* Writing to a file, or creating and deleting files in a directory, makes  *)
(* the entry the newest.                                                    *)
Touch(dir, e) == <<e>> \o Without(dir, {e})

(* The candidates, less the newest KeepLast, are deleted from the oldest on *)
(* for as long as the total is above the limit.                             *)
Evicted(dir, own, others) ==
  LET candidates == Without(dir, own)
      n == Len(candidates)
      deletable == IF n > KeepLast THEN n - KeepLast ELSE 0
      total == Len(dir) + others
      needed == IF total > MaxTotal THEN total - MaxTotal ELSE 0
      k == IF needed < deletable THEN needed ELSE deletable
  IN  {candidates[i] : i \in (n - k + 1)..n}

=============================================================================
