------------------------------ MODULE MCLedger ------------------------------
(***************************************************************************)
(* A file of up to five records, two entries besides AGENT_JOIN.  A digest  *)
(* is the list of the entries it stands on: no two of them collide.         *)
(***************************************************************************)
EXTENDS Ledger

MCHashes == UNION {[1 .. k -> Entries] : k \in 0 .. (MaxRecords + 1)}
MCNoHash == <<>>
MCDigest(h, i, e) == IF Len(h) <= MaxRecords THEN Append(h, e) ELSE h
=============================================================================
