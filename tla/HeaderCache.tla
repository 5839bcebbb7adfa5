----------------------------- MODULE HeaderCache -----------------------------
(***************************************************************************)
(* HeadersMetadataCache: headers by hash, and the hashes cached for each   *)
(* number.  A hash determines its header, so block_header_data is the set  *)
(* of its keys.                                                            *)
(***************************************************************************)
EXTENDS BlockTree

EmptyCache == [block_header_data |-> {}, block_number_hashes |-> << >>]

\* block_number_hashes.entry(n).or_default()
HashesAt(c, n) ==
  IF n \in DOMAIN c.block_number_hashes THEN c.block_number_hashes[n] ELSE {}

\* add_header for each block of B.
AddHeaders(c, B) ==
  [block_header_data   |-> c.block_header_data \cup B,
   block_number_hashes |->
     [n \in DOMAIN c.block_number_hashes \cup {Number(b) : b \in B} |->
        HashesAt(c, n) \cup {b \in B : Number(b) = n}]]

AddHeader(c, b) == AddHeaders(c, {b})

\* Mutant: only the entry at number itself is removed.
RemovedNumberOnly(c, number) == {number} \cap DOMAIN c.block_number_hashes

\* remove_header_until stops at the first number, going down, that has no entry.
RemovedNumbers(c, number) ==
  {m \in DOMAIN c.block_number_hashes :
     /\ m <= number
     /\ m..number \subseteq DOMAIN c.block_number_hashes}

\* Mutant: the hashes are forgotten and their headers kept.
RemoveHashesUntil(c, number) ==
  [c EXCEPT !.block_number_hashes =
     [n \in DOMAIN c.block_number_hashes \ RemovedNumbers(c, number) |->
        c.block_number_hashes[n]]]

RemoveHeaderUntil(c, number) ==
  LET gone == RemovedNumbers(c, number)
  IN  [block_header_data   |->
         c.block_header_data \ UNION {c.block_number_hashes[m] : m \in gone},
       block_number_hashes |->
         [n \in DOMAIN c.block_number_hashes \ gone |-> c.block_number_hashes[n]]]

\* The two maps of the cache hold the same headers.
Indexed(c) ==
  /\ \A b \in c.block_header_data :
       /\ Number(b) \in DOMAIN c.block_number_hashes
       /\ b \in c.block_number_hashes[Number(b)]
  /\ \A n \in DOMAIN c.block_number_hashes :
       /\ c.block_number_hashes[n] # {}
       /\ \A b \in c.block_number_hashes[n] :
            b \in c.block_header_data /\ Number(b) = n

=============================================================================
