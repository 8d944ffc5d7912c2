----------------------------- MODULE MCAccounts -----------------------------
(* One organization, two batches, rosters that share accounts and clash.   *)
EXTENDS Accounts, TLC

CONSTANTS o1, b1, b2, e1, e2, n1

MCOrgOf == b1 :> o1 @@ b2 :> o1
Csv(rows) == [header |-> <<>>, rows |-> rows]
Xlsx(header, rows) == [header |-> header, rows |-> rows]
MCSheets == {
  Csv(<< <<None, e1>>, <<Text, e1, n1>>, <<Text, e2, n1>> >>),  \* one number twice
  Xlsx(<<"email", "name", "email", "externalId">>,             \* e2 before e1
       << <<e2, Text, None, n1>>, <<e1, Text>>, <<e1, None>> >>) }
Symm == Permutations(Jobs) \cup Permutations(Uids)
=============================================================================
