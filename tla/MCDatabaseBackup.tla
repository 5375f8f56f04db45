-------------------------- MODULE MCDatabaseBackup --------------------------
(* DatabaseBackup for TLC: the setups of a schedule, and the bounds. *)
EXTENDS DatabaseBackup, TLC

For(amount, days, max) == [amount |-> amount, days |-> days, storage |-> max]

Schedule(databases, all, s3, disable, local, remote) ==
  [databases |-> databases, dump_all |-> all, save_s3 |-> s3,
   disable_local |-> disable,
   keep |-> [w \in {"local", "s3"} |-> IF w = "local" THEN local ELSE remote]]

Everywhere == Schedule(<<"a">>, FALSE, TRUE, FALSE, For(0, 0, 1), For(1, 0, 0))
OnlyS3     == Schedule(<<"a">>, FALSE, TRUE, TRUE, For(1, 0, 0), For(1, 0, 0))
OneOfTwo   == Schedule(<<"a", "b">>, FALSE, FALSE, FALSE, For(1, 0, 0), For(0, 0, 0))
DumpAll    == Schedule(<<"a">>, TRUE, TRUE, FALSE, For(1, 0, 0), For(0, 1, 0))

MCSetups == {Everywhere, OnlyS3, OneOfTwo, DumpAll}

Budget(n, dump, upload, rm, death, user) ==
  [k \in {"rows", "dump", "upload", "rm", "death", "user"} |->
     CASE k = "rows" -> n [] k = "dump" -> dump [] k = "upload" -> upload
       [] k = "rm" -> rm [] k = "death" -> death [] k = "user" -> user]

Mixed == {Budget(3, 1, 0, 0, 0, 0), Budget(3, 0, 1, 0, 0, 0),
          Budget(2, 1, 1, 1, 1, 0), Budget(2, 0, 0, 0, 1, 1)}

Symmetry == Permutations(Jobs)
=============================================================================
