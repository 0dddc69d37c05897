----------------------------- MODULE MCMigrations -----------------------------
(* Three migrations for TLC: a table that is created if it does not exist, *)
(* two columns of which one is dropped again, one that is not.             *)
EXTENDS Migrations

Create == [op |-> "create"]
DropTable == [op |-> "drop_table"]
Add(col) == [op |-> "add", col |-> col]
Drop(col) == [op |-> "drop", col |-> col]

MCMigrations ==
    {[version |-> 1, rollout |-> <<Create>>, rollback |-> <<DropTable>>],
     [version |-> 2, rollout |-> <<Add("b"), Add("c")>>,
                     rollback |-> <<Drop("b")>>],
     [version |-> 4, rollout |-> <<Add("d")>>, rollback |-> <<>>]}

=============================================================================
