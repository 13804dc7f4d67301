------------------------- MODULE MCDatabaseConnection -------------------------
(* DatabaseConnection on two processes and every kind of file. *)
EXTENDS DatabaseConnection, TLC

CONSTANTS a, b

Two == {a, b}

Bare(version) == [version |-> version, objects |-> [o \in Object |-> "absent"]]

Holding(schema, names) == [schema EXCEPT !.objects =
    [o \in Object |-> IF o \in names THEN "own" ELSE @[o]]]

Altered(schema, o) == [schema EXCEPT !.objects[o] = "other"]

Version1 == Holding(Bare(1), Names(Migration1))

(* Empty, version 1 and version 2; with an object of another definition; a  *)
(* file whose migration meets a name that is taken; a newer version.        *)
Files ==
    {Bare(0), Version1, Migrated,
     Altered(Bare(0), "submission_attempts"),
     Altered(Version1, "jobs"), Altered(Version1, "attempt_observations"),
     Altered(Migrated, "service_rate_limit_gate"),
     [Migrated EXCEPT !.version = Newer]}

CurrentFile == {Migrated}
=============================================================================
