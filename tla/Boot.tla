-------------------------------- MODULE Boot --------------------------------
(***************************************************************************)
(* The life of a server process (cmd/api/main.go) and the migrations it    *)
(* runs before it serves (internal/db/db.go), for several processes on one *)
(* database: replicas that start at once, or a release that replaces an    *)
(* older one, which knows fewer migrations.  A process may die at any step *)
(* and start again; what its transaction did is then undone.               *)
(***************************************************************************)
EXTENDS Integers, Sequences, FiniteSets

CONSTANTS
    Processes,
    Files,          \* Files[p]: the migrations in p's binary, in filename order
    Starts          \* bound on the starts of a process

Migrations == UNION {{Files[p][i] : i \in DOMAIN Files[p]} : p \in Processes}

\* A release adds migrations after those there were; no two files of a directory
\* have one name.
ASSUME FilesAssumption ==
    /\ Files \in [Processes -> Seq(Migrations)]
    /\ \A p \in Processes : \A i, j \in DOMAIN Files[p] :
          Files[p][i] = Files[p][j] => i = j
    /\ \A p, q \in Processes :
          \A i \in 1..Len(Files[p]) \cap 1..Len(Files[q]) : Files[p][i] = Files[q][i]

VARIABLES
    proc,           \* proc[p]: where p is, and the migration it is at
    starts,         \* how often p was started
    versions,       \* the rows of schema_migrations
    schema          \* the bodies that were committed, in order

bootVars == <<proc, starts, versions, schema>>

Down == [at |-> "down", i |-> 1]
In(p, at) == proc[p].at = at
Step(p, at) == proc' = [proc EXCEPT ![p].at = at]
File(p) == Files[p][proc[p].i]

BootInit ==
    /\ proc = [p \in Processes |-> Down]
    /\ starts = [p \in Processes |-> 0]
    /\ versions = {} /\ schema = <<>>

-----------------------------------------------------------------------------
\* The process connects; the database answers its ping or it exits.
Connect(p) ==
    /\ In(p, "down") /\ starts[p] < Starts
    /\ starts' = [starts EXCEPT ![p] = @ + 1]
    /\ Step(p, "connected")
    /\ UNCHANGED <<versions, schema>>

\* CREATE TABLE IF NOT EXISTS schema_migrations.
EnsureTable(p) ==
    /\ In(p, "connected")
    /\ Step(p, "check")
    /\ UNCHANGED <<starts, versions, schema>>

\* Is the next migration recorded?  Then on to the one after it.  After the last
\* the process serves.
Check(p) ==
    /\ In(p, "check")
    /\ IF proc[p].i > Len(Files[p]) THEN Step(p, "serving")
       ELSE IF File(p) \in versions THEN proc' = [proc EXCEPT ![p].i = @ + 1]
       ELSE Step(p, "body")
    /\ UNCHANGED <<starts, versions, schema>>

\* The body runs in a transaction: seen by nobody until it commits.
Apply(p) ==
    /\ In(p, "body")
    /\ Step(p, "record")
    /\ UNCHANGED <<starts, versions, schema>>

\* Mutant: the version is recorded without regard to a row that is there.
NewVersionAnyway(p) == TRUE

\* The version is the primary key: the insert waits for another transaction that
\* has inserted it, and fails once that has committed.
NewVersion(p) ==
    /\ File(p) \notin versions
    /\ \A q \in Processes \ {p} : In(q, "commit") => File(q) # File(p)

Record(p) ==
    /\ In(p, "record")
    /\ NewVersion(p)
    /\ Step(p, "commit")
    /\ UNCHANGED <<starts, versions, schema>>

CommitFile(p) ==
    /\ In(p, "commit")
    /\ schema' = Append(schema, File(p))
    /\ versions' = versions \cup {File(p)}
    /\ proc' = [proc EXCEPT ![p] = [at |-> "check", i |-> @.i + 1]]
    /\ UNCHANGED starts

\* A statement fails, the insert of a version that is there by now among them:
\* the transaction is rolled back and the process exits.  Or it is killed.
Exit(p) ==
    /\ ~In(p, "down")
    /\ proc' = [proc EXCEPT ![p] = Down]
    /\ UNCHANGED <<starts, versions, schema>>

\* A signal: no new requests; those under way have ten seconds; then the cleanup
\* is told to stop and the pool is closed.
Shutdown(p) ==
    /\ In(p, "serving")
    /\ Step(p, "draining")
    /\ UNCHANGED <<starts, versions, schema>>

Migrate(p) ==
    EnsureTable(p) \/ Check(p) \/ Apply(p) \/ Record(p) \/ CommitFile(p)

BootNext ==
    \E p \in Processes : Connect(p) \/ Migrate(p) \/ Exit(p) \/ Shutdown(p)

-----------------------------------------------------------------------------
(* Properties.                                                             *)

\* However many processes start at once and wherever they die, every migration
\* is committed once and in filename order, the record of them says just that,
\* and who serves has all that its binary knows (db.go:29).
MigratedInOrder ==
    /\ \A i, j \in DOMAIN schema : schema[i] = schema[j] => i = j
    /\ {schema[i] : i \in DOMAIN schema} = versions
    /\ \A p \in Processes :
          /\ \A i \in DOMAIN schema \cap DOMAIN Files[p] : schema[i] = Files[p][i]
          /\ proc[p].at \in {"serving", "draining"} => Len(Files[p]) <= Len(schema)
=============================================================================
